---------------------------- MODULE WriterProofs ----------------------------
(***************************************************************************)
(* Proofs about Writer: types, the pairing of WAL files and memtables that *)
(* persist relies on (Paired), and that a batch that was answered with Ok  *)
(* stays in a channel, at work, or in memory until it is persisted         *)
(* (AnsweredKept).                                                         *)
(*                                                                         *)
(* The invariant has two halves.  Control says who is at work: there is at *)
(* most one live writer, every task at work holds it and, with the queue,  *)
(* only the one task its loop is busy with works.  Data follows one WAL    *)
(* file and one memtable from their making through the two halves of a     *)
(* rotation or a flush into IMMUTABLES.                                    *)
(*                                                                         *)
(* The invariant is stated twice over: with alone TRUE for the writer by   *)
(* itself, with alone FALSE for one whose tables others persist, replay    *)
(* and kill.  The last part says what a step of the writer shows to those  *)
(* others, which is what module IngesterProofs needs of it.                *)
(***************************************************************************)
EXTENDS Writer, TLAPS

\* A task that is between consume_processed's first and last step.
Working(t) == st[t] \in WorkSteps

\* The writer is in the map, or flush_all is closing it.
Live(g) == g \in Writers /\ (g = reg \/ (fl.at # "off" /\ g = fl.g))

\* A loop ends only on the Close that flush sends, so a registered writer is
\* alive; and flush_all does not run without the queue.
MapInv ==
    /\ reg # None => reg \in alive
    /\ \A g \in alive : Live(g)
    /\ ~mode /\ made # 0 => reg # None

\* Flush holds the WRITERS lock; after its wait no loop runs.
FlushInv ==
    /\ fl.at = "off" => fl = NoFlush
    /\ fl.at # "off" => mode /\ reg = None /\ fl.g # None
    /\ fl.at \in {"swap", "insert"} => alive = {}

\* A task at work has a writer that is live, and with the queue it is the one
\* its loop is busy with.
WorkInv ==
    \A t \in Tasks :
        /\ Working(t) => Live(home[t]) /\ (mode => busy[home[t]] = t /\ home[t] \in alive)
        /\ st[t] = "new" => home[t] = None
        /\ home[t] = None => st[t] \in {"new", "done", "failed", "dropped"}
        /\ ~mode /\ home[t] # None => home[t] = reg

\* What is in a channel: tasks of this writer, once, and the Close of flush.
QueueInv ==
    \A g \in Writers :
        /\ g \notin alive => queue[g] = <<>> /\ busy[g] = None
        /\ busy[g] # None => Working(busy[g]) /\ home[busy[g]] = g
        /\ \A i \in 1..Len(queue[g]) :
              \/ queue[g][i] = Close /\ fl.at = "sync" /\ fl.g = g
              \/ /\ queue[g][i] \in Tasks /\ st[queue[g][i]] = "queued" /\ home[queue[g][i]] = g
                 /\ \A j \in 1..Len(queue[g]) : queue[g][j] = queue[g][i] => j = i

\* What TypeOK says, in the pieces the proofs look at.
FlType == [at : {"off", "close", "sync", "swap", "insert"}, g : 0..made,
           wal : WalIds \cup {None}, mem : MemIds \cup {None}]

DataOK ==
    /\ wals \subseteq WalIds
    /\ entries \in [WalIds -> SUBSET Batches]
    /\ rows \in [MemIds -> SUBSET Batches]
    /\ imm \in [WalIds -> MemIds \cup {None}]
    /\ nextWal \in 1..(MaxWal + 1) /\ nextMem \in 1..(MaxMem + 1)
    /\ buf \in [WalIds -> SUBSET Batches]
    /\ cur \in [Writers -> WalIds \cup {None}]
    /\ mem \in [Writers -> MemIds \cup {None}]
    /\ heldWal \in [Tasks -> WalIds \cup {None}]
    /\ heldMem \in [Tasks -> MemIds \cup {None}]
    /\ stored \subseteq Batches

ControlOK ==
    /\ made \in 0..MaxWriter /\ reg \in 0..made
    /\ queue \in [Writers -> Seq(Tasks \cup {Close})]
    /\ alive \subseteq 1..made
    /\ busy \in [Writers -> Tasks \cup {None}]
    /\ st \in [Tasks -> States]
    /\ home \in [Tasks -> 0..made]
    /\ fl \in FlType /\ mode \in Modes

\* The WAL files in use are different ones, and none of them has a memtable in
\* IMMUTABLES yet.
CurInv ==
    \A g \in Writers :
        /\ cur[g] < nextWal /\ (g > made => cur[g] = None)
        /\ \A h \in Writers : cur[g] = cur[h] /\ cur[g] # None => g = h

HeldWalInv ==
    \A t \in Tasks :
        /\ heldWal[t] # None <=> st[t] \in {"swap", "insert"}
        /\ heldWal[t] # None =>
              /\ heldWal[t] < nextWal /\ imm[heldWal[t]] = None
              /\ \A g \in Writers : cur[g] # heldWal[t]
              /\ \A s \in Tasks : heldWal[s] = heldWal[t] => s = t

FlWalInv == fl.wal = IF fl.at \in {"swap", "insert"} THEN cur[fl.g] ELSE None

OpenInv == \A g \in Writers : Live(g) => cur[g] # None /\ mem[g] # None /\ imm[cur[g]] = None

FreshWalInv == \A w \in WalIds : w >= nextWal => entries[w] = {} /\ buf[w] = {} /\ imm[w] = None

WalInv == CurInv /\ HeldWalInv /\ FlWalInv /\ OpenInv /\ FreshWalInv

\* So are the memtables in use and the ones in IMMUTABLES.
MemOfInv ==
    \A g \in Writers :
        /\ mem[g] < nextMem /\ (g > made => mem[g] = None)
        /\ \A h \in Writers : mem[g] = mem[h] /\ mem[g] # None => g = h

HeldMemInv ==
    \A t \in Tasks :
        /\ heldMem[t] # None <=> st[t] = "insert"
        /\ heldMem[t] # None =>
              /\ heldMem[t] < nextMem
              /\ \A g \in Writers : mem[g] # heldMem[t]
              /\ \A s \in Tasks : heldMem[s] = heldMem[t] => s = t

FlMemInv ==
    /\ fl.mem # None <=> fl.at = "insert"
    /\ fl.mem # None => /\ fl.mem < nextMem
                        /\ \A g \in Writers : mem[g] # fl.mem

ImmMemInv ==
    \A w \in WalIds : imm[w] # None =>
        /\ imm[w] < nextMem
        /\ \A g \in Writers : mem[g] # imm[w]

FreshMemInv == \A m \in MemIds : m >= nextMem => rows[m] = {}

MemInv == MemOfInv /\ HeldMemInv /\ FlMemInv /\ ImmMemInv /\ FreshMemInv

\* The memtables that a later step will still read or persist, and the one a
\* failing flush leaves with its writer.
Kept(m) ==
    \/ \E g \in Writers : (Live(g) \/ WalErrors) /\ mem[g] = m
    \/ \E w \in WalIds : imm[w] = m
    \/ \E t \in Tasks : heldMem[t] = m
    \/ fl.mem = m

\* A batch that is in a memtable stays in one of these.
KeepInv(alone) ==
    alone => \A b \in Batches : st[b] \in {"sync", "done"} =>
        b \in stored \/ \E m \in MemIds : Kept(m) /\ b \in rows[m]

\* A WAL file on disk and a memtable hold the same batches, but the failed ones.
Whole(w, m) ==
    /\ w \in wals /\ buf[w] = {}
    /\ entries[w] \ Failed \subseteq rows[m] /\ rows[m] \subseteq entries[w]

\* The same while the writer appends: some batches are still in the buffer of
\* the file, and the one between the two locks is not in the memtable.
InWal(w) == entries[w] \cup buf[w]

Even(g) ==
    /\ cur[g] \in wals
    /\ rows[mem[g]] \subseteq InWal(cur[g])
    /\ \A b \in InWal(cur[g]) : b \in rows[mem[g]] \/ b \in Failed \/ (st[b] = "mem" /\ home[b] = g)

\* With the queue, a file and its memtable go through the steps of the writer,
\* of a rotation and of a flush together.
SealedInv(alone) == alone => \A w \in WalIds : imm[w] # None => Whole(w, imm[w])

TurnInv ==
    \A t \in Tasks :
        /\ st[t] = "swap" => Whole(heldWal[t], mem[home[t]])
        /\ st[t] = "insert" => Whole(heldWal[t], heldMem[t]) /\ rows[mem[home[t]]] = {}
        /\ st[t] \in {"swap", "insert"} => cur[home[t]] \in wals /\ InWal(cur[home[t]]) = {}

Turning(g) == \E t \in Tasks : home[t] = g /\ st[t] \in {"swap", "insert"}

EvenInv ==
    /\ fl.at # "insert" => \A g \in Writers : Live(g) /\ ~Turning(g) => Even(g)
    /\ \A b \in Batches : st[b] = "mem" => b \in InWal(cur[home[b]])

FlushedInv ==
    /\ fl.at = "swap" => buf[fl.wal] = {}
    /\ fl.at = "insert" => Whole(fl.wal, fl.mem) /\ rows[mem[fl.g]] = {}

PairInv(alone) == mode => SealedInv(alone) /\ TurnInv /\ EvenInv /\ FlushedInv

Control == MapInv /\ FlushInv /\ WorkInv /\ QueueInv

(* alone: the persist side is the one step Persisted of this module and    *)
(* nothing is killed.  Without it the invariant says less, that is what    *)
(* holds inside module Ingester: a memtable in IMMUTABLES may outlive its  *)
(* WAL file for a while, and a kill takes memtables away.                  *)
IInv(alone) == TypeOK /\ Control /\ WalInv /\ MemInv /\ KeepInv(alone) /\ PairInv(alone)

\* The types and the part of the invariant about files and memtables.
Data(alone) == DataOK /\ WalInv /\ MemInv /\ KeepInv(alone) /\ PairInv(alone)

(* flush_all runs with the queue only.  Without it a request may hold the   *)
(* writer that flush_all closes and go on writing into it behind the flush,  *)
(* so nothing is claimed for that.                                           *)
NoDirectFlush == FALSE \notin FlushModes

----------------------------------------------------------------------------
(* Tasks, loops and flush                                                   *)

\* The types of the data and of the control, which the steps change apart.
LEMMA Types == TypeOK <=> DataOK /\ ControlOK
    BY DEF TypeOK, DataOK, ControlOK, FlType

\* None is no task and no id.
LEMMA NoneIsNone ==
    /\ \A t \in Tasks : t # None /\ t # Close
    /\ \A w \in WalIds : w # None
    /\ \A m \in MemIds : m # None
    /\ \A g \in Writers : g # None
    /\ MaxWal \in Nat /\ MaxMem \in Nat /\ MaxWriter \in Nat
    BY WriterAssumption DEF Tasks, None, Close, WalIds, MemIds, Writers

\* A task at work takes a step, or ends.
LEMMA GotoNext ==
    ASSUME NEW alone \in BOOLEAN, IInv(alone), NEW t \in Tasks, Working(t),
           NEW s \in {"check", "swap", "insert", "wal", "mem", "sync", "done", "failed"},
           Goto(t, s), UNCHANGED <<queue, alive, home, reg, fl, made, mode>>
    PROVE  /\ Control' /\ ControlOK'
           /\ st'[t] = s /\ \A u \in Tasks \ {t} : st'[u] = st[u]
<1>1. ControlOK /\ Control
    BY Types DEF IInv
<1>2. /\ st \in [Tasks -> States] /\ st' = [st EXCEPT ![t] = s] /\ s \in States
    BY <1>1 DEF ControlOK, Goto, States
<1>3. /\ st' \in [Tasks -> States]
      /\ st'[t] = s /\ \A u \in Tasks \ {t} : st'[u] = st[u]
    BY <1>2
<1>4. busy \in [Writers -> Tasks \cup {None}]
    BY <1>1 DEF ControlOK
<1>5. /\ \A g \in Writers : busy'[g] = busy[g] \/ (busy[g] = t /\ busy'[g] = None)
      /\ s \in {"done", "failed"} => \A g \in Writers : busy'[g] # t
      /\ busy' \in [Writers -> Tasks \cup {None}]
  <2>1. CASE s \in {"done", "failed"}
    <3>1. busy' = [g \in Writers |-> IF busy[g] = t THEN None ELSE busy[g]]
        BY <2>1 DEF Goto
    <3> QED BY <1>4, <3>1, NoneIsNone
  <2>2. CASE s \notin {"done", "failed"}
    BY <1>4, <2>2 DEF Goto
  <2> QED BY <2>1, <2>2
<1>6. ControlOK'
    BY <1>1, <1>3, <1>5 DEF ControlOK, FlType
<1>7. /\ \A g : Live(g)' <=> Live(g)
      /\ \A u \in Tasks \ {t} : Working(u)' <=> Working(u)
      /\ Working(t)' <=> s \notin {"done", "failed"}
    BY <1>3 DEF Live, Working, WorkSteps
<1>8. MapInv' /\ FlushInv'
    BY <1>1, <1>7 DEF Control, MapInv, FlushInv
<1>9. WorkInv'
  <2> SUFFICES ASSUME NEW u \in Tasks
               PROVE  /\ Working(u)' => Live(home[u]) /\ (mode => busy'[home[u]] = u /\ home[u] \in alive)
                      /\ st'[u] = "new" => home[u] = None
                      /\ home[u] = None => st'[u] \in {"new", "done", "failed", "dropped"}
                      /\ ~mode /\ home[u] # None => home[u] = reg
    BY <1>7 DEF WorkInv
  <2>1. Working(u)' => Working(u)
    BY <1>7
  <2>2. Working(u) => Live(home[u]) /\ (mode => busy[home[u]] = u /\ home[u] \in alive)
    BY <1>1 DEF Control, WorkInv
  <2>3. Working(u)' /\ mode => busy'[home[u]] = u
    <3> SUFFICES ASSUME Working(u)', mode PROVE busy'[home[u]] = u
        OBVIOUS
    <3>1. busy[home[u]] = u /\ home[u] \in Writers
        BY <2>1, <2>2 DEF Live
    <3>2. CASE u # t
        BY <1>5, <3>1, <3>2
    <3>3. CASE u = t
      <4>1. s \notin {"done", "failed"}
        BY <1>7, <3>3
      <4> QED BY <3>1, <4>1 DEF Goto
    <3> QED BY <3>2, <3>3
  <2>4. /\ st'[u] = "new" => home[u] = None
        /\ home[u] = None => st'[u] \in {"new", "done", "failed", "dropped"}
    <3>1. /\ st[u] = "new" => home[u] = None
          /\ home[u] = None => st[u] \in {"new", "done", "failed", "dropped"}
        BY <1>1 DEF Control, WorkInv
    <3>2. st[t] \notin {"new", "done", "failed", "dropped"} /\ st'[t] # "new"
        BY <1>3 DEF Working, WorkSteps
    <3> QED BY <1>3, <3>1, <3>2
  <2> QED BY <1>1, <2>1, <2>2, <2>3, <2>4 DEF Control, WorkInv
<1>10. QueueInv'
  <2> SUFFICES ASSUME NEW g \in Writers
               PROVE  /\ g \notin alive => queue[g] = <<>> /\ busy'[g] = None
                      /\ busy'[g] # None => Working(busy[g])' /\ busy'[g] = busy[g] /\ home[busy[g]] = g
                      /\ \A i \in 1..Len(queue[g]) :
                            \/ queue[g][i] = Close /\ fl.at = "sync" /\ fl.g = g
                            \/ /\ queue[g][i] \in Tasks /\ st'[queue[g][i]] = "queued"
                               /\ home[queue[g][i]] = g
                               /\ \A j \in 1..Len(queue[g]) : queue[g][j] = queue[g][i] => j = i
    BY DEF QueueInv, Working, WorkSteps
  <2>1. g \notin alive => queue[g] = <<>> /\ busy'[g] = None
    BY <1>1, <1>5 DEF Control, QueueInv
  <2>2. busy'[g] # None => Working(busy[g])' /\ busy'[g] = busy[g] /\ home[busy[g]] = g
    <3> SUFFICES ASSUME busy'[g] # None
                 PROVE  Working(busy[g])' /\ busy'[g] = busy[g] /\ home[busy[g]] = g
        OBVIOUS
    <3>1. busy'[g] = busy[g] /\ busy[g] \in Tasks
        BY <1>4, <1>5
    <3>2. Working(busy[g]) /\ home[busy[g]] = g
        BY <1>1, <3>1 DEF Control, QueueInv
    <3>3. busy[g] = t => s \notin {"done", "failed"}
        BY <1>5, <3>1
    <3> QED BY <1>3, <3>1, <3>2, <3>3 DEF Working, WorkSteps
  <2>3. \A i \in 1..Len(queue[g]) : st[queue[g][i]] = "queued" => queue[g][i] # t
    BY DEF Working, WorkSteps
  <2> QED BY <1>1, <1>3, <2>1, <2>2, <2>3 DEF Control, QueueInv
<1> QED BY <1>3, <1>6, <1>8, <1>9, <1>10 DEF Control

\* A request gets the registered writer, starts to write, or is turned away.
LEMMA RequestControl ==
    ASSUME NEW alone \in BOOLEAN, IInv(alone), NEW b \in Batches, GetWriter(b) \/ WriteDirect(b) \/ Reject(b)
    PROVE  /\ Control' /\ ControlOK'
           /\ st[b] \in {"new", "held"} /\ st'[b] \in {"held", "check", "failed"}
           /\ \A u \in Tasks \ {b} : st'[u] = st[u] /\ home'[u] = home[u]
<1>1. ControlOK /\ Control /\ b \in Tasks
    BY Types DEF IInv, Tasks
<1>2. UNCHANGED <<reg, queue, alive, busy, fl, made, mode>>
    BY DEF GetWriter, WriteDirect, Reject, ids
<1>3. /\ st' \in [Tasks -> States] /\ home' \in [Tasks -> 0..made]
      /\ st[b] \in {"new", "held"} /\ st'[b] \in {"held", "check", "failed"}
      /\ \A u \in Tasks \ {b} : st'[u] = st[u] /\ home'[u] = home[u]
      /\ st'[b] = "check" => ~mode /\ st[b] = "held"
      /\ \/ home'[b] = home[b] /\ st[b] = "held"
         \/ home'[b] = reg /\ reg \in alive
  <2>1. CASE GetWriter(b)
    BY <1>1, <2>1 DEF GetWriter, ControlOK, States
  <2>2. CASE WriteDirect(b)
    BY <1>1, <2>2 DEF WriteDirect, ControlOK, States
  <2>3. CASE Reject(b)
    BY <1>1, <2>3 DEF Reject, ControlOK, States
  <2> QED BY <2>1, <2>2, <2>3
<1>4. ControlOK'
    BY <1>1, <1>2, <1>3 DEF ControlOK, FlType
<1>5. reg \in alive => reg \in Writers /\ reg # None
    BY <1>1, NoneIsNone DEF Control, MapInv, Live
<1>6. \A g : Live(g)' <=> Live(g)
    BY <1>2 DEF Live
<1>7. MapInv' /\ FlushInv'
    BY <1>1, <1>2, <1>6 DEF Control, MapInv, FlushInv
<1>8. home'[b] # None /\ (~mode => home'[b] = reg)
    BY <1>1, <1>3, <1>5 DEF Control, WorkInv
<1>9. WorkInv'
  <2>1. \A u \in Tasks \ {b} : Working(u)' <=> Working(u)
    BY <1>3 DEF Working, WorkSteps
  <2>2. Working(b)' => ~ mode /\ Live(reg)
    <3>1. Working(b)' => ~ mode
        BY <1>3 DEF Working, WorkSteps
    <3>2. ~ mode => reg # None
        BY <1>1, <1>8 DEF Control, ControlOK, MapInv
    <3> QED BY <1>1, <3>1, <3>2 DEF Control, MapInv
  <2> QED BY <1>1, <1>2, <1>3, <1>6, <1>8, <2>1, <2>2 DEF Control, WorkInv
<1>10. QueueInv'
  <2>1. \A u \in Tasks : st[u] = "queued" => u # b
    BY <1>3
  <2>2. \A u \in Tasks : Working(u) => Working(u)' /\ u # b
    BY <1>3 DEF Working, WorkSteps
  <2>3. busy \in [Writers -> Tasks \cup {None}]
    BY <1>1 DEF ControlOK
  <2> QED BY <1>1, <1>2, <1>3, <2>1, <2>2, <2>3 DEF Control, QueueInv
<1> QED BY <1>3, <1>4, <1>7, <1>9, <1>10 DEF Control

\* A batch, or a Rotate signal, goes into the channel of a live loop.
LEMMA SendControl ==
    ASSUME NEW alone \in BOOLEAN, IInv(alone), NEW u \in Tasks,
           (u \in Batches /\ Enqueue(u)) \/ (u \in Ticks /\ CheckTtl(u))
    PROVE  /\ Control' /\ ControlOK'
           /\ st[u] \in {"new", "held"} /\ st'[u] = "queued"
           /\ \A v \in Tasks \ {u} : st'[v] = st[v] /\ home'[v] = home[v]
<1>1. ControlOK /\ Control
    BY Types DEF IInv
<1>2. UNCHANGED <<reg, alive, busy, fl, made, mode>>
    BY DEF Enqueue, CheckTtl, ids
<1>3. PICK g \in alive : /\ home'[u] = g /\ queue' = [queue EXCEPT ![g] = Append(@, u)]
                         /\ st' = [st EXCEPT ![u] = "queued"]
                         /\ home' \in [Tasks -> 0..made]
                         /\ st[u] \in {"new", "held"}
                         /\ \A v \in Tasks \ {u} : home'[v] = home[v]
                         /\ home[u] = g \/ g = reg
  <2>1. CASE Enqueue(u)
    BY <1>1, <2>1 DEF Enqueue, ControlOK
  <2>2. CASE CheckTtl(u)
    BY <1>1, <2>2 DEF CheckTtl, ControlOK
  <2> QED BY <2>1, <2>2
<1>4. /\ st' \in [Tasks -> States] /\ st'[u] = "queued"
      /\ \A v \in Tasks \ {u} : st'[v] = st[v]
    BY <1>1, <1>3 DEF ControlOK, States
<1>5. g \in Writers /\ g # None
    BY <1>1, NoneIsNone DEF Control, MapInv, Live
<1>6. /\ queue' \in [Writers -> Seq(Tasks \cup {Close})]
      /\ queue'[g] = Append(queue[g], u) /\ \A h \in Writers \ {g} : queue'[h] = queue[h]
      /\ queue[g] \in Seq(Tasks \cup {Close})
    BY <1>1, <1>3, <1>5 DEF ControlOK
<1>7. ControlOK'
    BY <1>1, <1>2, <1>3, <1>4, <1>6 DEF ControlOK, FlType
<1>8. \A h : Live(h)' <=> Live(h)
    BY <1>2 DEF Live
<1>9. MapInv' /\ FlushInv'
    BY <1>1, <1>2, <1>8 DEF Control, MapInv, FlushInv
<1>10. \A v \in Tasks : (Working(v)' <=> Working(v)) /\ (Working(v) => v # u)
    BY <1>3, <1>4 DEF Working, WorkSteps
<1>11. WorkInv'
    BY <1>1, <1>2, <1>3, <1>4, <1>5, <1>8, <1>10 DEF Control, WorkInv
<1>12. QueueInv'
  <2> SUFFICES ASSUME NEW h \in Writers
               PROVE  /\ h \notin alive => queue'[h] = <<>> /\ busy[h] = None
                      /\ busy[h] # None => Working(busy[h])' /\ home'[busy[h]] = h
                      /\ \A i \in 1..Len(queue'[h]) :
                            \/ queue'[h][i] = Close /\ fl.at = "sync" /\ fl.g = h
                            \/ /\ queue'[h][i] \in Tasks /\ st'[queue'[h][i]] = "queued"
                               /\ home'[queue'[h][i]] = h
                               /\ \A j \in 1..Len(queue'[h]) : queue'[h][j] = queue'[h][i] => j = i
    BY <1>2 DEF QueueInv, Working, WorkSteps
  <2>1. h \notin alive => queue'[h] = <<>> /\ busy[h] = None
    BY <1>1, <1>3, <1>6 DEF Control, QueueInv
  <2>2. busy[h] # None => Working(busy[h])' /\ home'[busy[h]] = h
    <3>1. busy[h] # None => busy[h] \in Tasks /\ Working(busy[h]) /\ home[busy[h]] = h
        BY <1>1 DEF Control, QueueInv, ControlOK
    <3> QED BY <1>2, <1>3, <1>10, <3>1
  <2>3. \A i \in 1..Len(queue[h]) :
            \/ queue[h][i] = Close /\ fl.at = "sync" /\ fl.g = h
            \/ /\ queue[h][i] \in Tasks /\ st'[queue[h][i]] = "queued" /\ home'[queue[h][i]] = h
               /\ queue[h][i] # u
               /\ \A j \in 1..Len(queue[h]) : queue[h][j] = queue[h][i] => j = i
    BY <1>1, <1>3, <1>4 DEF Control, QueueInv
  <2>4. CASE h # g
    BY <1>6, <2>1, <2>2, <2>3, <2>4
  <2>5. CASE h = g
    <3>1. /\ Len(queue'[g]) = Len(queue[g]) + 1 /\ queue'[g][Len(queue[g]) + 1] = u
          /\ \A i \in 1..Len(queue[g]) : queue'[g][i] = queue[g][i]
          /\ Len(queue[g]) \in Nat
        BY <1>6
    <3>2. \A i \in 1..Len(queue'[g]) : i \in 1..Len(queue[g]) \/ i = Len(queue[g]) + 1
        BY <3>1
    <3>3. \A i \in 1..Len(queue[g]) : queue[g][i] # u
        BY <2>3, <2>5, NoneIsNone
    <3>4. ASSUME NEW i \in 1..Len(queue'[g])
          PROVE  \/ queue'[g][i] = Close /\ fl.at = "sync" /\ fl.g = g
                 \/ /\ queue'[g][i] \in Tasks /\ st'[queue'[g][i]] = "queued"
                    /\ home'[queue'[g][i]] = g
                    /\ \A j \in 1..Len(queue'[g]) : queue'[g][j] = queue'[g][i] => j = i
      <4>1. CASE i \in 1..Len(queue[g])
        BY <2>3, <2>5, <3>1, <3>2, <3>3, <4>1
      <4>2. CASE i = Len(queue[g]) + 1
        BY <1>3, <1>4, <3>1, <3>2, <3>3, <4>2
      <4> QED BY <3>2, <4>1, <4>2
    <3> QED BY <2>1, <2>2, <2>5, <3>4
  <2> QED BY <2>4, <2>5
<1> QED BY <1>3, <1>4, <1>7, <1>9, <1>11, <1>12 DEF Control

\* The loop takes the first task of its channel.
LEMMA ReceiveControl ==
    ASSUME NEW alone \in BOOLEAN, IInv(alone), NEW g \in Writers, Receive(g)
    PROVE  /\ Control' /\ ControlOK'
           /\ \A v \in Tasks : \/ st'[v] = st[v]
                               \/ st[v] = "queued" /\ st'[v] = "check"
<1>1. ControlOK /\ Control
    BY Types DEF IInv
<1>2. /\ UNCHANGED <<reg, alive, home, fl, made, mode>> /\ g \in alive /\ busy[g] = None
      /\ queue[g] # <<>> /\ Head(queue[g]) # Close
      /\ busy' = [busy EXCEPT ![g] = Head(queue[g])]
      /\ st' = [st EXCEPT ![Head(queue[g])] = "check"]
      /\ queue' = [queue EXCEPT ![g] = Tail(queue[g])]
    BY DEF Receive, ids
<1>3. queue[g] \in Seq(Tasks \cup {Close})
    BY <1>1 DEF ControlOK
<1>4. /\ Head(queue[g]) = queue[g][1] /\ 1 \in 1..Len(queue[g])
      /\ Len(Tail(queue[g])) = Len(queue[g]) - 1 /\ Len(queue[g]) \in Nat
      /\ \A i \in 1..Len(Tail(queue[g])) : Tail(queue[g])[i] = queue[g][i + 1] /\ i + 1 \in 1..Len(queue[g])
      /\ Tail(queue[g]) \in Seq(Tasks \cup {Close})
    BY <1>2, <1>3
<1>a. PICK u \in Tasks : u = queue[g][1]
    BY <1>1, <1>2, <1>4 DEF Control, QueueInv
<1>5. /\ u = queue[g][1] /\ st[u] = "queued" /\ home[u] = g
      /\ \A j \in 1..Len(queue[g]) : queue[g][j] = u => j = 1
    BY <1>1, <1>2, <1>4, <1>a, NoneIsNone DEF Control, QueueInv
<1>6. busy' = [busy EXCEPT ![g] = u] /\ st' = [st EXCEPT ![u] = "check"]
    BY <1>2, <1>4, <1>5
<1>7. /\ st' \in [Tasks -> States] /\ st'[u] = "check" /\ \A v \in Tasks \ {u} : st'[v] = st[v]
      /\ busy' \in [Writers -> Tasks \cup {None}] /\ busy'[g] = u
      /\ \A h \in Writers \ {g} : busy'[h] = busy[h]
    BY <1>1, <1>5, <1>6 DEF ControlOK, States
<1>8. /\ queue' \in [Writers -> Seq(Tasks \cup {Close})]
      /\ queue'[g] = Tail(queue[g]) /\ \A h \in Writers \ {g} : queue'[h] = queue[h]
    BY <1>1, <1>2, <1>4 DEF ControlOK
<1>9. ControlOK'
    BY <1>1, <1>2, <1>7, <1>8 DEF ControlOK, FlType
<1>10. \A h : Live(h)' <=> Live(h)
    BY <1>2 DEF Live
<1>11. MapInv' /\ FlushInv'
    BY <1>1, <1>2, <1>10 DEF Control, MapInv, FlushInv
<1>12. (\A v \in Tasks \ {u} : Working(v)' <=> Working(v)) /\ Working(u)'
    BY <1>7 DEF Working, WorkSteps
<1>13. WorkInv'
  <2>1. Live(g)
    BY <1>1, <1>2 DEF Control, MapInv
  <2>2. \A v \in Tasks : Working(v) /\ mode => home[v] # g
    BY <1>1, <1>2, NoneIsNone DEF Control, WorkInv
  <2>3. \A v \in Tasks : Working(v) => home[v] \in Writers
    BY <1>1 DEF Control, WorkInv, Live
  <2>4. \A v \in Tasks : Working(v)' =>
            Live(home[v])' /\ (mode => busy'[home[v]] = v /\ home[v] \in alive)
    BY <1>1, <1>2, <1>5, <1>7, <1>10, <1>12, <2>1, <2>2, <2>3 DEF Control, WorkInv
  <2>5. \A v \in Tasks : /\ st'[v] = "new" => home[v] = None
                         /\ home[v] = None => st'[v] \in {"new", "done", "failed", "dropped"}
    BY <1>1, <1>2, <1>5, <1>7, NoneIsNone DEF Control, WorkInv
  <2> QED BY <1>1, <1>2, <2>4, <2>5 DEF Control, WorkInv
<1>14. QueueInv'
  <2> SUFFICES ASSUME NEW h \in Writers
               PROVE  /\ h \notin alive => queue'[h] = <<>> /\ busy'[h] = None
                      /\ busy'[h] # None => st'[busy'[h]] \in WorkSteps /\ home[busy'[h]] = h
                      /\ \A i \in 1..Len(queue'[h]) :
                            \/ queue'[h][i] = Close /\ fl.at = "sync" /\ fl.g = h
                            \/ /\ queue'[h][i] \in Tasks /\ st'[queue'[h][i]] = "queued"
                               /\ home[queue'[h][i]] = h
                               /\ \A j \in 1..Len(queue'[h]) : queue'[h][j] = queue'[h][i] => j = i
    BY <1>2 DEF QueueInv, Working, WorkSteps
  <2>1. CASE h # g
    <3>1. busy[h] # None => busy[h] # u
        BY <1>1, <1>5, <2>1 DEF Control, QueueInv
    <3>2. \A i \in 1..Len(queue[h]) : queue[h][i] \in Tasks /\ home[queue[h][i]] = h => queue[h][i] # u
        BY <1>5, <2>1
    <3>3. busy[h] # None => busy[h] \in Tasks /\ st'[busy[h]] \in WorkSteps /\ home[busy[h]] = h
        BY <1>1, <1>7, <3>1 DEF Control, QueueInv, ControlOK, Working
    <3>4. h \notin alive => queue'[h] = <<>> /\ busy'[h] = None
        BY <1>1, <1>7, <1>8, <2>1 DEF Control, QueueInv
    <3>5. busy'[h] = busy[h] /\ queue'[h] = queue[h]
        BY <1>7, <1>8, <2>1
    <3>6. \A i \in 1..Len(queue[h]) :
            \/ queue[h][i] = Close /\ fl.at = "sync" /\ fl.g = h
            \/ /\ queue[h][i] \in Tasks /\ st[queue[h][i]] = "queued" /\ home[queue[h][i]] = h
               /\ \A j \in 1..Len(queue[h]) : queue[h][j] = queue[h][i] => j = i
        BY <1>1 DEF Control, QueueInv
    <3> QED BY <1>7, <3>2, <3>3, <3>4, <3>5, <3>6
  <2>2. CASE h = g
    <3>1. \A i \in 1..Len(queue[g]) :
            \/ queue[g][i] = Close /\ fl.at = "sync" /\ fl.g = g
            \/ /\ queue[g][i] \in Tasks /\ st[queue[g][i]] = "queued" /\ home[queue[g][i]] = g
               /\ \A j \in 1..Len(queue[g]) : queue[g][j] = queue[g][i] => j = i
        BY <1>1 DEF Control, QueueInv
    <3>2. ASSUME NEW i \in 1..Len(queue'[g])
          PROVE  \/ queue'[g][i] = Close /\ fl.at = "sync" /\ fl.g = g
                 \/ /\ queue'[g][i] \in Tasks /\ st'[queue'[g][i]] = "queued"
                    /\ home[queue'[g][i]] = g
                    /\ \A j \in 1..Len(queue'[g]) : queue'[g][j] = queue'[g][i] => j = i
      <4>1. /\ queue'[g][i] = queue[g][i + 1] /\ i + 1 \in 1..Len(queue[g]) /\ i + 1 # 1
            /\ \A j \in 1..Len(queue'[g]) : queue'[g][j] = queue[g][j + 1] /\ j + 1 \in 1..Len(queue[g])
        BY <1>4, <1>8
      <4>2. queue[g][i + 1] # u
        BY <1>5, <4>1
      <4>3. CASE queue[g][i + 1] = Close
        BY <3>1, <4>1, <4>3, NoneIsNone
      <4>4. CASE queue[g][i + 1] # Close
        <5>1. /\ queue[g][i + 1] \in Tasks /\ st[queue[g][i + 1]] = "queued"
              /\ home[queue[g][i + 1]] = g
              /\ \A j \in 1..Len(queue[g]) : queue[g][j] = queue[g][i + 1] => j = i + 1
            BY <3>1, <4>1, <4>4
        <5>2. ASSUME NEW j \in 1..Len(queue'[g]), queue'[g][j] = queue'[g][i] PROVE j = i
          <6>1. j + 1 = i + 1
            BY <4>1, <5>1, <5>2
          <6>2. i \in Int /\ j \in Int
            OBVIOUS
          <6> QED BY <6>1, <6>2
        <5> QED BY <1>7, <4>1, <4>2, <5>1, <5>2
      <4> QED BY <4>3, <4>4
    <3>3. st'[busy'[g]] \in WorkSteps /\ home[busy'[g]] = g
        BY <1>5, <1>7 DEF WorkSteps
    <3>4. g \in alive
        BY <1>2
    <3> QED BY <2>2, <3>2, <3>3, <3>4
  <2> QED BY <2>1, <2>2
<1>15. \A v \in Tasks : st'[v] = st[v] \/ (st[v] = "queued" /\ st'[v] = "check")
    BY <1>5, <1>7
<1> QED BY <1>9, <1>11, <1>13, <1>14, <1>15 DEF Control

\* The loop takes the Close of flush: what is behind it in the channel is dropped.
LEMMA ReceiveCloseControl ==
    ASSUME NEW alone \in BOOLEAN, IInv(alone), NEW g \in Writers, ReceiveClose(g)
    PROVE  /\ Control' /\ ControlOK'
           /\ \A v \in Tasks : \/ st'[v] = st[v]
                               \/ st[v] = "queued" /\ st'[v] = "dropped"
<1>1. ControlOK /\ Control
    BY Types DEF IInv
<1>2. /\ UNCHANGED <<reg, busy, home, fl, made, mode>> /\ g \in alive /\ busy[g] = None
      /\ queue[g] # <<>> /\ Head(queue[g]) = Close
      /\ alive' = alive \ {g}
      /\ st' = [t \in Tasks |-> IF \E i \in 2..Len(queue[g]) : queue[g][i] = t
                                THEN "dropped" ELSE st[t]]
      /\ queue' = [queue EXCEPT ![g] = <<>>]
    BY DEF ReceiveClose, ids
<1>3. queue[g] \in Seq(Tasks \cup {Close})
    BY <1>1 DEF ControlOK
<1>4. queue[g][1] = Close /\ 1 \in 1..Len(queue[g]) /\ \A i \in 2..Len(queue[g]) : i \in 1..Len(queue[g])
    BY <1>2, <1>3
<1>5. fl.at = "sync" /\ fl.g = g /\ mode /\ reg = None
  <2>1. queue[g][1] \notin Tasks
    BY <1>4, NoneIsNone
  <2>2. fl.at = "sync" /\ fl.g = g
    BY <1>1, <1>4, <2>1 DEF Control, QueueInv
  <2> QED BY <1>1, <2>2 DEF Control, FlushInv
<1>6. \A v \in Tasks : st'[v] = st[v] \/ (st[v] = "queued" /\ home[v] = g /\ st'[v] = "dropped")
  <2>1. \A i \in 1..Len(queue[g]) : queue[g][i] \in Tasks =>
            st[queue[g][i]] = "queued" /\ home[queue[g][i]] = g
    BY <1>1, NoneIsNone DEF Control, QueueInv
  <2> QED BY <1>2, <1>4, <2>1
<1>7. st' \in [Tasks -> States]
    BY <1>1, <1>2 DEF ControlOK, States
<1>8. /\ queue' \in [Writers -> Seq(Tasks \cup {Close})]
      /\ queue'[g] = <<>> /\ \A h \in Writers \ {g} : queue'[h] = queue[h]
    BY <1>1, <1>2 DEF ControlOK
<1>9. ControlOK'
    BY <1>1, <1>2, <1>7, <1>8 DEF ControlOK, FlType
<1>10. /\ \A h : Live(h)' <=> Live(h)
       /\ \A v \in Tasks : Working(v)' <=> Working(v)
    BY <1>2, <1>6 DEF Live, Working, WorkSteps
<1>11. MapInv' /\ FlushInv'
    BY <1>1, <1>2, <1>5, <1>10 DEF Control, MapInv, FlushInv
<1>12. WorkInv'
  <2>1. \A v \in Tasks : Working(v) => home[v] # g
    BY <1>1, <1>2, <1>5, NoneIsNone DEF Control, WorkInv
  <2> QED BY <1>1, <1>2, <1>6, <1>10, <2>1 DEF Control, WorkInv
<1>13. QueueInv'
  <2> SUFFICES ASSUME NEW h \in Writers
               PROVE  /\ h \notin alive' => queue'[h] = <<>> /\ busy[h] = None
                      /\ busy[h] # None => st'[busy[h]] \in WorkSteps /\ home[busy[h]] = h
                      /\ \A i \in 1..Len(queue'[h]) :
                            \/ queue'[h][i] = Close /\ fl.at = "sync" /\ fl.g = h
                            \/ /\ queue'[h][i] \in Tasks /\ st'[queue'[h][i]] = "queued"
                               /\ home[queue'[h][i]] = h
                               /\ \A j \in 1..Len(queue'[h]) : queue'[h][j] = queue'[h][i] => j = i
    BY <1>2 DEF QueueInv, Working
  <2>1. busy[h] # None => st'[busy[h]] \in WorkSteps /\ home[busy[h]] = h
    <3>1. busy[h] # None => busy[h] \in Tasks /\ Working(busy[h]) /\ home[busy[h]] = h
        BY <1>1 DEF Control, QueueInv, ControlOK
    <3> QED BY <1>6, <3>1 DEF Working, WorkSteps
  <2>2. h \notin alive' => queue'[h] = <<>> /\ busy[h] = None
    BY <1>1, <1>2, <1>8 DEF Control, QueueInv
  <2>3. CASE h = g
    BY <1>8, <2>1, <2>2, <2>3
  <2>4. CASE h # g
    <3>1. \A i \in 1..Len(queue[h]) :
            \/ queue[h][i] = Close /\ fl.at = "sync" /\ fl.g = h
            \/ /\ queue[h][i] \in Tasks /\ st'[queue[h][i]] = "queued" /\ home[queue[h][i]] = h
               /\ \A j \in 1..Len(queue[h]) : queue[h][j] = queue[h][i] => j = i
        BY <1>1, <1>6, <2>4 DEF Control, QueueInv
    <3> QED BY <1>8, <2>1, <2>2, <2>4, <3>1
  <2> QED BY <2>3, <2>4
<1>14. \A v \in Tasks : st'[v] = st[v] \/ (st[v] = "queued" /\ st'[v] = "dropped")
    BY <1>6
<1> QED BY <1>9, <1>11, <1>12, <1>13, <1>14 DEF Control

\* A writer is created: then there is no other, and no task is at work.
LEMMA NewWriterControl ==
    ASSUME NEW alone \in BOOLEAN, IInv(alone), NEW b \in Batches, NewWriter(b)
    PROVE  /\ Control' /\ ControlOK' /\ fl = NoFlush /\ reg = None
           /\ st[b] = "new" /\ st'[b] = "held" /\ home'[b] = made + 1
           /\ \A v \in Tasks \ {b} : st'[v] = st[v] /\ home'[v] = home[v]
           /\ \A v \in Tasks : ~ Working(v) /\ ~ Working(v)'
           /\ \A h : Live(h)' <=> h = made + 1
           /\ \A h : ~ Live(h)
<1>1. ControlOK /\ Control /\ b \in Tasks /\ made + 1 \in Writers
    BY Types, NoneIsNone DEF IInv, Tasks, NewWriter, ControlOK, Writers
<1>2. /\ UNCHANGED <<busy, queue, fl, mode>> /\ fl = NoFlush /\ reg \notin alive
      /\ made < MaxWriter /\ made' = made + 1 /\ reg' = made + 1 /\ st[b] = "new"
      /\ alive' = alive \cup {made + 1}
      /\ home' = [home EXCEPT ![b] = made + 1]
      /\ st' = [st EXCEPT ![b] = "held"]
    BY DEF NewWriter
<1>3. fl.at = "off" /\ reg = None
    BY <1>1, <1>2 DEF NoFlush, Control, MapInv
<1>4. \A h : ~ Live(h)
    BY <1>3, NoneIsNone DEF Live
<1>5. alive = {}
    BY <1>1, <1>4 DEF Control, MapInv
<1>6. \A h : Live(h)' <=> h = made + 1
    BY <1>1, <1>2, <1>3 DEF Live
<1>7. /\ st' \in [Tasks -> States] /\ st'[b] = "held" /\ \A v \in Tasks \ {b} : st'[v] = st[v]
      /\ home'[b] = made + 1 /\ \A v \in Tasks \ {b} : home'[v] = home[v]
      /\ home' \in [Tasks -> 0..(made + 1)]
  <2>1. made \in Nat
    BY <1>1 DEF ControlOK
  <2> QED BY <1>1, <1>2, <2>1 DEF ControlOK, States
<1>8. \A v \in Tasks : ~ Working(v) /\ ~ Working(v)'
  <2>1. \A v \in Tasks : ~ Working(v)
    BY <1>1, <1>4 DEF Control, WorkInv
  <2> QED BY <1>7, <2>1 DEF Working, WorkSteps
<1>9. ControlOK'
  <2>1. made' \in 0..MaxWriter /\ reg' \in 0..made' /\ alive' \subseteq 1..made'
    BY <1>1, <1>2, <1>5, NoneIsNone DEF ControlOK
  <2>2. fl' \in FlType'
    BY <1>1, <1>2, <2>1 DEF FlType, NoFlush, None
  <2> QED BY <1>1, <1>2, <1>7, <2>1, <2>2 DEF ControlOK
<1>10. MapInv' /\ FlushInv'
    BY <1>1, <1>2, <1>3, <1>5, <1>6, NoneIsNone DEF Control, MapInv, FlushInv
<1>11. WorkInv'
  <2>1. ~ mode => \A v \in Tasks \ {b} : home[v] = None
    BY <1>1, <1>3 DEF Control, WorkInv
  <2> QED BY <1>1, <1>2, <1>7, <1>8, <2>1, NoneIsNone DEF Control, WorkInv
<1>12. QueueInv'
  <2>1. \A h \in Writers : queue[h] = <<>> /\ busy[h] = None
    BY <1>1, <1>5 DEF Control, QueueInv
  <2> QED BY <1>2, <2>1 DEF QueueInv
<1> QED BY <1>2, <1>3, <1>4, <1>6, <1>7, <1>8, <1>9, <1>10, <1>11, <1>12 DEF Control

\* flush_all takes the writer out of the map.
LEMMA FlushStartControl ==
    ASSUME NEW alone \in BOOLEAN, IInv(alone), NoDirectFlush, FlushStart
    PROVE  /\ Control' /\ ControlOK' /\ fl.at = "off" /\ reg \in Writers
           /\ fl'.at = "close" /\ fl'.g = reg /\ fl'.wal = None /\ fl'.mem = None
           /\ \A h : Live(h)' <=> Live(h)
<1>1. ControlOK /\ Control
    BY Types DEF IInv
<1>2. /\ UNCHANGED <<busy, queue, mode, made, alive, st, home>> /\ fl = NoFlush /\ reg # None
      /\ reg' = None /\ fl' = [NoFlush EXCEPT !.at = "close", !.g = reg]
    BY DEF FlushStart, ids
<1>3. mode
    BY <1>1, WriterAssumption DEF FlushStart, NoDirectFlush, ControlOK
<1>4. reg \in Writers /\ reg \in alive
    BY <1>1, <1>2 DEF Control, MapInv, Live
<1>5. /\ fl.at = "off"
      /\ fl'.at = "close" /\ fl'.g = reg /\ fl'.wal = None /\ fl'.mem = None
      /\ fl' \in FlType'
    BY <1>1, <1>2 DEF NoFlush, FlType, ControlOK
<1>6. \A h : Live(h)' <=> Live(h)
    BY <1>2, <1>4, <1>5, NoneIsNone DEF Live
<1>7. ControlOK'
    BY <1>1, <1>2, <1>5 DEF ControlOK, None
<1>8. MapInv' /\ FlushInv'
    BY <1>1, <1>2, <1>3, <1>5, <1>6 DEF Control, MapInv, FlushInv
<1>9. WorkInv'
    BY <1>1, <1>2, <1>3, <1>6 DEF Control, WorkInv, Working
<1>10. QueueInv'
  <2>1. \A h \in Writers : \A i \in 1..Len(queue[h]) : queue[h][i] # Close
    BY <1>1, <1>5, NoneIsNone DEF Control, QueueInv
  <2> QED BY <1>1, <1>2, <2>1 DEF Control, QueueInv, Working
<1> QED BY <1>4, <1>5, <1>6, <1>7, <1>8, <1>9, <1>10 DEF Control

\* Flush sends its Close, if anybody listens.
LEMMA FlushCloseControl ==
    ASSUME NEW alone \in BOOLEAN, IInv(alone), FlushClose
    PROVE  /\ Control' /\ ControlOK' /\ fl.at = "close"
           /\ fl'.at = "sync" /\ fl'.g = fl.g /\ fl'.wal = fl.wal /\ fl'.mem = fl.mem
           /\ \A h : Live(h)' <=> Live(h)
<1>1. ControlOK /\ Control
    BY Types DEF IInv
<1>2. /\ UNCHANGED <<busy, mode, made, reg, alive, st, home>> /\ fl.at = "close"
      /\ fl' = [fl EXCEPT !.at = "sync"]
      /\ \/ fl.g \in alive /\ queue' = [queue EXCEPT ![fl.g] = Append(@, Close)]
         \/ queue' = queue
    BY DEF FlushClose, ids
<1>3. /\ fl'.at = "sync" /\ fl'.g = fl.g /\ fl'.wal = fl.wal /\ fl'.mem = fl.mem
      /\ fl' \in FlType'
    BY <1>1, <1>2 DEF FlType, ControlOK
<1>4. \A h : Live(h)' <=> Live(h)
    BY <1>2, <1>3 DEF Live
<1>5. PICK g \in Nat : g = fl.g
    BY <1>1 DEF ControlOK, FlType
<1>6. /\ queue' \in [Writers -> Seq(Tasks \cup {Close})]
      /\ \A h \in Writers : queue[h] \in Seq(Tasks \cup {Close})
      /\ \A h \in Writers : \/ queue'[h] = queue[h]
                            \/ h = g /\ g \in alive /\ queue'[h] = Append(queue[h], Close)
  <2>1. queue \in [Writers -> Seq(Tasks \cup {Close})]
    BY <1>1 DEF ControlOK
  <2>2. CASE queue' = queue
    BY <2>1, <2>2
  <2>3. CASE g \in alive /\ queue' = [queue EXCEPT ![g] = Append(@, Close)]
    <3>1. \A h \in Writers : Append(queue[h], Close) \in Seq(Tasks \cup {Close})
        BY <2>1
    <3> QED BY <2>1, <2>3, <3>1
  <2> QED BY <1>2, <1>5, <2>2, <2>3
<1>7. ControlOK'
    BY <1>1, <1>2, <1>3, <1>6 DEF ControlOK
<1>8. MapInv' /\ FlushInv'
    BY <1>1, <1>2, <1>3, <1>4 DEF Control, MapInv, FlushInv
<1>9. WorkInv'
    BY <1>1, <1>2, <1>4 DEF Control, WorkInv, Working
<1>10. QueueInv'
  <2> SUFFICES ASSUME NEW h \in Writers
               PROVE  /\ h \notin alive => queue'[h] = <<>> /\ busy[h] = None
                      /\ busy[h] # None => Working(busy[h]) /\ home[busy[h]] = h
                      /\ \A i \in 1..Len(queue'[h]) :
                            \/ queue'[h][i] = Close /\ g = h
                            \/ /\ queue'[h][i] \in Tasks /\ st[queue'[h][i]] = "queued"
                               /\ home[queue'[h][i]] = h
                               /\ \A j \in 1..Len(queue'[h]) : queue'[h][j] = queue'[h][i] => j = i
    BY <1>2, <1>3, <1>5 DEF QueueInv, Working
  <2>1. \A i \in 1..Len(queue[h]) :
            /\ queue[h][i] \in Tasks /\ st[queue[h][i]] = "queued" /\ home[queue[h][i]] = h
            /\ \A j \in 1..Len(queue[h]) : queue[h][j] = queue[h][i] => j = i
    BY <1>1, <1>2 DEF Control, QueueInv
  <2>2. /\ h \notin alive => queue[h] = <<>> /\ busy[h] = None
        /\ busy[h] # None => Working(busy[h]) /\ home[busy[h]] = h
    BY <1>1 DEF Control, QueueInv
  <2>3. CASE queue'[h] = queue[h]
    BY <2>1, <2>2, <2>3
  <2>4. CASE h = g /\ g \in alive /\ queue'[h] = Append(queue[h], Close)
    <3>1. /\ Len(queue'[h]) = Len(queue[h]) + 1 /\ queue'[h][Len(queue[h]) + 1] = Close
          /\ \A i \in 1..Len(queue[h]) : queue'[h][i] = queue[h][i]
          /\ Len(queue[h]) \in Nat
        BY <1>6, <2>4
    <3>2. \A i \in 1..Len(queue'[h]) : i \in 1..Len(queue[h]) \/ queue'[h][i] = Close
        BY <3>1
    <3>3. ASSUME NEW i \in 1..Len(queue[h])
          PROVE  /\ queue'[h][i] \in Tasks /\ st[queue'[h][i]] = "queued"
                 /\ home[queue'[h][i]] = h
                 /\ \A j \in 1..Len(queue'[h]) : queue'[h][j] = queue'[h][i] => j = i
        BY <2>1, <3>1, <3>2, NoneIsNone
    <3> QED BY <2>2, <2>4, <3>2, <3>3
  <2> QED BY <1>6, <2>3, <2>4
<1> QED BY <1>2, <1>3, <1>4, <1>7, <1>8, <1>9, <1>10 DEF Control

\* After its wait flush is alone with the writer.
LEMMA FlushRestControl ==
    ASSUME NEW alone \in BOOLEAN, IInv(alone), FlushSync \/ FlushSyncError \/ FlushSwap \/ FlushInsert, DataOK
    PROVE  /\ Control' /\ ControlOK' /\ mode /\ fl.g \in Writers /\ cur[fl.g] \in WalIds \cup {None}
           /\ reg = None /\ alive = {} /\ \A v \in Tasks : ~ Working(v)
           /\ \A h : Live(h) <=> h = fl.g
           /\ fl'.at # "off" => fl'.g = fl.g /\ \A h : Live(h)' <=> h = fl.g
           /\ fl'.at = "off" => \A h : ~ Live(h)'
<1>1. ControlOK /\ Control
    BY Types DEF IInv
<1>2. /\ UNCHANGED <<busy, queue, mode, made, reg, alive, st, home>>
      /\ fl.at \in {"sync", "swap", "insert"} /\ (fl.at = "sync" => fl.g \notin alive)
    BY DEF FlushSync, FlushSyncError, FlushSwap, FlushInsert, ids
<1>3. mode /\ reg = None /\ fl.g # None /\ fl.g \in Writers
  <2>1. mode /\ reg = None /\ fl.g # None
    BY <1>1, <1>2 DEF Control, FlushInv
  <2>2. fl.g \in 0..made /\ made \in 0..MaxWriter /\ MaxWriter \in Nat
    BY <1>1, NoneIsNone DEF ControlOK, FlType
  <2> QED BY <2>1, <2>2 DEF Writers, None
<1>4. alive = {}
  <2>1. fl.at = "sync" => \A g \in alive : g = fl.g
    BY <1>1, <1>3, NoneIsNone DEF Control, MapInv, Live
  <2> QED BY <1>1, <1>2, <2>1 DEF Control, FlushInv
<1>5. \A v \in Tasks : ~ Working(v)
    BY <1>1, <1>3, <1>4 DEF Control, WorkInv
<1>6. cur[fl.g] \in WalIds \cup {None} /\ mem[fl.g] \in MemIds \cup {None}
    BY <1>3 DEF DataOK
<1>7. fl' \in FlType'
  <2>1. CASE FlushSync
    BY <1>1, <1>2, <1>6, <2>1 DEF FlushSync, ControlOK, FlType
  <2>2. CASE FlushSwap
    BY <1>1, <1>2, <1>6, <2>2 DEF FlushSwap, ControlOK, FlType
  <2>3. CASE FlushInsert
    BY <1>1, <1>2, <2>3 DEF FlushInsert, ControlOK, FlType, NoFlush, None
  <2>4. CASE FlushSyncError
    BY <1>1, <1>2, <2>4 DEF FlushSyncError, ControlOK, FlType, NoFlush, None
  <2> QED BY <2>1, <2>2, <2>3, <2>4
<1>8. /\ fl'.at \in {"off", "swap", "insert"}
      /\ fl'.at = "off" => fl' = NoFlush
      /\ fl'.at # "off" => fl'.g = fl.g
  <2>1. CASE FlushSync
    BY <1>1, <2>1 DEF FlushSync, ControlOK, FlType
  <2>2. CASE FlushSwap
    BY <1>1, <2>2 DEF FlushSwap, ControlOK, FlType
  <2>3. CASE FlushInsert
    BY <2>3 DEF FlushInsert, NoFlush
  <2>4. CASE FlushSyncError
    BY <2>4 DEF FlushSyncError, NoFlush
  <2> QED BY <2>1, <2>2, <2>3, <2>4
<1>9. /\ \A h : Live(h) <=> h = fl.g
      /\ fl'.at # "off" => \A h : Live(h)' <=> h = fl.g
      /\ fl'.at = "off" => \A h : ~ Live(h)'
    BY <1>2, <1>3, <1>8, NoneIsNone DEF Live
<1>10. ControlOK'
    BY <1>1, <1>2, <1>7 DEF ControlOK
<1>11. MapInv' /\ FlushInv'
    BY <1>1, <1>2, <1>3, <1>4, <1>8 DEF Control, MapInv, FlushInv
<1>12. WorkInv'
    BY <1>1, <1>2, <1>3, <1>5 DEF Control, WorkInv, Working
<1>13. QueueInv'
  <2>1. \A h \in Writers : queue[h] = <<>> /\ busy[h] = None
    BY <1>1, <1>4 DEF Control, QueueInv
  <2> QED BY <1>2, <2>1 DEF QueueInv
<1> QED BY <1>3, <1>4, <1>5, <1>6, <1>8, <1>9, <1>10, <1>11, <1>12, <1>13 DEF Control

----------------------------------------------------------------------------
(* Files and memtables                                                      *)

\* The invariant is its control and its data.
LEMMA Parts ==
    ASSUME NEW alone \in BOOLEAN PROVE IInv(alone) <=> ControlOK /\ Control /\ Data(alone)
    BY Types DEF IInv, Data

\* And so after a step.
LEMMA PartsNext ==
    ASSUME NEW alone \in BOOLEAN PROVE ControlOK' /\ Control' /\ Data(alone)' => IInv(alone)'
    BY DEF IInv, Data, TypeOK, DataOK, ControlOK, FlType

\* The live writer, there is one at most, has a WAL file that is not sealed and
\* a memtable.
LEMMA LiveWriter ==
    ASSUME NEW alone \in BOOLEAN, IInv(alone), NEW g, Live(g)
    PROVE  /\ g \in Writers /\ g <= made /\ g # None
           /\ cur[g] \in WalIds /\ cur[g] < nextWal /\ imm[cur[g]] = None
           /\ mem[g] \in MemIds /\ mem[g] < nextMem
           /\ \A h : Live(h) => h = g
<1>1. ControlOK /\ DataOK /\ WalInv /\ MemInv /\ Control
    BY Types DEF IInv
<1>2. g \in Writers /\ g \in 0..made /\ made \in Int /\ fl.g \in 0..made
    BY <1>1, NoneIsNone DEF ControlOK, FlType, Live
<1>3. g <= made /\ g # None /\ ~ (g > made)
    BY <1>2, NoneIsNone
<1>4. cur[g] # None /\ mem[g] # None /\ cur[g] < nextWal /\ imm[cur[g]] = None
    BY <1>1, <1>2, <1>3 DEF WalInv, CurInv, OpenInv
<1>5. mem[g] < nextMem
    BY <1>1, <1>2, <1>3 DEF MemInv, MemOfInv
<1>6. \A h : Live(h) => h = g
    BY <1>1, NoneIsNone DEF Control, FlushInv, Live
<1> QED BY <1>1, <1>2, <1>3, <1>4, <1>5, <1>6 DEF DataOK

\* A task at work has a live writer; with the queue it is the only one.
LEMMA WorkingTask ==
    ASSUME NEW alone \in BOOLEAN, IInv(alone), NEW t \in Tasks, Working(t)
    PROVE  /\ Live(home[t]) /\ fl.at \notin {"swap", "insert"}
           /\ mode => \A u \in Tasks : Working(u) => u = t
           /\ fl.wal = None /\ fl.mem = None
<1>1. Control /\ WalInv /\ MemInv
    BY DEF IInv
<1>2. Live(home[t]) /\ (mode => busy[home[t]] = t /\ home[t] \in alive)
    BY <1>1 DEF Control, WorkInv
<1>3. fl.at \notin {"swap", "insert"}
    BY <1>1, <1>2 DEF Control, FlushInv
<1>4. ASSUME mode, NEW u \in Tasks, Working(u) PROVE u = t
  <2>1. Live(home[u]) /\ busy[home[u]] = u
    BY <1>1, <1>4 DEF Control, WorkInv
  <2>2. home[u] = home[t]
    BY <1>2, <2>1, LiveWriter
  <2> QED BY <1>2, <1>4, <2>1, <2>2
<1>5. fl.wal = None /\ fl.mem = None
    BY <1>1, <1>3 DEF WalInv, FlWalInv, MemInv, FlMemInv
<1> QED BY <1>2, <1>3, <1>4, <1>5

\* A step of the control that no file and no memtable depends on.
LEMMA Frame ==
    ASSUME NEW alone \in BOOLEAN, IInv(alone),
           UNCHANGED <<wals, entries, rows, imm, nextWal, nextMem, made, buf, cur, mem,
                       heldWal, heldMem, stored, mode>>,
           \A h : Live(h)' <=> Live(h),
           fl'.wal = fl.wal, fl'.mem = fl.mem,
           fl' = fl \/ (fl.at \notin {"swap", "insert"} /\ fl'.at \notin {"swap", "insert"}),
           \A u \in Tasks :
              \/ st'[u] = st[u] /\ home'[u] = home[u]
              \/ /\ st[u] \notin {"swap", "insert", "mem", "sync", "done", "failed"}
                 /\ st'[u] \notin {"swap", "insert", "mem"}
                 /\ u \in Batches => st'[u] \notin {"sync", "done"}
    PROVE  Data(alone)'
<1>1. DataOK /\ WalInv /\ MemInv /\ KeepInv(alone) /\ PairInv(alone)
    BY Types DEF IInv
<1>2. DataOK'
    BY <1>1 DEF DataOK
<1>3. WalInv'
  <2>1. CurInv' /\ HeldWalInv' /\ OpenInv' /\ FreshWalInv'
    BY <1>1 DEF WalInv, CurInv, HeldWalInv, OpenInv, FreshWalInv
  <2>2. FlWalInv'
    BY <1>1 DEF WalInv, FlWalInv
  <2> QED BY <2>1, <2>2 DEF WalInv
<1>4. MemInv'
  <2>1. MemOfInv' /\ HeldMemInv' /\ ImmMemInv' /\ FreshMemInv'
    BY <1>1 DEF MemInv, MemOfInv, HeldMemInv, ImmMemInv, FreshMemInv
  <2>2. FlMemInv'
    BY <1>1 DEF MemInv, FlMemInv
  <2> QED BY <2>1, <2>2 DEF MemInv
<1>5. KeepInv(alone)'
  <2>1. \A m : Kept(m)' <=> Kept(m)
    BY DEF Kept
  <2>2. \A b \in Batches : b \in Tasks /\ (st'[b] \in {"sync", "done"} => st[b] \in {"sync", "done"})
    BY DEF Tasks
  <2> QED BY <1>1, <2>1, <2>2 DEF KeepInv
<1>6. PairInv(alone)'
  <2> SUFFICES ASSUME mode PROVE SealedInv(alone)' /\ TurnInv' /\ EvenInv' /\ FlushedInv'
    BY DEF PairInv
  <2>1. SealedInv(alone) /\ TurnInv /\ EvenInv /\ FlushedInv
    BY <1>1 DEF PairInv
  <2>2. \A b \in Failed : b \in Failed'
    BY DEF Failed, Tasks
  <2>3. \A w, m : Whole(w, m) => Whole(w, m)'
    BY <2>2 DEF Whole
  <2>4. \A w : InWal(w)' = InWal(w)
    BY DEF InWal
  <2>5. \A u \in Tasks : /\ st'[u] \in {"swap", "insert", "mem"} => st'[u] = st[u] /\ home'[u] = home[u]
                         /\ st[u] \in {"swap", "insert", "mem"} => st'[u] = st[u] /\ home'[u] = home[u]
    OBVIOUS
  <2>6. SealedInv(alone)'
    BY <2>1, <2>3 DEF SealedInv
  <2>7. TurnInv'
    BY <2>1, <2>3, <2>4, <2>5 DEF TurnInv
  <2>8. EvenInv'
    <3>1. \A g : Turning(g)' <=> Turning(g)
        BY <2>5 DEF Turning
    <3>2. fl'.at # "insert" => fl.at # "insert"
        OBVIOUS
    <3>3. ASSUME NEW g \in Writers, Even(g) PROVE Even(g)'
        <4>1. \A b \in InWal(cur[g]) : b \in Batches
            BY <1>1, <3>3 DEF DataOK, InWal, Even
        <4> QED BY <2>2, <2>4, <2>5, <3>3, <4>1 DEF Even, Tasks
    <3>4. ASSUME NEW b \in Batches, st'[b] = "mem" PROVE b \in InWal(cur[home[b]])'
        <4>1. st[b] = "mem" /\ home'[b] = home[b]
            BY <2>5, <3>4 DEF Tasks
        <4>2. b \in InWal(cur[home[b]])
            BY <2>1, <4>1 DEF EvenInv
        <4> QED BY <4>1, <4>2 DEF InWal
    <3> QED BY <2>1, <3>1, <3>2, <3>3, <3>4 DEF EvenInv
  <2>9. FlushedInv'
    BY <2>1, <2>3 DEF FlushedInv
  <2> QED BY <2>6, <2>7, <2>8, <2>9
<1> QED BY <1>2, <1>3, <1>4, <1>5, <1>6 DEF Data

\* A rotation replaces the WAL file of the writer by a new one.
LEMMA RotateWalData ==
    ASSUME NEW alone \in BOOLEAN, IInv(alone), NEW t \in Tasks, RotateWal(t)
    PROVE  IInv(alone)'
<1>1. /\ ControlOK /\ Control /\ DataOK /\ WalInv /\ MemInv /\ KeepInv(alone) /\ PairInv(alone)
      /\ st[t] = "check" /\ Working(t)
    BY Types DEF IInv, RotateWal, Working, WorkSteps
<1>2. PICK g \in Writers, old \in WalIds, n \in WalIds : g = home[t] /\ old = cur[g] /\ n = nextWal
  <2>1. nextWal \in WalIds
    BY <1>1, NoneIsNone DEF RotateWal, DataOK, WalIds
  <2> QED BY <1>1, <2>1, WorkingTask, LiveWriter
<1>3. /\ Live(g) /\ imm[old] = None /\ old < n /\ g <= made /\ fl.wal = None
      /\ fl.at \notin {"swap", "insert"}
      /\ \A h : Live(h) => h = g
      /\ mode => \A u \in Tasks : Working(u) => u = t
    BY <1>1, <1>2, WorkingTask, LiveWriter
<1>4. /\ entries' = [entries EXCEPT ![old] = entries[old] \cup buf[old]]
      /\ buf' = [buf EXCEPT ![old] = {}]
      /\ heldWal' = [heldWal EXCEPT ![t] = old]
      /\ cur' = [cur EXCEPT ![g] = n]
      /\ wals' = wals \cup {n} /\ nextWal' = n + 1 /\ Goto(t, "swap")
      /\ UNCHANGED <<rows, imm, stored, mode, nextMem, made, reg, mem, queue, alive, home,
                     heldMem, fl>>
    BY <1>2 DEF RotateWal
<1>5. /\ Control' /\ ControlOK'
      /\ st'[t] = "swap" /\ \A u \in Tasks \ {t} : st'[u] = st[u]
    BY <1>1, <1>4, GotoNext
<1>6. /\ entries' \in [WalIds -> SUBSET Batches] /\ buf' \in [WalIds -> SUBSET Batches]
      /\ entries'[old] = InWal(old) /\ buf'[old] = {}
      /\ \A w \in WalIds \ {old} : entries'[w] = entries[w] /\ buf'[w] = buf[w]
    BY <1>1, <1>4 DEF DataOK, InWal
<1>7. /\ heldWal' \in [Tasks -> WalIds \cup {None}] /\ cur' \in [Writers -> WalIds \cup {None}]
      /\ heldWal'[t] = old /\ \A u \in Tasks \ {t} : heldWal'[u] = heldWal[u]
      /\ cur'[g] = n /\ \A h \in Writers \ {g} : cur'[h] = cur[h]
    BY <1>1, <1>4 DEF DataOK
<1>8. /\ n \in Int /\ old \in Int /\ made \in Int /\ n <= MaxWal /\ MaxWal \in Int /\ n >= 1
      /\ n # None /\ old # None
      /\ \A h \in Writers : cur[h] \in Int /\ cur'[h] \in Int /\ h \in Int
      /\ \A u \in Tasks : heldWal[u] \in Int
    BY <1>1, <1>7, NoneIsNone DEF WalIds, DataOK, ControlOK, None, Writers
<1>9. DataOK'
    BY <1>1, <1>4, <1>6, <1>7, <1>8 DEF DataOK
<1>10. CurInv'
  <2>1. \A h \in Writers : cur[h] < n /\ (h > made => cur[h] = None)
    BY <1>1, <1>2 DEF WalInv, CurInv
  <2>2. \A h \in Writers : cur'[h] < n + 1 /\ (h > made => cur'[h] = None)
    BY <1>3, <1>7, <1>8, <2>1
  <2>3. \A h, k \in Writers : cur'[h] = cur'[k] /\ cur'[h] # None => h = k
    BY <1>1, <1>7, <1>8, <2>1 DEF WalInv, CurInv
  <2> QED BY <1>4, <2>2, <2>3 DEF CurInv
<1>11. HeldWalInv'
  <2>1. \A h \in Writers : cur[h] = old => h = g
    BY <1>1, <1>2, <1>8 DEF WalInv, CurInv
  <2>2. /\ \A h \in Writers : cur'[h] # old
        /\ \A u \in Tasks \ {t} : heldWal[u] # old
    BY <1>1, <1>2, <1>3, <1>7, <1>8, <2>1 DEF WalInv, HeldWalInv
  <2>3. \A u \in Tasks : heldWal[u] # None => heldWal[u] < n + 1 /\ heldWal[u] # n
    BY <1>1, <1>2, <1>8 DEF WalInv, HeldWalInv
  <2> SUFFICES ASSUME NEW u \in Tasks
               PROVE  /\ heldWal'[u] # None <=> st'[u] \in {"swap", "insert"}
                      /\ heldWal'[u] # None =>
                           /\ heldWal'[u] < n + 1 /\ imm[heldWal'[u]] = None
                           /\ \A h \in Writers : cur'[h] # heldWal'[u]
                           /\ \A s \in Tasks : heldWal'[s] = heldWal'[u] => s = u
    BY <1>4 DEF HeldWalInv
  <2>4. CASE u = t
    BY <1>3, <1>5, <1>7, <1>8, <2>2, <2>4
  <2>5. CASE u # t
    <3>1. heldWal[u] # None <=> st[u] \in {"swap", "insert"}
        BY <1>1 DEF WalInv, HeldWalInv
    <3>2. heldWal[u] # None => /\ imm[heldWal[u]] = None
                               /\ \A h \in Writers : cur[h] # heldWal[u]
                               /\ \A s \in Tasks : heldWal[s] = heldWal[u] => s = u
        BY <1>1 DEF WalInv, HeldWalInv
    <3> QED BY <1>5, <1>7, <2>2, <2>3, <2>5, <3>1, <3>2
  <2> QED BY <2>4, <2>5
<1>12. FlWalInv'
    BY <1>3, <1>4 DEF FlWalInv
<1>13. imm[n] = None /\ \A w \in WalIds : w >= n + 1 => w >= n /\ w # old
    BY <1>1, <1>2, <1>3, <1>8 DEF WalInv, FreshWalInv, WalIds
<1>14. OpenInv' /\ FreshWalInv'
  <2>1. \A h : Live(h)' <=> Live(h)
    BY <1>4 DEF Live
  <2>2. OpenInv'
    <3>1. mem[g] # None
        BY <1>1, <1>3 DEF WalInv, OpenInv
    <3> QED BY <1>3, <1>4, <1>7, <1>8, <1>13, <2>1, <3>1 DEF OpenInv
  <2>3. FreshWalInv'
    BY <1>1, <1>2, <1>4, <1>6, <1>13 DEF WalInv, FreshWalInv
  <2> QED BY <2>2, <2>3
<1>15. MemInv'
    BY <1>1, <1>4, <1>5 DEF MemInv, MemOfInv, HeldMemInv, FlMemInv, ImmMemInv, FreshMemInv
<1>16. KeepInv(alone)'
  <2>1. \A m : Kept(m)' <=> Kept(m)
    BY <1>4 DEF Kept, Live
  <2>2. \A b \in Batches : st'[b] \in {"sync", "done"} => st[b] \in {"sync", "done"}
    BY <1>5 DEF Tasks
  <2> QED BY <1>1, <1>4, <2>1, <2>2 DEF KeepInv
<1>17. PairInv(alone)'
  <2> SUFFICES ASSUME mode PROVE SealedInv(alone)' /\ TurnInv' /\ EvenInv' /\ FlushedInv'
    BY <1>4 DEF PairInv
  <2>1. /\ SealedInv(alone) /\ \A u \in Tasks : Working(u) => u = t
        /\ \A u \in Tasks : u # t => st'[u] \notin {"swap", "insert", "mem"}
    BY <1>1, <1>3, <1>5 DEF PairInv, Working, WorkSteps
  <2>2. Failed' = Failed
    BY <1>1, <1>5 DEF Failed, Tasks
  <2>3. SealedInv(alone)'
    BY <1>3, <1>4, <1>6, <2>1, <2>2 DEF SealedInv, Whole
  <2>4. Even(g)
    <3>1. ~ Turning(g)
        BY <1>1, <1>5, <2>1 DEF Turning
    <3> QED BY <1>1, <1>3, <3>1 DEF PairInv, EvenInv
  <2>5. \A b \in InWal(old) : b \in rows[mem[g]] \/ b \in Failed
    <3>1. \A b \in InWal(old) : b \in Tasks /\ (st[b] = "mem" => b = t)
        BY <1>1, <2>1 DEF InWal, DataOK, Tasks, Working, WorkSteps
    <3> QED BY <1>1, <1>2, <2>4, <3>1 DEF Even
  <2>6. Whole(old, mem[g])'
    BY <1>2, <1>4, <1>6, <2>2, <2>4, <2>5 DEF Whole, Even
  <2>7. n \in wals' /\ entries'[n] = {} /\ buf'[n] = {}
    BY <1>1, <1>2, <1>3, <1>4, <1>6, <1>8 DEF WalInv, FreshWalInv
  <2>8. TurnInv'
    <3>1. heldWal'[t] = old /\ mem'[home'[t]] = mem'[g] /\ cur'[home'[t]] = n
        BY <1>2, <1>4, <1>7
    <3> QED BY <1>5, <2>1, <2>6, <2>7, <3>1 DEF TurnInv, InWal, Whole
  <2>9. EvenInv'
    <3>1. Turning(g)'
        BY <1>2, <1>4, <1>5 DEF Turning
    <3>2. \A h : Live(h)' => h = g
        BY <1>3, <1>4 DEF Live
    <3> QED BY <1>5, <2>1, <3>1, <3>2 DEF EvenInv, Tasks
  <2>10. FlushedInv'
    BY <1>3, <1>4 DEF FlushedInv
  <2> QED BY <2>3, <2>8, <2>9, <2>10
<1> QED BY <1>5, <1>9, <1>10, <1>11, <1>12, <1>14, <1>15, <1>16, <1>17, PartsNext DEF Data, WalInv

\* Then its memtable.
LEMMA RotateMemData ==
    ASSUME NEW alone \in BOOLEAN, IInv(alone), NEW t \in Tasks, RotateMem(t)
    PROVE  IInv(alone)'
<1>1. /\ ControlOK /\ Control /\ DataOK /\ WalInv /\ MemInv /\ KeepInv(alone) /\ PairInv(alone)
      /\ st[t] = "swap" /\ Working(t)
    BY Types DEF IInv, RotateMem, Working, WorkSteps
<1>2. PICK g \in Writers, old \in MemIds, n \in MemIds : g = home[t] /\ old = mem[g] /\ n = nextMem
  <2>1. nextMem \in MemIds
    BY <1>1, NoneIsNone DEF RotateMem, DataOK, MemIds
  <2> QED BY <1>1, <2>1, WorkingTask, LiveWriter
<1>3. /\ Live(g) /\ old < n /\ g <= made /\ fl.wal = None /\ fl.mem = None
      /\ fl.at \notin {"swap", "insert"}
      /\ \A h : Live(h) => h = g
      /\ mode => \A u \in Tasks : Working(u) => u = t
    BY <1>1, <1>2, WorkingTask, LiveWriter
<1>4. /\ heldMem' = [heldMem EXCEPT ![t] = old]
      /\ mem' = [mem EXCEPT ![g] = n]
      /\ nextMem' = n + 1 /\ Goto(t, "insert")
      /\ UNCHANGED <<wals, entries, rows, imm, stored, mode, nextWal, made, buf, reg, cur,
                     queue, alive, home, heldWal, fl>>
    BY <1>2 DEF RotateMem
<1>5. /\ Control' /\ ControlOK'
      /\ st'[t] = "insert" /\ \A u \in Tasks \ {t} : st'[u] = st[u]
    BY <1>1, <1>4, GotoNext
<1>6. /\ heldMem' \in [Tasks -> MemIds \cup {None}] /\ mem' \in [Writers -> MemIds \cup {None}]
      /\ heldMem'[t] = old /\ \A u \in Tasks \ {t} : heldMem'[u] = heldMem[u]
      /\ mem'[g] = n /\ \A h \in Writers \ {g} : mem'[h] = mem[h]
    BY <1>1, <1>4 DEF DataOK
<1>7. /\ n \in Int /\ old \in Int /\ made \in Int /\ n <= MaxMem /\ MaxMem \in Int /\ n >= 1
      /\ n # None /\ old # None
      /\ \A h \in Writers : mem[h] \in Int /\ mem'[h] \in Int /\ h \in Int
      /\ \A u \in Tasks : heldMem[u] \in Int
      /\ \A w \in WalIds : imm[w] \in Int
    BY <1>1, <1>6, NoneIsNone DEF MemIds, DataOK, ControlOK, None, Writers
<1>8. DataOK'
    BY <1>1, <1>4, <1>6, <1>7 DEF DataOK
<1>9. WalInv'
  <2>1. \A h : Live(h)' <=> Live(h)
    BY <1>4 DEF Live
  <2>2. CurInv' /\ FreshWalInv' /\ FlWalInv'
    BY <1>1, <1>3, <1>4 DEF WalInv, CurInv, FreshWalInv, FlWalInv
  <2>3. OpenInv'
    BY <1>1, <1>3, <1>4, <1>6, <1>7, <2>1 DEF WalInv, OpenInv
  <2>4. HeldWalInv'
    BY <1>1, <1>4, <1>5 DEF WalInv, HeldWalInv
  <2> QED BY <2>2, <2>3, <2>4 DEF WalInv
<1>10. \A h \in Writers : mem[h] < n /\ (h > made => mem[h] = None)
    BY <1>1, <1>2 DEF MemInv, MemOfInv
<1>11. MemOfInv'
  <2>1. \A h \in Writers : mem'[h] < n + 1 /\ (h > made => mem'[h] = None)
    BY <1>3, <1>6, <1>7, <1>10
  <2>2. \A h, k \in Writers : mem'[h] = mem'[k] /\ mem'[h] # None => h = k
    BY <1>1, <1>6, <1>7, <1>10 DEF MemInv, MemOfInv
  <2> QED BY <1>4, <2>1, <2>2 DEF MemOfInv
<1>12. HeldMemInv'
  <2>1. \A h \in Writers : mem[h] = old => h = g
    BY <1>1, <1>2, <1>7 DEF MemInv, MemOfInv
  <2>2. /\ \A h \in Writers : mem'[h] # old
        /\ \A u \in Tasks \ {t} : heldMem[u] # old
    BY <1>1, <1>2, <1>3, <1>6, <1>7, <2>1 DEF MemInv, HeldMemInv
  <2>3. \A u \in Tasks : heldMem[u] # None => heldMem[u] < n + 1 /\ heldMem[u] # n
    BY <1>1, <1>2, <1>7 DEF MemInv, HeldMemInv
  <2> SUFFICES ASSUME NEW u \in Tasks
               PROVE  /\ heldMem'[u] # None <=> st'[u] = "insert"
                      /\ heldMem'[u] # None =>
                           /\ heldMem'[u] < n + 1
                           /\ \A h \in Writers : mem'[h] # heldMem'[u]
                           /\ \A s \in Tasks : heldMem'[s] = heldMem'[u] => s = u
    BY <1>4 DEF HeldMemInv
  <2>4. CASE u = t
    BY <1>3, <1>5, <1>6, <1>7, <2>2, <2>4
  <2>5. CASE u # t
    <3>1. heldMem[u] # None <=> st[u] = "insert"
        BY <1>1 DEF MemInv, HeldMemInv
    <3>2. heldMem[u] # None => /\ \A h \in Writers : mem[h] # heldMem[u]
                               /\ \A s \in Tasks : heldMem[s] = heldMem[u] => s = u
        BY <1>1 DEF MemInv, HeldMemInv
    <3> QED BY <1>5, <1>6, <2>2, <2>3, <2>5, <3>1, <3>2
  <2> QED BY <2>4, <2>5
<1>13. FlMemInv'
    BY <1>3, <1>4 DEF FlMemInv
<1>14. ImmMemInv'
  <2>1. \A w \in WalIds : imm[w] # None => imm[w] < n /\ imm[w] < n + 1 /\ imm[w] # n
    BY <1>1, <1>2, <1>7 DEF MemInv, ImmMemInv
  <2> QED BY <1>1, <1>4, <1>6, <2>1 DEF MemInv, ImmMemInv
<1>15. FreshMemInv' /\ rows[n] = {}
  <2>1. \A m \in MemIds : m >= n + 1 => m >= n
    BY <1>7 DEF MemIds
  <2> QED BY <1>1, <1>2, <1>4, <1>7, <2>1 DEF MemInv, FreshMemInv
<1>16. KeepInv(alone)'
  <2>1. heldMem[t] = None
    BY <1>1 DEF MemInv, HeldMemInv
  <2>2. ASSUME NEW m \in MemIds, Kept(m) PROVE Kept(m)'
    <3>1. CASE \E h \in Writers : (Live(h) \/ WalErrors) /\ mem[h] = m
      <4>1. PICK h \in Writers : (Live(h) \/ WalErrors) /\ mem[h] = m
        BY <3>1
      <4>2. CASE h = g
        BY <1>2, <1>6, <4>1, <4>2 DEF Kept
      <4>3. CASE h # g
        BY <1>3, <1>6, <4>1, <4>3 DEF Kept
      <4> QED BY <4>2, <4>3
    <3>2. CASE \E u \in Tasks : heldMem[u] = m
        BY <1>6, <2>1, <3>2, NoneIsNone DEF Kept
    <3>3. CASE (\E w \in WalIds : imm[w] = m) \/ fl.mem = m
        BY <1>4, <3>3 DEF Kept
    <3> QED BY <2>2, <3>1, <3>2, <3>3 DEF Kept
  <2>3. \A b \in Batches : st'[b] \in {"sync", "done"} => st[b] \in {"sync", "done"}
    BY <1>5 DEF Tasks
  <2> QED BY <1>1, <1>4, <2>2, <2>3 DEF KeepInv
<1>17. PairInv(alone)'
  <2> SUFFICES ASSUME mode PROVE SealedInv(alone)' /\ TurnInv' /\ EvenInv' /\ FlushedInv'
    BY <1>4 DEF PairInv
  <2>1. /\ SealedInv(alone) /\ TurnInv
        /\ \A u \in Tasks : u # t => st'[u] \notin {"swap", "insert", "mem"}
    BY <1>1, <1>3, <1>5 DEF PairInv, Working, WorkSteps
  <2>2. Failed' = Failed
    BY <1>1, <1>5 DEF Failed, Tasks
  <2>3. SealedInv(alone)'
    BY <1>4, <2>1, <2>2 DEF SealedInv, Whole
  <2>4. TurnInv'
    <3>1. heldMem'[t] = old /\ mem'[home'[t]] = n /\ cur'[home'[t]] = cur[home[t]]
        BY <1>2, <1>4, <1>6
    <3>2. /\ Whole(heldWal[t], old) /\ cur[home[t]] \in wals /\ InWal(cur[home[t]]) = {}
        BY <1>1, <1>2, <2>1 DEF TurnInv
    <3>3. Whole(heldWal[t], heldMem[t])'
        BY <1>4, <2>2, <3>1, <3>2 DEF Whole
    <3>4. (InWal(cur[home[t]]) = {})' /\ (rows[mem[home[t]]] = {})'
        BY <1>4, <1>15, <3>1, <3>2 DEF InWal
    <3> QED BY <1>4, <1>5, <2>1, <3>1, <3>2, <3>3, <3>4 DEF TurnInv
  <2>5. EvenInv'
    <3>1. Turning(g)'
        BY <1>2, <1>4, <1>5 DEF Turning
    <3>2. \A h : Live(h)' => h = g
        BY <1>3, <1>4 DEF Live
    <3> QED BY <1>5, <2>1, <3>1, <3>2 DEF EvenInv, Tasks
  <2>6. FlushedInv'
    BY <1>3, <1>4 DEF FlushedInv
  <2> QED BY <2>3, <2>4, <2>5, <2>6
<1> QED BY <1>5, <1>8, <1>9, <1>11, <1>12, <1>13, <1>14, <1>15, <1>16, <1>17, PartsNext DEF Data, MemInv

\* Then the two go into IMMUTABLES, and the rotation is over.
LEMMA RotateInsertData ==
    ASSUME NEW alone \in BOOLEAN, IInv(alone), NEW t \in Tasks, RotateInsert(t)
    PROVE  IInv(alone)'
<1>1. /\ ControlOK /\ Control /\ DataOK /\ WalInv /\ MemInv /\ KeepInv(alone) /\ PairInv(alone)
      /\ st[t] = "insert" /\ Working(t)
    BY Types DEF IInv, RotateInsert, Working, WorkSteps
<1>2. PICK g \in Writers, w \in WalIds, m \in MemIds : g = home[t] /\ w = heldWal[t] /\ m = heldMem[t]
  <2>1. heldWal[t] # None /\ heldMem[t] # None
    BY <1>1 DEF WalInv, HeldWalInv, MemInv, HeldMemInv
  <2>2. heldWal[t] \in WalIds /\ heldMem[t] \in MemIds
    BY <1>1, <2>1 DEF DataOK
  <2> QED BY <1>1, <2>2, WorkingTask, LiveWriter
<1>3. /\ Live(g) /\ fl.wal = None /\ fl.mem = None
      /\ fl.at \notin {"swap", "insert"}
      /\ \A h : Live(h) => h = g
      /\ mode => \A u \in Tasks : Working(u) => u = t
    BY <1>1, <1>2, WorkingTask, LiveWriter
<1>4. PICK s \in {"wal", "done"} : s = AfterRotate(t) /\ (t \in Batches => s = "wal")
    BY DEF AfterRotate
<1>5. /\ imm' = [imm EXCEPT ![w] = m]
      /\ heldWal' = [heldWal EXCEPT ![t] = None]
      /\ heldMem' = [heldMem EXCEPT ![t] = None]
      /\ Goto(t, s)
      /\ UNCHANGED <<wals, entries, rows, stored, mode, nextWal, nextMem, made, buf, reg,
                     cur, mem, queue, alive, home, fl>>
    BY <1>2, <1>4 DEF RotateInsert, ids
<1>6. /\ Control' /\ ControlOK'
      /\ st'[t] = s /\ \A u \in Tasks \ {t} : st'[u] = st[u]
    BY <1>1, <1>5, GotoNext
<1>7. /\ imm' \in [WalIds -> MemIds \cup {None}]
      /\ imm'[w] = m /\ \A v \in WalIds \ {w} : imm'[v] = imm[v]
    BY <1>1, <1>5 DEF DataOK
<1>8. /\ heldWal' \in [Tasks -> WalIds \cup {None}] /\ heldMem' \in [Tasks -> MemIds \cup {None}]
      /\ heldWal'[t] = None /\ \A u \in Tasks \ {t} : heldWal'[u] = heldWal[u]
      /\ heldMem'[t] = None /\ \A u \in Tasks \ {t} : heldMem'[u] = heldMem[u]
    BY <1>1, <1>5 DEF DataOK
<1>9. DataOK'
    BY <1>1, <1>5, <1>7, <1>8 DEF DataOK
<1>10. w # None /\ m # None
    BY NoneIsNone
<1>11. /\ w < nextWal /\ imm[w] = None
       /\ \A h \in Writers : cur[h] # w
       /\ \A u \in Tasks : heldWal[u] = w => u = t
    BY <1>1, <1>2, <1>10 DEF WalInv, HeldWalInv
<1>12. /\ m < nextMem
       /\ \A h \in Writers : mem[h] # m
    BY <1>1, <1>2, <1>10 DEF MemInv, HeldMemInv
<1>13. WalInv'
  <2>1. \A h : Live(h)' <=> Live(h)
    BY <1>5 DEF Live
  <2>2. CurInv' /\ FlWalInv'
    BY <1>1, <1>3, <1>5 DEF WalInv, CurInv, FlWalInv
  <2>3. OpenInv'
    <3>1. cur[g] \in WalIds /\ cur[g] # None /\ mem[g] # None /\ imm[cur[g]] = None
        BY <1>1, <1>3, LiveWriter DEF WalInv, OpenInv
    <3> QED BY <1>3, <1>5, <1>7, <1>11, <2>1, <3>1 DEF OpenInv
  <2>4. FreshWalInv'
    <3>1. \A v \in WalIds : v >= nextWal => v # w
        BY <1>1, <1>11 DEF WalIds, DataOK
    <3> QED BY <1>1, <1>5, <1>7, <3>1 DEF WalInv, FreshWalInv
  <2>5. HeldWalInv'
    <3> SUFFICES ASSUME NEW u \in Tasks
                 PROVE  /\ heldWal'[u] # None <=> st'[u] \in {"swap", "insert"}
                        /\ heldWal'[u] # None =>
                             /\ heldWal'[u] < nextWal /\ imm'[heldWal'[u]] = None
                             /\ \A h \in Writers : cur[h] # heldWal'[u]
                             /\ \A v \in Tasks : heldWal'[v] = heldWal'[u] => v = u
        BY <1>5 DEF HeldWalInv
    <3>1. CASE u = t
        BY <1>6, <1>8, <3>1
    <3>2. CASE u # t
        <4>1. heldWal[u] # None => heldWal[u] \in WalIds \ {w}
            BY <1>1, <1>11, <3>2 DEF DataOK
        <4>2. heldWal[u] # None => imm'[heldWal[u]] = imm[heldWal[u]]
            BY <1>7, <4>1
        <4> QED BY <1>1, <1>6, <1>8, <3>2, <4>2 DEF WalInv, HeldWalInv
    <3> QED BY <3>1, <3>2
  <2> QED BY <2>2, <2>3, <2>4, <2>5 DEF WalInv
<1>14. MemInv'
  <2>1. MemOfInv' /\ FlMemInv' /\ FreshMemInv'
    BY <1>1, <1>3, <1>5 DEF MemInv, MemOfInv, FlMemInv, FreshMemInv
  <2>2. ImmMemInv'
    BY <1>1, <1>5, <1>7, <1>12 DEF MemInv, ImmMemInv
  <2>3. HeldMemInv'
    BY <1>1, <1>5, <1>6, <1>8 DEF MemInv, HeldMemInv
  <2> QED BY <2>1, <2>2, <2>3 DEF MemInv
<1>15. KeepInv(alone)'
  <2>1. ASSUME NEW x \in MemIds, Kept(x) PROVE Kept(x)'
    <3>1. CASE (\E h \in Writers : (Live(h) \/ WalErrors) /\ mem[h] = x) \/ fl.mem = x
        BY <1>5, <3>1 DEF Kept, Live
    <3>2. CASE \E u \in Tasks : heldMem[u] = x
      <4>1. PICK u \in Tasks : heldMem[u] = x
        BY <3>2
      <4>2. CASE u = t
        BY <1>2, <1>7, <4>1, <4>2 DEF Kept
      <4>3. CASE u # t
        BY <1>8, <4>1, <4>3 DEF Kept
      <4> QED BY <4>2, <4>3
    <3>3. CASE \E v \in WalIds : imm[v] = x
        BY <1>7, <1>11, <3>3, NoneIsNone DEF Kept
    <3> QED BY <2>1, <3>1, <3>2, <3>3 DEF Kept
  <2>2. \A b \in Batches : st'[b] \in {"sync", "done"} => st[b] \in {"sync", "done"}
    BY <1>4, <1>6 DEF Tasks
  <2> QED BY <1>1, <1>5, <2>1, <2>2 DEF KeepInv
<1>16. PairInv(alone)'
  <2> SUFFICES ASSUME mode PROVE SealedInv(alone)' /\ TurnInv' /\ EvenInv' /\ FlushedInv'
    BY <1>5 DEF PairInv
  <2>1. /\ SealedInv(alone) /\ TurnInv
        /\ \A u \in Tasks : st'[u] \notin {"swap", "insert", "mem"}
    BY <1>1, <1>3, <1>6 DEF PairInv, Working, WorkSteps
  <2>2. Failed' = Failed
    BY <1>1, <1>6 DEF Failed, Tasks
  <2>3. /\ Whole(w, m) /\ rows[mem[g]] = {}
        /\ cur[g] \in wals /\ InWal(cur[g]) = {}
    BY <1>1, <1>2, <2>1 DEF TurnInv
  <2>4. SealedInv(alone)'
    BY <1>5, <1>7, <2>1, <2>2, <2>3 DEF SealedInv, Whole
  <2>5. TurnInv'
    BY <2>1 DEF TurnInv
  <2>6. EvenInv'
    <3>1. \A h : Live(h)' => h = g
        BY <1>3, <1>5 DEF Live
    <3>2. InWal(cur[g])' = {}
        BY <1>5, <2>3 DEF InWal
    <3>3. Even(g)'
        BY <1>5, <2>3, <3>2 DEF Even
    <3> QED BY <2>1, <3>1, <3>3 DEF EvenInv, Tasks
  <2>7. FlushedInv'
    BY <1>3, <1>5 DEF FlushedInv
  <2> QED BY <2>4, <2>5, <2>6, <2>7
<1> QED BY <1>6, <1>9, <1>13, <1>14, <1>15, <1>16, PartsNext DEF Data

\* A task at work changes what the open WAL file and its buffer hold, by at most
\* its own batch, which it adds unless it is at its last step or fails before.
LEMMA AppendData ==
    ASSUME NEW alone \in BOOLEAN, IInv(alone), NEW t \in Tasks, st[t] \in {"check", "wal", "sync"},
           NEW s \in {"mem", "failed", "done"}, Goto(t, s),
           NEW E \in SUBSET Batches, NEW B \in SUBSET Batches,
           entries' = [entries EXCEPT ![cur[home[t]]] = E],
           buf' = [buf EXCEPT ![cur[home[t]]] = B],
           s = "mem" => E \cup B = InWal(cur[home[t]]) \cup {t},
           s = "failed" => E \cup B \in {InWal(cur[home[t]]), InWal(cur[home[t]]) \cup {t}},
           s = "done" => st[t] = "sync" /\ E \cup B = InWal(cur[home[t]]),
           wals \subseteq wals', wals' \subseteq WalIds,
           nextWal' \in 1..(MaxWal + 1), nextWal <= nextWal',
           UNCHANGED <<rows, imm, stored, mode, nextMem, made, reg, cur, mem,
                       queue, alive, home, heldWal, heldMem, fl>>
    PROVE  IInv(alone)'
<1>1. /\ ControlOK /\ Control /\ DataOK /\ WalInv /\ MemInv /\ KeepInv(alone) /\ PairInv(alone)
      /\ Working(t)
    BY Types DEF IInv, Working, WorkSteps
<1>2. PICK g \in Writers, w \in WalIds : g = home[t] /\ w = cur[g]
    BY <1>1, WorkingTask, LiveWriter
<1>3. /\ Live(g) /\ fl.wal = None /\ fl.mem = None /\ w < nextWal /\ imm[w] = None
      /\ fl.at \notin {"swap", "insert"}
      /\ \A h : Live(h) => h = g
      /\ mode => \A u \in Tasks : Working(u) => u = t
    BY <1>1, <1>2, WorkingTask, LiveWriter
<1>4. /\ Control' /\ ControlOK'
      /\ st'[t] = s /\ \A u \in Tasks \ {t} : st'[u] = st[u]
    BY <1>1, GotoNext
<1>5. /\ entries' \in [WalIds -> SUBSET Batches] /\ buf' \in [WalIds -> SUBSET Batches]
      /\ entries'[w] = E /\ buf'[w] = B
      /\ \A v \in WalIds \ {w} : entries'[v] = entries[v] /\ buf'[v] = buf[v]
    BY <1>1, <1>2 DEF DataOK
<1>6. DataOK'
    BY <1>1, <1>5 DEF DataOK
<1>7. WalInv'
  <2>1. OpenInv' /\ FlWalInv'
    BY <1>1, <1>3 DEF WalInv, OpenInv, FlWalInv, Live
  <2>2. /\ nextWal \in Int /\ nextWal' \in Int
        /\ \A h \in Writers : cur[h] \in Int
        /\ \A u \in Tasks : heldWal[u] \in Int
        /\ \A v \in WalIds : v \in Int
    BY <1>1, NoneIsNone DEF DataOK, WalIds, None
  <2>4. CurInv'
    BY <1>1, <2>2 DEF WalInv, CurInv
  <2>5. HeldWalInv'
    BY <1>1, <1>4, <2>2 DEF WalInv, HeldWalInv
  <2>3. FreshWalInv'
    <3>1. \A v \in WalIds : v >= nextWal' => v # w /\ v >= nextWal
        BY <1>3, <2>2
    <3> QED BY <1>1, <1>5, <3>1 DEF WalInv, FreshWalInv
  <2> QED BY <2>1, <2>3, <2>4, <2>5 DEF WalInv
<1>8. MemInv'
  <2>1. MemOfInv' /\ FlMemInv' /\ FreshMemInv' /\ ImmMemInv'
    BY <1>1, <1>3 DEF MemInv, MemOfInv, FlMemInv, FreshMemInv, ImmMemInv
  <2>2. HeldMemInv'
    BY <1>1, <1>4 DEF MemInv, HeldMemInv
  <2> QED BY <2>1, <2>2 DEF MemInv
<1>9. KeepInv(alone)'
  <2>1. \A m : Kept(m)' <=> Kept(m)
    BY DEF Kept, Live
  <2>2. \A b \in Batches : st'[b] \in {"sync", "done"} => st[b] \in {"sync", "done"}
    BY <1>4 DEF Tasks
  <2> QED BY <1>1, <2>1, <2>2 DEF KeepInv
<1>10. PairInv(alone)'
  <2> SUFFICES ASSUME mode PROVE SealedInv(alone)' /\ TurnInv' /\ EvenInv' /\ FlushedInv'
    BY DEF PairInv
  <2>1. /\ SealedInv(alone)
        /\ \A u \in Tasks : st'[u] \notin {"swap", "insert"} /\ st[u] \notin {"swap", "insert", "mem"}
        /\ \A u \in Tasks : st'[u] = "mem" => u = t /\ s = "mem"
    BY <1>1, <1>3, <1>4 DEF PairInv, Working, WorkSteps
  <2>2. (\A b \in Failed : b \in Failed') /\ (s = "failed" /\ t \in Batches => t \in Failed')
    BY <1>1, <1>4 DEF Failed, Tasks
  <2>3. SealedInv(alone)'
    BY <1>3, <1>5, <2>1, <2>2 DEF SealedInv, Whole
  <2>4. TurnInv'
    BY <2>1 DEF TurnInv
  <2>5. Even(g)
    <3>1. ~ Turning(g)
        BY <2>1 DEF Turning
    <3> QED BY <1>1, <1>3, <3>1 DEF PairInv, EvenInv
  <2>6. InWal(w)' = E \cup B
    BY <1>5 DEF InWal
  <2>7. \A b \in InWal(w) : b \in rows[mem[g]] \/ b \in Failed
    <3>1. \A b \in InWal(w) : b \in Tasks
        BY <1>1 DEF InWal, DataOK, Tasks
    <3> QED BY <1>2, <2>1, <2>5, <3>1 DEF Even
  <2>8. /\ InWal(w) \subseteq E \cup B
        /\ \A b \in E \cup B : /\ b \in Batches
                               /\ b \in InWal(w) \/ (b = t /\ s \in {"mem", "failed"})
    BY <1>2
  <2>9. Even(g)'
    <3>1. \A b \in E \cup B : b \in rows[mem[g]] \/ b \in Failed' \/ (st'[b] = "mem" /\ home[b] = g)
        BY <1>2, <1>4, <2>2, <2>7, <2>8
    <3> QED BY <1>2, <2>5, <2>6, <2>8, <3>1 DEF Even
  <2>10. EvenInv'
    <3>1. \A h : Live(h)' => h = g
        BY <1>3 DEF Live
    <3>2. s = "mem" => t \in InWal(cur[home[t]])'
        BY <1>2, <2>6
    <3> QED BY <2>1, <2>9, <3>1, <3>2 DEF EvenInv, Tasks
  <2>11. FlushedInv'
    BY <1>3 DEF FlushedInv
  <2> QED BY <2>3, <2>4, <2>10, <2>11
<1> QED BY <1>4, <1>6, <1>7, <1>8, <1>9, <1>10, PartsNext DEF Data

\* What is in the file and in its buffer is the same after a sync that fails.
LEMMA SyncFailsKeeps ==
    ASSUME DataOK, NEW w \in WalIds, SyncFails(w)
    PROVE  \E E \in SUBSET Batches, B \in SUBSET Batches :
              /\ entries' = [entries EXCEPT ![w] = E] /\ buf' = [buf EXCEPT ![w] = B]
              /\ E \cup B = InWal(w)
<1>1. /\ entries[w] \in SUBSET Batches /\ buf[w] \in SUBSET Batches
      /\ entries = [entries EXCEPT ![w] = entries[w]] /\ buf = [buf EXCEPT ![w] = buf[w]]
    BY DEF DataOK
<1>2. CASE UNCHANGED <<entries, buf>>
    BY <1>1, <1>2 DEF InWal
<1>3. CASE /\ entries' = [entries EXCEPT ![w] = @ \cup buf[w]]
           /\ buf' = [buf EXCEPT ![w] = {}]
  <2>1. entries[w] \cup buf[w] \in SUBSET Batches /\ {} \in SUBSET Batches
    BY <1>1
  <2> QED BY <1>3, <2>1 DEF InWal
<1> QED BY <1>2, <1>3 DEF SyncFails

\* The steps of consume_processed under the wal lock, failing or not.
LEMMA WriteWalData ==
    ASSUME NEW alone \in BOOLEAN, IInv(alone), NEW t \in Batches,
           WriteWal(t) \/ WriteWalError(t) \/ SyncWal(t) \/ SyncWalError(t)
    PROVE  IInv(alone)'
<1>1. /\ DataOK /\ t \in Tasks /\ Working(t) /\ st[t] \in {"wal", "sync"}
    BY Types DEF IInv, Working, WorkSteps, Tasks, WriteWal, WriteWalError, SyncWal,
                 SyncWalError
<1>2. PICK w \in WalIds : w = cur[home[t]]
    BY <1>1, WorkingTask, LiveWriter
<1>3. entries[w] \in SUBSET Batches /\ buf[w] \in SUBSET Batches
    BY <1>1, <1>2 DEF DataOK
<1>a. /\ wals \subseteq WalIds /\ nextWal \in 1..(MaxWal + 1) /\ nextWal <= nextWal
    BY <1>1 DEF DataOK
<1>4. CASE WriteWal(t)
  <2>1. /\ Goto(t, "mem")
        /\ UNCHANGED <<wals, rows, imm, stored, mode, nextWal, nextMem, made, reg, cur, mem,
                       queue, alive, home, heldWal, heldMem, fl>>
    BY <1>4 DEF WriteWal, ids
  <2>2. PICK spill \in {{}, buf[w], buf[w] \cup {t}} :
            /\ entries' = [entries EXCEPT ![w] = entries[w] \cup spill]
            /\ buf' = [buf EXCEPT ![w] = (buf[w] \cup {t}) \ spill]
    BY <1>2, <1>4 DEF WriteWal
  <2>3. PICK E \in SUBSET Batches, B \in SUBSET Batches :
            E = entries[w] \cup spill /\ B = (buf[w] \cup {t}) \ spill
    BY <1>3, <2>2
  <2>4. E \cup B = InWal(w) \cup {t}
    BY <2>2, <2>3 DEF InWal
  <2>5. /\ entries' = [entries EXCEPT ![cur[home[t]]] = E]
        /\ buf' = [buf EXCEPT ![cur[home[t]]] = B]
        /\ E \cup B = InWal(cur[home[t]]) \cup {t}
    BY <1>2, <2>2, <2>3, <2>4
  <2> QED BY <1>1, <2>1, <2>5, <1>a, AppendData
<1>5. CASE WriteWalError(t)
  <2>1. /\ Goto(t, "failed")
        /\ UNCHANGED <<wals, rows, imm, stored, mode, nextWal, nextMem, made, reg, cur, mem,
                       queue, alive, home, heldWal, heldMem, fl>>
    BY <1>5 DEF WriteWalError, ids, shared
  <2>2. PICK E \in SUBSET Batches, B \in SUBSET Batches :
            /\ E = entries[w] /\ B \in {buf[w], buf[w] \cup {t}}
            /\ buf' = [buf EXCEPT ![w] = B]
    <3>1. buf' \in {buf, [buf EXCEPT ![w] = buf[w] \cup {t}]}
        BY <1>2, <1>5 DEF WriteWalError
    <3>2. buf = [buf EXCEPT ![w] = buf[w]]
        BY <1>1, <1>2 DEF DataOK
    <3> QED BY <1>3, <3>1, <3>2
  <2>3. entries' = [entries EXCEPT ![w] = E]
    BY <1>1, <1>2, <1>5, <2>2 DEF WriteWalError, shared, DataOK
  <2>4. E \cup B \in {InWal(w), InWal(w) \cup {t}}
    BY <2>2 DEF InWal
  <2>5. /\ entries' = [entries EXCEPT ![cur[home[t]]] = E]
        /\ buf' = [buf EXCEPT ![cur[home[t]]] = B]
        /\ E \cup B \in {InWal(cur[home[t]]), InWal(cur[home[t]]) \cup {t}}
    BY <1>2, <2>2, <2>3, <2>4
  <2> QED BY <1>1, <2>1, <2>5, <1>a, AppendData
<1>6. CASE SyncWal(t)
  <2>1. /\ Goto(t, "done") /\ st[t] = "sync"
        /\ UNCHANGED <<wals, rows, imm, stored, mode, nextWal, nextMem, made, reg, cur, mem,
                       queue, alive, home, heldWal, heldMem, fl>>
    BY <1>6 DEF SyncWal, ids
  <2>2. PICK E \in SUBSET Batches, B \in SUBSET Batches : E = InWal(w) /\ B = {}
    BY <1>3 DEF InWal
  <2>3. /\ entries' = [entries EXCEPT ![cur[home[t]]] = E]
        /\ buf' = [buf EXCEPT ![cur[home[t]]] = B]
        /\ E \cup B = InWal(cur[home[t]])
    BY <1>2, <1>6, <2>2 DEF SyncWal, InWal
  <2> QED BY <1>1, <2>1, <2>3, <1>a, AppendData
<1>7. CASE SyncWalError(t)
  <2>1. /\ Goto(t, "failed") /\ SyncFails(w)
        /\ UNCHANGED <<wals, rows, imm, stored, mode, nextWal, nextMem, made, reg, cur, mem,
                       queue, alive, home, heldWal, heldMem, fl>>
    BY <1>2, <1>7 DEF SyncWalError, ids
  <2>2. PICK E \in SUBSET Batches, B \in SUBSET Batches :
            /\ entries' = [entries EXCEPT ![w] = E] /\ buf' = [buf EXCEPT ![w] = B]
            /\ E \cup B = InWal(w)
    BY <1>1, <1>2, <2>1, SyncFailsKeeps
  <2> QED BY <1>1, <1>2, <1>a, <2>1, <2>2, AppendData
<1> QED BY <1>4, <1>5, <1>6, <1>7

\* A rotation that stops at an error has drawn an id and may leave an empty file.
LEMMA RotateWalErrorData ==
    ASSUME NEW alone \in BOOLEAN, IInv(alone), NEW t \in Tasks, RotateWalError(t)
    PROVE  IInv(alone)'
<1>1. DataOK /\ Working(t) /\ st[t] = "check"
    BY Types DEF IInv, Working, WorkSteps, RotateWalError
<1>2. PICK w \in WalIds : w = cur[home[t]]
    BY <1>1, WorkingTask, LiveWriter
<1>3. /\ Goto(t, "failed") /\ SyncFails(w)
      /\ UNCHANGED <<rows, imm, stored, mode, nextMem, made, reg, cur, mem,
                     queue, alive, home, heldWal, heldMem, fl>>
    BY <1>2 DEF RotateWalError
<1>4. PICK E \in SUBSET Batches, B \in SUBSET Batches :
          /\ entries' = [entries EXCEPT ![w] = E] /\ buf' = [buf EXCEPT ![w] = B]
          /\ E \cup B = InWal(w)
    BY <1>1, <1>2, <1>3, SyncFailsKeeps
<1>5. /\ nextWal \in WalIds
      /\ nextWal' \in 1..(MaxWal + 1) /\ nextWal <= nextWal'
    BY <1>1, NoneIsNone DEF RotateWalError, DataOK, WalIds
<1>6. wals \subseteq wals' /\ wals' \subseteq WalIds
    BY <1>1, <1>5 DEF RotateWalError, DataOK
<1> QED BY <1>1, <1>2, <1>3, <1>4, <1>5, <1>6, AppendData


\* The step under the memtable lock: the batch is in the memtable of its writer.
LEMMA WriteMemData ==
    ASSUME NEW alone \in BOOLEAN, IInv(alone), NEW t \in Batches, WriteMem(t)
    PROVE  IInv(alone)'
<1>1. /\ ControlOK /\ Control /\ DataOK /\ WalInv /\ MemInv /\ KeepInv(alone) /\ PairInv(alone)
      /\ st[t] = "mem" /\ t \in Tasks /\ Working(t)
    BY Types DEF IInv, WriteMem, Working, WorkSteps, Tasks
<1>2. PICK g \in Writers, m \in MemIds : g = home[t] /\ m = mem[g]
    BY <1>1, WorkingTask, LiveWriter
<1>3. /\ Live(g) /\ fl.wal = None /\ fl.mem = None /\ m < nextMem
      /\ fl.at \notin {"swap", "insert"}
      /\ \A h : Live(h) => h = g
      /\ mode => \A u \in Tasks : Working(u) => u = t
    BY <1>1, <1>2, WorkingTask, LiveWriter
<1>4. PICK s \in {"sync", "done"} : Goto(t, s)
    BY DEF WriteMem
<1>5. /\ rows' = [rows EXCEPT ![m] = rows[m] \cup {t}]
      /\ UNCHANGED <<wals, entries, imm, stored, mode, nextWal, nextMem, made, buf, reg, cur,
                     mem, queue, alive, home, heldWal, heldMem, fl>>
    BY <1>2 DEF WriteMem, ids
<1>6. /\ Control' /\ ControlOK'
      /\ st'[t] = s /\ \A u \in Tasks \ {t} : st'[u] = st[u]
    BY <1>1, <1>4, <1>5, GotoNext
<1>7. /\ rows' \in [MemIds -> SUBSET Batches]
      /\ rows'[m] = rows[m] \cup {t} /\ \A x \in MemIds \ {m} : rows'[x] = rows[x]
    BY <1>1, <1>5 DEF DataOK
<1>8. DataOK'
    BY <1>1, <1>5, <1>7 DEF DataOK
<1>9. WalInv'
  <2>1. CurInv' /\ OpenInv' /\ FlWalInv' /\ FreshWalInv'
    BY <1>1, <1>3, <1>5 DEF WalInv, CurInv, OpenInv, FlWalInv, FreshWalInv, Live
  <2>2. HeldWalInv'
    BY <1>1, <1>5, <1>6 DEF WalInv, HeldWalInv
  <2> QED BY <2>1, <2>2 DEF WalInv
<1>10. MemInv'
  <2>1. MemOfInv' /\ FlMemInv' /\ ImmMemInv'
    BY <1>1, <1>3, <1>5 DEF MemInv, MemOfInv, FlMemInv, ImmMemInv
  <2>2. HeldMemInv'
    BY <1>1, <1>5, <1>6 DEF MemInv, HeldMemInv
  <2>3. FreshMemInv'
    <3>1. \A x \in MemIds : x >= nextMem => x # m
        BY <1>1, <1>3 DEF MemIds, DataOK
    <3> QED BY <1>1, <1>5, <1>7, <3>1 DEF MemInv, FreshMemInv
  <2> QED BY <2>1, <2>2, <2>3 DEF MemInv
<1>11. KeepInv(alone)'
  <2>1. \A x : Kept(x)' <=> Kept(x)
    BY <1>5 DEF Kept, Live
  <2>2. Kept(m)
    BY <1>2, <1>3 DEF Kept
  <2>3. \A x \in MemIds : \A b \in rows[x] : b \in rows'[x]
    BY <1>7
  <2>4. t \in rows'[m]
    BY <1>7
  <2> SUFFICES ASSUME alone, NEW b \in Batches, st'[b] \in {"sync", "done"}
               PROVE  b \in stored \/ \E x \in MemIds : Kept(x)' /\ b \in rows'[x]
    BY <1>5 DEF KeepInv
  <2>5. CASE b = t
    BY <2>1, <2>2, <2>4, <2>5
  <2>6. CASE b # t
    <3>1. st[b] \in {"sync", "done"}
        BY <1>6, <2>6 DEF Tasks
    <3>2. b \in stored \/ \E x \in MemIds : Kept(x) /\ b \in rows[x]
        BY <1>1, <3>1 DEF KeepInv
    <3> QED BY <2>1, <2>3, <3>2
  <2> QED BY <2>5, <2>6
<1>12. PairInv(alone)'
  <2> SUFFICES ASSUME mode PROVE SealedInv(alone)' /\ TurnInv' /\ EvenInv' /\ FlushedInv'
    BY <1>5 DEF PairInv
  <2>1. /\ SealedInv(alone) /\ t \in InWal(cur[g])
        /\ \A u \in Tasks : st'[u] \notin {"swap", "insert", "mem"}
        /\ \A u \in Tasks : st[u] \notin {"swap", "insert"} /\ (st[u] = "mem" => u = t)
    BY <1>1, <1>2, <1>3, <1>6 DEF PairInv, EvenInv, Working, WorkSteps
  <2>2. Failed' = Failed
    BY <1>1, <1>6 DEF Failed, Tasks
  <2>3. SealedInv(alone)'
    <3>1. \A w \in WalIds : imm[w] # None => imm[w] \in MemIds \ {m}
        BY <1>1, <1>2 DEF MemInv, ImmMemInv, DataOK
    <3> QED BY <1>5, <1>7, <2>1, <2>2, <3>1 DEF SealedInv, Whole
  <2>4. TurnInv'
    BY <2>1 DEF TurnInv
  <2>5. Even(g)
    <3>1. ~ Turning(g)
        BY <2>1 DEF Turning
    <3> QED BY <1>1, <1>3, <3>1 DEF PairInv, EvenInv
  <2>6. InWal(cur[g])' = InWal(cur[g])
    BY <1>5 DEF InWal
  <2>7. \A b \in InWal(cur[g]) : b \in rows[m] \/ b \in Failed \/ b = t
    <3>1. \A b \in InWal(cur[g]) : b \in Tasks
        BY <1>1, <2>5 DEF InWal, DataOK, Tasks, Even
    <3> QED BY <1>2, <2>1, <2>5, <3>1 DEF Even
  <2>8. Even(g)'
    BY <1>2, <1>5, <1>7, <2>1, <2>2, <2>5, <2>6, <2>7 DEF Even
  <2>9. EvenInv'
    <3>1. \A h : Live(h)' => h = g
        BY <1>3, <1>5 DEF Live
    <3> QED BY <2>1, <2>8, <3>1 DEF EvenInv, Tasks
  <2>10. FlushedInv'
    BY <1>3, <1>5 DEF FlushedInv
  <2> QED BY <2>3, <2>4, <2>9, <2>10
<1> QED BY <1>6, <1>8, <1>9, <1>10, <1>11, <1>12, PartsNext DEF Data

\* A writer is made with a WAL file and a memtable that nobody has seen.
LEMMA NewWriterData ==
    ASSUME NEW alone \in BOOLEAN, IInv(alone), NEW b \in Batches, NewWriter(b)
    PROVE  IInv(alone)'
<1>1. /\ ControlOK /\ Control /\ DataOK /\ WalInv /\ MemInv /\ KeepInv(alone) /\ PairInv(alone) /\ b \in Tasks
    BY Types DEF IInv, Tasks
<1>2. PICK g \in Writers, w \in WalIds, m \in MemIds : g = made + 1 /\ w = nextWal /\ m = nextMem
    BY <1>1, NoneIsNone DEF NewWriter, DataOK, ControlOK, WalIds, MemIds, Writers
<1>3. /\ Control' /\ ControlOK' /\ fl = NoFlush
      /\ st[b] = "new" /\ st'[b] = "held"
      /\ \A v \in Tasks \ {b} : st'[v] = st[v] /\ home'[v] = home[v]
      /\ \A v \in Tasks : ~ Working(v) /\ ~ Working(v)'
      /\ \A h : Live(h)' <=> h = g
      /\ \A h : ~ Live(h)
    BY <1>2, NewWriterControl
<1>4. /\ made' = g /\ nextWal' = w + 1 /\ nextMem' = m + 1
      /\ cur' = [cur EXCEPT ![g] = w] /\ mem' = [mem EXCEPT ![g] = m]
      /\ wals' = wals \cup {w}
      /\ UNCHANGED <<entries, rows, imm, stored, mode, buf, heldWal, heldMem, fl>>
    BY <1>2 DEF NewWriter
<1>5. /\ cur' \in [Writers -> WalIds \cup {None}] /\ mem' \in [Writers -> MemIds \cup {None}]
      /\ cur'[g] = w /\ \A h \in Writers \ {g} : cur'[h] = cur[h]
      /\ mem'[g] = m /\ \A h \in Writers \ {g} : mem'[h] = mem[h]
    BY <1>1, <1>4 DEF DataOK
<1>6. /\ w \in Int /\ w >= 1 /\ w <= MaxWal /\ MaxWal \in Int /\ w # None
      /\ m \in Int /\ m >= 1 /\ m <= MaxMem /\ MaxMem \in Int /\ m # None
      /\ made \in Int /\ g \in Int
      /\ \A h \in Writers : cur[h] \in Int /\ mem[h] \in Int /\ h \in Int
      /\ \A v \in WalIds : imm[v] \in Int
    BY <1>1, NoneIsNone DEF WalIds, MemIds, DataOK, ControlOK, None, Writers
<1>7. \A v \in Tasks : /\ st[v] \notin WorkSteps /\ st'[v] \notin WorkSteps
                       /\ heldWal[v] = None /\ heldMem[v] = None
    BY <1>1, <1>3 DEF Working, WorkSteps, WalInv, HeldWalInv, MemInv, HeldMemInv
<1>8. fl.at = "off" /\ fl.wal = None /\ fl.mem = None
    BY <1>3 DEF NoFlush
<1>9. DataOK'
    BY <1>1, <1>4, <1>5, <1>6 DEF DataOK
<1>10. entries[w] = {} /\ buf[w] = {} /\ imm[w] = None /\ rows[m] = {}
    BY <1>1, <1>2, <1>6 DEF WalInv, FreshWalInv, MemInv, FreshMemInv
<1>11. WalInv'
  <2>1. \A h \in Writers : cur[h] < w /\ (h > made => cur[h] = None)
    BY <1>1, <1>2 DEF WalInv, CurInv
  <2>2. \A h \in Writers : cur'[h] < w + 1 /\ (h > g => cur'[h] = None)
    BY <1>2, <1>5, <1>6, <2>1
  <2>3. \A h, k \in Writers : cur'[h] = cur'[k] /\ cur'[h] # None => h = k
    BY <1>1, <1>5, <1>6, <2>1 DEF WalInv, CurInv
  <2>4. CurInv'
    BY <1>4, <2>2, <2>3 DEF CurInv
  <2>5. HeldWalInv' /\ FlWalInv'
    BY <1>4, <1>7, <1>8 DEF HeldWalInv, FlWalInv, WorkSteps
  <2>6. OpenInv'
    BY <1>3, <1>4, <1>5, <1>6, <1>10 DEF OpenInv
  <2>7. FreshWalInv'
    <3>1. \A v \in WalIds : v >= w + 1 => v >= w
        BY <1>6 DEF WalIds
    <3> QED BY <1>1, <1>2, <1>4, <3>1 DEF WalInv, FreshWalInv
  <2> QED BY <2>4, <2>5, <2>6, <2>7 DEF WalInv
<1>12. MemInv'
  <2>1. \A h \in Writers : mem[h] < m /\ (h > made => mem[h] = None)
    BY <1>1, <1>2 DEF MemInv, MemOfInv
  <2>2. \A h \in Writers : mem'[h] < m + 1 /\ (h > g => mem'[h] = None)
    BY <1>2, <1>5, <1>6, <2>1
  <2>3. \A h, k \in Writers : mem'[h] = mem'[k] /\ mem'[h] # None => h = k
    BY <1>1, <1>5, <1>6, <2>1 DEF MemInv, MemOfInv
  <2>4. MemOfInv'
    BY <1>4, <2>2, <2>3 DEF MemOfInv
  <2>5. HeldMemInv' /\ FlMemInv'
    BY <1>4, <1>7, <1>8 DEF HeldMemInv, FlMemInv, WorkSteps
  <2>6. \A v \in WalIds : imm[v] # None => imm[v] < m + 1 /\ imm[v] # m
    BY <1>1, <1>2, <1>6 DEF MemInv, ImmMemInv
  <2>7. ImmMemInv'
    BY <1>1, <1>4, <1>5, <2>6 DEF MemInv, ImmMemInv
  <2>8. FreshMemInv'
    <3>1. \A x \in MemIds : x >= m + 1 => x >= m
        BY <1>6 DEF MemIds
    <3> QED BY <1>1, <1>2, <1>4, <3>1 DEF MemInv, FreshMemInv
  <2> QED BY <2>4, <2>5, <2>7, <2>8 DEF MemInv
<1>13. KeepInv(alone)'
  <2>1. ASSUME NEW x \in MemIds, Kept(x) PROVE Kept(x)'
    <3>1. CASE \E h \in Writers : (Live(h) \/ WalErrors) /\ mem[h] = x
      <4>1. PICK h \in Writers : (Live(h) \/ WalErrors) /\ mem[h] = x
        BY <3>1
      <4>2. mem[g] = None /\ ~ Live(h)
        BY <1>1, <1>2, <1>3, <1>6 DEF MemInv, MemOfInv
      <4>3. mem'[h] = x
        BY <1>5, <4>1, <4>2, NoneIsNone
      <4> QED BY <4>1, <4>2, <4>3 DEF Kept
    <3>2. CASE (\E v \in WalIds : imm[v] = x) \/ (\E u \in Tasks : heldMem[u] = x) \/ fl.mem = x
        BY <1>4, <3>2 DEF Kept
    <3> QED BY <2>1, <3>1, <3>2 DEF Kept
  <2>2. \A c \in Batches : st'[c] \in {"sync", "done"} => st[c] \in {"sync", "done"}
    BY <1>3 DEF Tasks
  <2> QED BY <1>1, <1>4, <2>1, <2>2 DEF KeepInv
<1>14. PairInv(alone)'
  <2> SUFFICES ASSUME mode PROVE SealedInv(alone)' /\ TurnInv' /\ EvenInv' /\ FlushedInv'
    BY <1>4 DEF PairInv
  <2>1. Failed' = Failed
    BY <1>1, <1>3 DEF Failed, Tasks
  <2>2. SealedInv(alone)'
    BY <1>1, <1>4, <2>1 DEF PairInv, SealedInv, Whole
  <2>3. TurnInv'
    BY <1>7 DEF TurnInv, WorkSteps
  <2>4. Even(g)'
    <3>1. InWal(w)' = {}
        BY <1>4, <1>10 DEF InWal
    <3> QED BY <1>4, <1>5, <1>10, <3>1 DEF Even
  <2>5. EvenInv'
    BY <1>3, <1>7, <2>4 DEF EvenInv, WorkSteps, Tasks
  <2>6. FlushedInv'
    BY <1>4, <1>8 DEF FlushedInv
  <2> QED BY <2>2, <2>3, <2>5, <2>6
<1> QED BY <1>3, <1>9, <1>11, <1>12, <1>13, <1>14, PartsNext DEF Data

\* Flush writes the rest of the buffer to the WAL file of the closed writer.
LEMMA FlushSyncData ==
    ASSUME NEW alone \in BOOLEAN, IInv(alone), FlushSync
    PROVE  IInv(alone)'
<1>1. /\ ControlOK /\ Control /\ DataOK /\ WalInv /\ MemInv /\ KeepInv(alone) /\ PairInv(alone)
    BY Types DEF IInv
<1>2. /\ Control' /\ ControlOK' /\ mode /\ fl.g \in Writers /\ Live(fl.g)
      /\ \A v \in Tasks : ~ Working(v)
    BY <1>1, FlushRestControl
<1>3. PICK g \in Writers, w \in WalIds : g = fl.g /\ w = cur[g]
    BY <1>2, LiveWriter
<1>4. imm[w] = None /\ w < nextWal /\ \A h : Live(h) => h = g
    BY <1>2, <1>3, LiveWriter
<1>5. /\ entries' = [entries EXCEPT ![w] = entries[w] \cup buf[w]]
      /\ buf' = [buf EXCEPT ![w] = {}]
      /\ fl.at = "sync" /\ fl' = [fl EXCEPT !.at = "swap", !.wal = w]
      /\ UNCHANGED <<wals, rows, imm, stored, mode, nextWal, nextMem, made, reg, cur, mem,
                     queue, alive, busy, st, home, heldWal, heldMem>>
    BY <1>3 DEF FlushSync, ids
<1>6. fl'.at = "swap" /\ fl'.g = g /\ fl'.wal = w /\ fl'.mem = fl.mem
    BY <1>1, <1>3, <1>5 DEF ControlOK, FlType
<1>7. /\ entries' \in [WalIds -> SUBSET Batches] /\ buf' \in [WalIds -> SUBSET Batches]
      /\ entries'[w] = InWal(w) /\ buf'[w] = {}
      /\ \A v \in WalIds \ {w} : entries'[v] = entries[v] /\ buf'[v] = buf[v]
    BY <1>1, <1>5 DEF DataOK, InWal
<1>8. DataOK'
    BY <1>1, <1>5, <1>7 DEF DataOK
<1>9. \A h : Live(h)' <=> Live(h)
    BY <1>3, <1>5, <1>6 DEF Live
<1>10. WalInv'
  <2>1. CurInv' /\ HeldWalInv' /\ OpenInv'
    BY <1>1, <1>5, <1>9 DEF WalInv, CurInv, HeldWalInv, OpenInv
  <2>2. FlWalInv'
    BY <1>3, <1>5, <1>6 DEF FlWalInv
  <2>3. FreshWalInv'
    <3>1. \A v \in WalIds : v >= nextWal => v # w
        BY <1>1, <1>4 DEF WalIds, DataOK
    <3> QED BY <1>1, <1>5, <1>7, <3>1 DEF WalInv, FreshWalInv
  <2> QED BY <2>1, <2>2, <2>3 DEF WalInv
<1>11. MemInv'
  <2>1. MemOfInv' /\ HeldMemInv' /\ ImmMemInv' /\ FreshMemInv'
    BY <1>1, <1>5 DEF MemInv, MemOfInv, HeldMemInv, ImmMemInv, FreshMemInv
  <2>2. FlMemInv'
    BY <1>1, <1>5, <1>6 DEF MemInv, FlMemInv
  <2> QED BY <2>1, <2>2 DEF MemInv
<1>12. KeepInv(alone)'
  <2>1. \A m : Kept(m)' <=> Kept(m)
    BY <1>5, <1>6, <1>9 DEF Kept
  <2> QED BY <1>1, <1>5, <2>1 DEF KeepInv
<1>13. PairInv(alone)'
  <2>1. /\ SealedInv(alone) /\ EvenInv
        /\ \A u \in Tasks : st[u] \notin WorkSteps
    BY <1>1, <1>2 DEF PairInv, Working
  <2>2. Failed' = Failed
    BY <1>5 DEF Failed
  <2>3. SealedInv(alone)'
    BY <1>4, <1>5, <1>7, <2>1, <2>2 DEF SealedInv, Whole
  <2>4. TurnInv'
    BY <1>5, <2>1 DEF TurnInv, WorkSteps
  <2>5. Even(g)
    <3>1. ~ Turning(g)
        BY <2>1 DEF Turning, WorkSteps
    <3> QED BY <1>2, <1>3, <1>5, <2>1, <3>1 DEF EvenInv
  <2>6. InWal(cur[g])' = InWal(w)
    BY <1>3, <1>5, <1>7 DEF InWal
  <2>7. Even(g)'
    BY <1>3, <1>5, <2>2, <2>5, <2>6 DEF Even
  <2>8. EvenInv'
    BY <1>4, <1>5, <1>9, <2>1, <2>7 DEF EvenInv, WorkSteps, Tasks
  <2>9. FlushedInv'
    BY <1>6, <1>7 DEF FlushedInv
  <2> QED BY <2>3, <2>4, <2>8, <2>9 DEF PairInv
<1> QED BY <1>2, <1>8, <1>10, <1>11, <1>12, <1>13, PartsNext DEF Data

\* A flush that cannot sync the file returns: nobody has the writer any more.
LEMMA FlushSyncErrorData ==
    ASSUME NEW alone \in BOOLEAN, IInv(alone), FlushSyncError
    PROVE  IInv(alone)'
<1>1. /\ ControlOK /\ Control /\ DataOK /\ WalInv /\ MemInv /\ KeepInv(alone) /\ PairInv(alone)
    BY Types DEF IInv
<1>2. /\ Control' /\ ControlOK' /\ mode /\ fl.g \in Writers /\ Live(fl.g)
      /\ \A v \in Tasks : ~ Working(v)
    BY <1>1, FlushRestControl
<1>3. PICK w \in WalIds : w = cur[fl.g] /\ imm[w] = None /\ w < nextWal
    BY <1>2, LiveWriter
<1>4. /\ entries' \in {entries, [entries EXCEPT ![w] = entries[w] \cup buf[w]]}
      /\ buf' = [buf EXCEPT ![w] = {}] /\ WalErrors
      /\ fl.at = "sync" /\ fl' = NoFlush
      /\ UNCHANGED <<wals, rows, imm, stored, mode, nextWal, nextMem, made, reg, cur, mem,
                     queue, alive, busy, st, home, heldWal, heldMem>>
    BY <1>3 DEF FlushSyncError, ids
<1>5. fl'.at = "off" /\ fl'.wal = None /\ fl'.mem = None /\ fl.mem = None
    BY <1>1, <1>4 DEF NoFlush, MemInv, FlMemInv
<1>6. /\ entries' \in [WalIds -> SUBSET Batches] /\ buf' \in [WalIds -> SUBSET Batches]
      /\ \A v \in WalIds \ {w} : entries'[v] = entries[v] /\ buf'[v] = buf[v]
    BY <1>1, <1>4 DEF DataOK
<1>7. DataOK'
    BY <1>1, <1>4, <1>6 DEF DataOK
<1>8. \A h : ~ Live(h)'
    BY <1>1, <1>5, FlushRestControl
<1>9. \A u \in Tasks : st[u] \notin WorkSteps
    BY <1>2 DEF Working
<1>10. WalInv'
  <2>1. CurInv' /\ HeldWalInv' /\ OpenInv' /\ FlWalInv'
    BY <1>1, <1>4, <1>5, <1>8 DEF WalInv, CurInv, HeldWalInv, OpenInv, FlWalInv
  <2>2. FreshWalInv'
    <3>1. \A v \in WalIds : v >= nextWal => v # w
        BY <1>1, <1>3 DEF WalIds, DataOK
    <3> QED BY <1>1, <1>4, <1>6, <3>1 DEF WalInv, FreshWalInv
  <2> QED BY <2>1, <2>2 DEF WalInv
<1>11. MemInv'
  <2>1. MemOfInv' /\ HeldMemInv' /\ ImmMemInv' /\ FreshMemInv'
    BY <1>1, <1>4 DEF MemInv, MemOfInv, HeldMemInv, ImmMemInv, FreshMemInv
  <2>2. FlMemInv'
    BY <1>5 DEF FlMemInv
  <2> QED BY <2>1, <2>2 DEF MemInv
<1>12. KeepInv(alone)'
  <2>1. \A m \in MemIds : Kept(m) => Kept(m)'
    BY <1>4, <1>5, NoneIsNone DEF Kept
  <2> QED BY <1>1, <1>4, <2>1 DEF KeepInv
<1>13. PairInv(alone)'
  <2>1. SealedInv(alone) /\ Failed' = Failed
    BY <1>1, <1>2, <1>4 DEF PairInv, Failed
  <2>2. SealedInv(alone)'
    BY <1>3, <1>4, <1>6, <2>1 DEF SealedInv, Whole
  <2>3. TurnInv' /\ EvenInv'
    BY <1>4, <1>8, <1>9 DEF TurnInv, EvenInv, WorkSteps, Tasks
  <2>4. FlushedInv'
    BY <1>5 DEF FlushedInv
  <2> QED BY <2>2, <2>3, <2>4 DEF PairInv
<1> QED BY <1>2, <1>7, <1>10, <1>11, <1>12, <1>13, PartsNext DEF Data

\* Flush takes the memtable of the closed writer.
LEMMA FlushSwapData ==
    ASSUME NEW alone \in BOOLEAN, IInv(alone), FlushSwap
    PROVE  IInv(alone)'
<1>1. /\ ControlOK /\ Control /\ DataOK /\ WalInv /\ MemInv /\ KeepInv(alone) /\ PairInv(alone)
    BY Types DEF IInv
<1>2. /\ Control' /\ ControlOK' /\ mode /\ fl.g \in Writers /\ Live(fl.g)
      /\ \A v \in Tasks : ~ Working(v)
    BY <1>1, FlushRestControl
<1>3. PICK g \in Writers, old \in MemIds, n \in MemIds : g = fl.g /\ old = mem[g] /\ n = nextMem
  <2>1. nextMem \in MemIds
    BY <1>1, NoneIsNone DEF FlushSwap, DataOK, MemIds
  <2> QED BY <1>2, <2>1, LiveWriter
<1>4. old < n /\ g <= made /\ \A h : Live(h) => h = g
    BY <1>2, <1>3, LiveWriter
<1>5. /\ mem' = [mem EXCEPT ![g] = n] /\ nextMem' = n + 1
      /\ fl.at = "swap" /\ fl' = [fl EXCEPT !.at = "insert", !.mem = old]
      /\ UNCHANGED <<wals, entries, rows, imm, stored, mode, nextWal, made, buf, reg, cur,
                     queue, alive, busy, st, home, heldWal, heldMem>>
    BY <1>3 DEF FlushSwap
<1>6. fl'.at = "insert" /\ fl'.g = g /\ fl'.wal = fl.wal /\ fl'.mem = old
    BY <1>1, <1>3, <1>5 DEF ControlOK, FlType
<1>7. /\ mem' \in [Writers -> MemIds \cup {None}]
      /\ mem'[g] = n /\ \A h \in Writers \ {g} : mem'[h] = mem[h]
    BY <1>1, <1>5 DEF DataOK
<1>8. /\ n \in Int /\ old \in Int /\ made \in Int /\ n <= MaxMem /\ MaxMem \in Int /\ n >= 1
      /\ n # None /\ old # None
      /\ \A h \in Writers : mem[h] \in Int /\ mem'[h] \in Int /\ h \in Int
      /\ \A w \in WalIds : imm[w] \in Int
    BY <1>1, <1>7, NoneIsNone DEF MemIds, DataOK, ControlOK, None, Writers
<1>9. DataOK'
    BY <1>1, <1>5, <1>7, <1>8 DEF DataOK
<1>10. \A h : Live(h)' <=> Live(h)
    BY <1>3, <1>5, <1>6 DEF Live
<1>11. \A u \in Tasks : st[u] \notin WorkSteps /\ heldMem[u] = None
    BY <1>1, <1>2 DEF Working, WorkSteps, MemInv, HeldMemInv
<1>12. WalInv'
  <2>1. CurInv' /\ HeldWalInv' /\ FreshWalInv'
    BY <1>1, <1>5 DEF WalInv, CurInv, HeldWalInv, FreshWalInv
  <2>2. FlWalInv'
    BY <1>1, <1>3, <1>5, <1>6 DEF WalInv, FlWalInv
  <2>3. OpenInv'
    BY <1>1, <1>4, <1>5, <1>7, <1>8, <1>10 DEF WalInv, OpenInv
  <2> QED BY <2>1, <2>2, <2>3 DEF WalInv
<1>13. MemInv'
  <2>1. \A h \in Writers : mem[h] < n /\ (h > made => mem[h] = None)
    BY <1>1, <1>3 DEF MemInv, MemOfInv
  <2>2. \A h \in Writers : mem'[h] < n + 1 /\ (h > made => mem'[h] = None)
    BY <1>4, <1>7, <1>8, <2>1
  <2>3. \A h, k \in Writers : mem'[h] = mem'[k] /\ mem'[h] # None => h = k
    BY <1>1, <1>7, <1>8, <2>1 DEF MemInv, MemOfInv
  <2>4. MemOfInv'
    BY <1>5, <2>2, <2>3 DEF MemOfInv
  <2>5. HeldMemInv'
    BY <1>5, <1>11 DEF HeldMemInv, WorkSteps
  <2>6. FlMemInv'
    <3>1. \A h \in Writers : mem[h] = old => h = g
        BY <1>1, <1>3, <1>8 DEF MemInv, MemOfInv
    <3>2. \A h \in Writers : mem'[h] # old
        BY <1>4, <1>7, <1>8, <3>1
    <3>3. old < n + 1
        BY <1>4, <1>8
    <3> QED BY <1>5, <1>6, <1>8, <3>2, <3>3 DEF FlMemInv
  <2>7. ImmMemInv'
    <3>1. \A w \in WalIds : imm[w] # None => imm[w] < n + 1 /\ imm[w] # n
        BY <1>1, <1>3, <1>8 DEF MemInv, ImmMemInv
    <3> QED BY <1>1, <1>5, <1>7, <3>1 DEF MemInv, ImmMemInv
  <2>8. FreshMemInv'
    <3>1. \A m \in MemIds : m >= n + 1 => m >= n
        BY <1>8 DEF MemIds
    <3> QED BY <1>1, <1>3, <1>5, <3>1 DEF MemInv, FreshMemInv
  <2> QED BY <2>4, <2>5, <2>6, <2>7, <2>8 DEF MemInv
<1>14. KeepInv(alone)'
  <2>1. fl.mem = None
    BY <1>1, <1>5 DEF MemInv, FlMemInv
  <2>2. ASSUME NEW m \in MemIds, Kept(m) PROVE Kept(m)'
    <3>1. CASE \E h \in Writers : (Live(h) \/ WalErrors) /\ mem[h] = m
      <4>1. PICK h \in Writers : (Live(h) \/ WalErrors) /\ mem[h] = m
        BY <3>1
      <4>2. CASE h = g
        BY <1>3, <1>6, <4>1, <4>2 DEF Kept
      <4>3. CASE h # g
        BY <1>4, <1>7, <4>1, <4>3 DEF Kept
      <4> QED BY <4>2, <4>3
    <3>2. CASE (\E w \in WalIds : imm[w] = m) \/ \E u \in Tasks : heldMem[u] = m
        BY <1>5, <3>2 DEF Kept
    <3> QED BY <2>1, <2>2, <3>1, <3>2, NoneIsNone DEF Kept
  <2> QED BY <1>1, <1>5, <2>2 DEF KeepInv
<1>15. PairInv(alone)'
  <2>1. SealedInv(alone) /\ EvenInv /\ FlushedInv
    BY <1>1, <1>2 DEF PairInv
  <2>2. Failed' = Failed
    BY <1>5 DEF Failed
  <2>3. SealedInv(alone)'
    BY <1>5, <2>1, <2>2 DEF SealedInv, Whole
  <2>4. TurnInv'
    BY <1>5, <1>11 DEF TurnInv, WorkSteps
  <2>5. EvenInv'
    BY <1>5, <1>6, <1>11 DEF EvenInv, WorkSteps, Tasks
  <2>6. Even(g)
    <3>1. ~ Turning(g)
        BY <1>11 DEF Turning, WorkSteps
    <3> QED BY <1>2, <1>3, <1>5, <2>1, <3>1 DEF EvenInv
  <2>7. fl.wal = cur[g] /\ buf[fl.wal] = {} /\ InWal(fl.wal) = entries[fl.wal]
    BY <1>1, <1>3, <1>5, <2>1 DEF WalInv, FlWalInv, FlushedInv, InWal
  <2>8. \A b \in entries[fl.wal] : b \in rows[old] \/ b \in Failed
    <3>1. \A b \in entries[fl.wal] : b \in Tasks
        BY <1>1, <2>6, <2>7 DEF Even, DataOK, Tasks
    <3> QED BY <1>3, <1>11, <2>6, <2>7, <3>1 DEF Even, WorkSteps
  <2>9. Whole(fl.wal, old)
    BY <1>3, <2>6, <2>7, <2>8 DEF Whole, Even
  <2>10. rows[n] = {}
    BY <1>1, <1>3, <1>8 DEF MemInv, FreshMemInv
  <2>11. FlushedInv'
    <3>1. Whole(fl.wal, fl.mem)'
        BY <1>5, <1>6, <2>2, <2>9 DEF Whole
    <3> QED BY <1>5, <1>6, <1>7, <2>10, <3>1 DEF FlushedInv
  <2> QED BY <2>3, <2>4, <2>5, <2>11 DEF PairInv
<1> QED BY <1>2, <1>9, <1>12, <1>13, <1>14, <1>15, PartsNext DEF Data

\* Flush puts the two into IMMUTABLES; the writer is gone.
LEMMA FlushInsertData ==
    ASSUME NEW alone \in BOOLEAN, IInv(alone), FlushInsert
    PROVE  IInv(alone)'
<1>1. /\ ControlOK /\ Control /\ DataOK /\ WalInv /\ MemInv /\ KeepInv(alone) /\ PairInv(alone)
    BY Types DEF IInv
<1>2. /\ Control' /\ ControlOK' /\ mode /\ fl.g \in Writers /\ Live(fl.g)
      /\ (\A v \in Tasks : ~ Working(v)) /\ (\A h : Live(h) => h = fl.g)
    BY <1>1, FlushRestControl
<1>3. PICK g \in Writers, w \in WalIds, m \in MemIds : g = fl.g /\ w = fl.wal /\ m = fl.mem
  <2>1. fl.at = "insert"
    BY DEF FlushInsert
  <2>2. fl.mem # None /\ fl.wal = cur[fl.g]
    BY <1>1, <2>1 DEF WalInv, FlWalInv, MemInv, FlMemInv
  <2>3. fl.mem \in MemIds
    BY <1>1, <2>2 DEF ControlOK, FlType
  <2> QED BY <1>2, <2>2, <2>3, LiveWriter
<1>4. /\ imm' = [imm EXCEPT ![w] = m] /\ fl.at = "insert" /\ fl' = NoFlush
      /\ UNCHANGED <<wals, entries, rows, stored, mode, nextWal, nextMem, made, buf, reg,
                     cur, mem, queue, alive, busy, st, home, heldWal, heldMem>>
    BY <1>3 DEF FlushInsert, ids
<1>5. fl'.at = "off" /\ fl'.wal = None /\ fl'.mem = None
    BY <1>4 DEF NoFlush
<1>6. /\ w = cur[g] /\ imm[w] = None /\ w < nextWal
    BY <1>1, <1>2, <1>3, <1>4, LiveWriter DEF WalInv, FlWalInv
<1>7. /\ m < nextMem /\ \A h \in Writers : mem[h] # m
    BY <1>1, <1>3, <1>4 DEF MemInv, FlMemInv
<1>8. /\ imm' \in [WalIds -> MemIds \cup {None}]
      /\ imm'[w] = m /\ \A v \in WalIds \ {w} : imm'[v] = imm[v]
    BY <1>1, <1>4 DEF DataOK
<1>9. DataOK'
    BY <1>1, <1>4, <1>8 DEF DataOK
<1>10. \A h : ~ Live(h)'
    BY <1>1, <1>5, FlushRestControl
<1>11. \A u \in Tasks : st[u] \notin WorkSteps /\ heldMem[u] = None /\ heldWal[u] = None
    BY <1>1, <1>2 DEF Working, WorkSteps, MemInv, HeldMemInv, WalInv, HeldWalInv
<1>12. WalInv'
  <2>1. CurInv' /\ HeldWalInv' /\ OpenInv' /\ FlWalInv'
    BY <1>1, <1>4, <1>5, <1>10, <1>11 DEF WalInv, CurInv, HeldWalInv, OpenInv, FlWalInv, WorkSteps
  <2>2. FreshWalInv'
    <3>1. \A v \in WalIds : v >= nextWal => v # w
        BY <1>1, <1>6 DEF WalIds, DataOK
    <3> QED BY <1>1, <1>4, <1>8, <3>1 DEF WalInv, FreshWalInv
  <2> QED BY <2>1, <2>2 DEF WalInv
<1>13. MemInv'
  <2>1. MemOfInv' /\ HeldMemInv' /\ FlMemInv' /\ FreshMemInv'
    BY <1>1, <1>4, <1>5 DEF MemInv, MemOfInv, HeldMemInv, FlMemInv, FreshMemInv
  <2>2. ImmMemInv'
    BY <1>1, <1>4, <1>7, <1>8 DEF MemInv, ImmMemInv
  <2> QED BY <2>1, <2>2 DEF MemInv
<1>14. KeepInv(alone)'
  <2>1. rows[mem[g]] = {}
    BY <1>1, <1>2, <1>3, <1>4 DEF PairInv, FlushedInv
  <2>2. ASSUME NEW x \in MemIds, Kept(x), rows[x] # {} PROVE Kept(x)'
    <3>1. CASE \E h \in Writers : (Live(h) \/ WalErrors) /\ mem[h] = x
      <4>1. WalErrors
        BY <1>2, <1>3, <2>1, <2>2, <3>1
      <4> QED BY <1>4, <3>1, <4>1 DEF Kept
    <3>2. CASE \E v \in WalIds : imm[v] = x
        BY <1>6, <1>8, <3>2, NoneIsNone DEF Kept
    <3>3. CASE \E u \in Tasks : heldMem[u] = x
        BY <1>4, <3>3 DEF Kept
    <3>4. CASE fl.mem = x
        BY <1>3, <1>8, <3>4 DEF Kept
    <3> QED BY <2>2, <3>1, <3>2, <3>3, <3>4 DEF Kept
  <2> QED BY <1>1, <1>4, <2>2 DEF KeepInv
<1>15. PairInv(alone)'
  <2>1. SealedInv(alone) /\ Whole(w, m)
    BY <1>1, <1>2, <1>3, <1>4 DEF PairInv, FlushedInv
  <2>2. Failed' = Failed
    BY <1>4 DEF Failed
  <2>3. SealedInv(alone)'
    BY <1>4, <1>8, <2>1, <2>2 DEF SealedInv, Whole
  <2>4. TurnInv' /\ EvenInv'
    BY <1>4, <1>10, <1>11 DEF TurnInv, EvenInv, WorkSteps, Tasks
  <2>5. FlushedInv'
    BY <1>5 DEF FlushedInv
  <2> QED BY <2>3, <2>4, <2>5 DEF PairInv
<1> QED BY <1>2, <1>9, <1>12, <1>13, <1>14, <1>15, PartsNext DEF Data

\* The persist side takes a memtable over and removes the file it came with.
LEMMA PersistedData ==
    ASSUME IInv(TRUE), NEW w \in WalIds, Persisted(w)
    PROVE  IInv(TRUE)'
<1>1. /\ ControlOK /\ Control /\ DataOK /\ WalInv /\ MemInv /\ KeepInv(TRUE) /\ PairInv(TRUE)
    BY Types DEF IInv
<1>2. /\ imm[w] # None /\ stored' = stored \cup rows[imm[w]] /\ wals' = wals \ {w}
      /\ imm' = [imm EXCEPT ![w] = None]
      /\ UNCHANGED <<entries, rows, mode, nextWal, nextMem, made, buf, reg, cur, mem, queue,
                     alive, busy, st, home, heldWal, heldMem, fl>>
    BY DEF Persisted, own, ids
<1>3. Control' /\ ControlOK'
  <2>1. ControlOK'
    BY <1>1, <1>2 DEF ControlOK, FlType
  <2>2. MapInv' /\ FlushInv' /\ WorkInv' /\ QueueInv'
    BY <1>1, <1>2 DEF Control, MapInv, FlushInv, WorkInv, QueueInv, Live, Working
  <2> QED BY <2>1, <2>2 DEF Control
<1>4. /\ imm' \in [WalIds -> MemIds \cup {None}]
      /\ imm'[w] = None /\ \A v \in WalIds \ {w} : imm'[v] = imm[v]
      /\ imm[w] \in MemIds
    BY <1>1, <1>2 DEF DataOK
<1>5. DataOK'
    BY <1>1, <1>2, <1>4 DEF DataOK
<1>6. \A h : Live(h)' <=> Live(h)
    BY <1>2 DEF Live
<1>7. WalInv'
  <2>1. CurInv' /\ FlWalInv'
    BY <1>1, <1>2 DEF WalInv, CurInv, FlWalInv
  <2>2. \A v \in WalIds : imm[v] = None => imm'[v] = None
    BY <1>4
  <2>3. OpenInv'
    BY <1>1, <1>2, <1>6, <2>2, NoneIsNone DEF WalInv, OpenInv, DataOK
  <2>4. FreshWalInv'
    BY <1>1, <1>2, <2>2 DEF WalInv, FreshWalInv
  <2>5. HeldWalInv'
    <3>1. \A u \in Tasks : heldWal[u] # None => imm'[heldWal[u]] = None
        BY <1>1, <2>2 DEF WalInv, HeldWalInv, DataOK
    <3> QED BY <1>1, <1>2, <3>1 DEF WalInv, HeldWalInv
  <2> QED BY <2>1, <2>3, <2>4, <2>5 DEF WalInv
<1>8. MemInv'
  <2>1. MemOfInv' /\ HeldMemInv' /\ FlMemInv' /\ FreshMemInv'
    BY <1>1, <1>2 DEF MemInv, MemOfInv, HeldMemInv, FlMemInv, FreshMemInv
  <2>2. ImmMemInv'
    BY <1>1, <1>2, <1>4 DEF MemInv, ImmMemInv
  <2> QED BY <2>1, <2>2 DEF MemInv
<1>9. KeepInv(TRUE)'
  <2>1. ASSUME NEW m \in MemIds, Kept(m), m # imm[w] PROVE Kept(m)'
    BY <1>2, <1>4, <1>6, <2>1 DEF Kept
  <2>2. ASSUME NEW b \in Batches, st[b] \in {"sync", "done"}
        PROVE  b \in stored' \/ \E m \in MemIds : Kept(m)' /\ b \in rows[m]
    <3>1. CASE b \in stored
        BY <1>2, <3>1
    <3>2. CASE \E m \in MemIds : Kept(m) /\ b \in rows[m]
        BY <1>2, <2>1, <3>2
    <3> QED BY <1>1, <2>2, <3>1, <3>2 DEF KeepInv
  <2> QED BY <1>2, <2>2 DEF KeepInv
<1>10. PairInv(TRUE)'
  <2> SUFFICES ASSUME mode PROVE SealedInv(TRUE)' /\ TurnInv' /\ EvenInv' /\ FlushedInv'
    BY <1>2 DEF PairInv
  <2>1. SealedInv(TRUE) /\ TurnInv /\ EvenInv /\ FlushedInv
    BY <1>1 DEF PairInv
  <2>2. Failed' = Failed
    BY <1>2 DEF Failed
  <2>3. \A v, m : v # w /\ Whole(v, m) => Whole(v, m)'
    BY <1>2, <2>2 DEF Whole
  <2>4. \A g : Live(g) => cur[g] # w
    BY <1>2, LiveWriter
  <2>5. \A u \in Tasks : st[u] \in {"swap", "insert"} => heldWal[u] # w /\ cur[home[u]] # w
    <3>1. \A u \in Tasks : st[u] \in {"swap", "insert"} => heldWal[u] # w
        BY <1>1, <1>2, NoneIsNone DEF WalInv, HeldWalInv
    <3>2. \A u \in Tasks : st[u] \in {"swap", "insert"} => Live(home[u])
        BY WorkingTask DEF Working, WorkSteps
    <3> QED BY <2>4, <3>1, <3>2
  <2>6. SealedInv(TRUE)'
    BY <1>2, <1>4, <2>1, <2>3 DEF SealedInv
  <2>7. TurnInv'
    <3> SUFFICES ASSUME NEW u \in Tasks, st[u] \in {"swap", "insert"}
                 PROVE  /\ st[u] = "swap" => Whole(heldWal[u], mem[home[u]])'
                        /\ st[u] = "insert" => Whole(heldWal[u], heldMem[u])' /\ rows[mem[home[u]]] = {}
                        /\ cur[home[u]] \in wals' /\ InWal(cur[home[u]])' = {}
        BY <1>2 DEF TurnInv
    <3>1. cur[home[u]] \in wals' /\ InWal(cur[home[u]])' = {}
        BY <1>2, <2>1, <2>5 DEF TurnInv, InWal
    <3>2. st[u] = "swap" => Whole(heldWal[u], mem[home[u]])'
        BY <1>2, <2>1, <2>2, <2>5 DEF TurnInv, Whole
    <3>3. st[u] = "insert" => Whole(heldWal[u], heldMem[u])' /\ rows[mem[home[u]]] = {}
        BY <1>2, <2>1, <2>2, <2>5 DEF TurnInv, Whole
    <3> QED BY <3>1, <3>2, <3>3
  <2>8. EvenInv'
    <3>1. \A g : Turning(g)' <=> Turning(g)
        BY <1>2 DEF Turning
    <3>2. \A v : InWal(v)' = InWal(v)
        BY <1>2 DEF InWal
    <3>3. \A g \in Writers : Live(g) /\ Even(g) => Even(g)'
        BY <1>2, <2>2, <2>4, <3>2 DEF Even
    <3>4. \A b \in Batches : st[b] = "mem" => b \in InWal(cur[home[b]])'
        BY <1>2, <2>1 DEF EvenInv, InWal
    <3> QED BY <1>2, <1>6, <2>1, <3>1, <3>3, <3>4 DEF EvenInv
  <2>9. FlushedInv'
    <3>1. fl.at = "insert" => fl.wal # w
      <4> SUFFICES ASSUME fl.at = "insert" PROVE fl.wal # w
        OBVIOUS
      <4>1. fl.g \in 0..made /\ fl.g # None /\ fl.g \in Writers
        BY <1>1, NoneIsNone DEF ControlOK, FlType, Control, FlushInv, Writers, None
      <4> QED BY <1>1, <2>4, <4>1 DEF Live, WalInv, FlWalInv
    <3> QED BY <1>2, <2>1, <2>2, <3>1 DEF FlushedInv, Whole
  <2> QED BY <2>6, <2>7, <2>8, <2>9
<1> QED BY <1>3, <1>5, <1>7, <1>8, <1>9, <1>10, PartsNext DEF Data

----------------------------------------------------------------------------
(* The invariant of the writer                                              *)

\* It holds when the process starts: nothing exists yet.
LEMMA WriterInit == Init => IInv(TRUE)
<1> SUFFICES ASSUME Init PROVE IInv(TRUE)
    OBVIOUS
<1>1. MaxWal \in Nat /\ MaxMem \in Nat /\ MaxWriter \in Nat /\ None = 0
    BY NoneIsNone DEF None
<1>2. DataOK
    BY <1>1 DEF Init, OwnInit, DataOK
<1>3. ControlOK
    BY <1>1 DEF Init, OwnInit, ControlOK, FlType, NoFlush, States
<1>4. (\A g : ~ Live(g)) /\ (\A t \in Tasks : ~ Working(t) /\ st[t] = "new") /\ fl = NoFlush
    BY <1>1, NoneIsNone DEF Init, OwnInit, Live, Working, WorkSteps, NoFlush
<1>5. Control
  <2>1. MapInv /\ FlushInv
    BY <1>1, <1>4 DEF Init, OwnInit, MapInv, FlushInv, NoFlush
  <2>2. WorkInv
    BY <1>4 DEF Init, OwnInit, WorkInv
  <2>3. QueueInv
    BY DEF Init, OwnInit, QueueInv
  <2> QED BY <2>1, <2>2, <2>3 DEF Control
<1>6. WalInv
  <2>1. CurInv
    BY <1>1 DEF Init, OwnInit, CurInv, Writers
  <2>2. HeldWalInv /\ FlWalInv /\ OpenInv /\ FreshWalInv
    BY <1>4 DEF Init, OwnInit, HeldWalInv, FlWalInv, OpenInv, FreshWalInv, NoFlush
  <2> QED BY <2>1, <2>2 DEF WalInv
<1>7. MemInv
  <2>1. MemOfInv
    BY <1>1 DEF Init, OwnInit, MemOfInv, Writers
  <2>2. HeldMemInv /\ FlMemInv /\ ImmMemInv /\ FreshMemInv
    BY <1>4 DEF Init, OwnInit, HeldMemInv, FlMemInv, ImmMemInv, FreshMemInv, NoFlush
  <2> QED BY <2>1, <2>2 DEF MemInv
<1>8. KeepInv(TRUE)
    BY <1>4 DEF KeepInv, Tasks
<1>9. PairInv(TRUE)
  <2>1. SealedInv(TRUE)
    BY DEF Init, SealedInv
  <2>2. TurnInv /\ EvenInv
    BY <1>4 DEF TurnInv, EvenInv, Tasks
  <2>3. FlushedInv
    BY <1>4 DEF FlushedInv, NoFlush
  <2> QED BY <2>1, <2>2, <2>3 DEF PairInv
<1> QED BY <1>2, <1>3, <1>5, <1>6, <1>7, <1>8, <1>9, Parts DEF Data

\* A request or a signal on its way to the writer leaves files and memtables alone.
LEMMA RequestKeeps ==
    ASSUME NEW alone \in BOOLEAN, IInv(alone), NEW u \in Tasks,
           \/ u \in Batches /\ (GetWriter(u) \/ WriteDirect(u) \/ Reject(u) \/ Enqueue(u))
           \/ u \in Ticks /\ CheckTtl(u)
    PROVE  IInv(alone)'
<1>1. /\ Control' /\ ControlOK'
      /\ st[u] \in {"new", "held"} /\ st'[u] \in {"held", "check", "failed", "queued"}
      /\ \A v \in Tasks \ {u} : st'[v] = st[v] /\ home'[v] = home[v]
  <2>1. CASE u \in Batches /\ (GetWriter(u) \/ WriteDirect(u) \/ Reject(u))
    BY <2>1, RequestControl
  <2>2. CASE (u \in Batches /\ Enqueue(u)) \/ (u \in Ticks /\ CheckTtl(u))
    BY <2>2, SendControl
  <2> QED BY <2>1, <2>2
<1>2. UNCHANGED <<wals, entries, rows, imm, nextWal, nextMem, made, buf, cur, mem,
                  heldWal, heldMem, stored, mode, reg, fl>>
    BY DEF GetWriter, WriteDirect, Reject, Enqueue, CheckTtl, shared, ids
<1>3. \A h : Live(h)' <=> Live(h)
    BY <1>2 DEF Live
<1>4. Data(alone)'
    BY <1>1, <1>2, <1>3, Frame
<1> QED BY <1>1, <1>4, PartsNext

\* So does the loop when it takes a task or the Close from its channel.
LEMMA LoopKeeps ==
    ASSUME NEW alone \in BOOLEAN, IInv(alone), NEW g \in Writers, Loop(g)
    PROVE  IInv(alone)'
<1>1. /\ Control' /\ ControlOK'
      /\ \A v \in Tasks : st'[v] = st[v] \/ (st[v] = "queued" /\ st'[v] \in {"check", "dropped"})
    BY ReceiveControl, ReceiveCloseControl DEF Loop
<1>2. UNCHANGED <<wals, entries, rows, imm, nextWal, nextMem, made, buf, cur, mem,
                  heldWal, heldMem, stored, mode, reg, fl, home>>
    BY DEF Loop, Receive, ReceiveClose, shared, ids
<1>3. \A h : Live(h)' <=> Live(h)
    BY <1>2 DEF Live
<1>4. Data(alone)'
    BY <1>1, <1>2, <1>3, Frame
<1> QED BY <1>1, <1>4, PartsNext

\* So does a task that finds no reason to rotate.
LEMMA SkipRotateKeeps ==
    ASSUME NEW alone \in BOOLEAN, IInv(alone), NEW t \in Tasks, SkipRotate(t)
    PROVE  IInv(alone)'
<1>1. PICK s \in {"wal", "done"} : s = AfterRotate(t) /\ (t \in Batches => s = "wal")
    BY DEF AfterRotate
<1>2. /\ st[t] = "check" /\ Working(t) /\ Goto(t, s)
      /\ UNCHANGED <<wals, entries, rows, imm, nextWal, nextMem, made, buf, cur, mem,
                     heldWal, heldMem, stored, mode, reg, fl, home, queue, alive>>
    BY <1>1 DEF SkipRotate, shared, ids, Working, WorkSteps
<1>3. /\ Control' /\ ControlOK'
      /\ st'[t] = s /\ \A u \in Tasks \ {t} : st'[u] = st[u]
    BY <1>2, GotoNext
<1>4. \A h : Live(h)' <=> Live(h)
    BY <1>2 DEF Live
<1>5. Data(alone)'
    BY <1>1, <1>2, <1>3, <1>4, Frame
<1> QED BY <1>3, <1>5, PartsNext

\* And flush until the loop has ended.
LEMMA FlushKeeps ==
    ASSUME NEW alone \in BOOLEAN, IInv(alone), NoDirectFlush, FlushStart \/ FlushClose
    PROVE  IInv(alone)'
<1>1. /\ Control' /\ ControlOK' /\ \A h : Live(h)' <=> Live(h)
      /\ fl.at \in {"off", "close"} /\ fl'.at \in {"close", "sync"}
      /\ fl'.wal = fl.wal /\ fl'.mem = fl.mem
  <2>1. CASE FlushStart
    <3>1. fl.wal = None /\ fl.mem = None
        BY <2>1 DEF FlushStart, NoFlush
    <3> QED BY <2>1, <3>1, FlushStartControl
  <2>2. CASE FlushClose
    BY <2>2, FlushCloseControl
  <2> QED BY <2>1, <2>2
<1>2. UNCHANGED <<wals, entries, rows, imm, nextWal, nextMem, made, buf, cur, mem,
                  heldWal, heldMem, stored, mode, st, home>>
    BY DEF FlushStart, FlushClose, shared, ids
<1>3. Data(alone)'
    BY <1>1, <1>2, Frame
<1> QED BY <1>1, <1>3, PartsNext

\* Every step of the requests, the signals, the loops and flush keeps the
\* invariant, alone and inside the ingester.
LEMMA WriterNextKeeps ==
    ASSUME NEW alone \in BOOLEAN, IInv(alone), NoDirectFlush, WriterNext
    PROVE  IInv(alone)'
<1>1. ASSUME NEW b \in Batches, Request(b) PROVE IInv(alone)'
  <2>1. b \in Tasks
    BY DEF Tasks
  <2>2. CASE NewWriter(b)
    BY <2>2, NewWriterData
  <2>3. CASE GetWriter(b) \/ WriteDirect(b) \/ Enqueue(b) \/ Reject(b)
    BY <2>1, <2>3, RequestKeeps
  <2> QED BY <1>1, <2>2, <2>3 DEF Request
<1>2. ASSUME NEW b \in Batches, Write(b) PROVE IInv(alone)'
    BY <1>2, WriteWalData, WriteMemData DEF Write
<1>3. ASSUME NEW t \in Ticks, CheckTtl(t) PROVE IInv(alone)'
    BY <1>3, RequestKeeps DEF Tasks
<1>4. ASSUME NEW t \in Tasks, Rotate(t) PROVE IInv(alone)'
    BY <1>4, SkipRotateKeeps, RotateWalData, RotateWalErrorData, RotateMemData, RotateInsertData DEF Rotate
<1>5. ASSUME NEW g \in Writers, Loop(g) PROVE IInv(alone)'
    BY <1>5, LoopKeeps
<1>6. CASE FlushStart \/ FlushRest
    BY <1>6, FlushKeeps, FlushSyncData, FlushSyncErrorData, FlushSwapData, FlushInsertData DEF FlushRest
<1> QED BY <1>1, <1>2, <1>3, <1>4, <1>5, <1>6 DEF WriterNext

\* And so does the persist side, or a step of something else.
LEMMA WriterStep ==
    ASSUME IInv(TRUE), NoDirectFlush, [Next]_vars
    PROVE  IInv(TRUE)'
<1>1. CASE WriterNext
    BY <1>1, WriterNextKeeps
<1>2. ASSUME NEW w \in WalIds, Persisted(w) PROVE IInv(TRUE)'
    BY <1>2, PersistedData
<1>3. CASE UNCHANGED vars
  <2>1. UNCHANGED <<wals, entries, rows, imm, nextWal, nextMem, made, buf, cur, mem, heldWal,
                    heldMem, stored, mode, reg, fl, home, st, queue, alive, busy>>
    BY <1>3 DEF vars, shared, own, ids
  <2>2. \A h : Live(h)' <=> Live(h)
    BY <2>1 DEF Live
  <2>3. Data(TRUE)'
    BY <2>1, <2>2, Frame
  <2>4. ControlOK /\ Control
    BY Parts
  <2>5. ControlOK'
    BY <2>1, <2>4 DEF ControlOK, FlType
  <2>6. MapInv' /\ FlushInv' /\ WorkInv' /\ QueueInv'
    BY <2>1, <2>4 DEF Control, MapInv, FlushInv, WorkInv, QueueInv, Live, Working
  <2> QED BY <2>3, <2>5, <2>6, PartsNext DEF Control
<1> QED BY <1>1, <1>2, <1>3 DEF Next

\* Every behaviour of the writer keeps the inductive invariant, in both modes of
\* the queue, whatever the tasks, the ids and the queue's capacity are.
THEOREM WriterInvariant == ASSUME NoDirectFlush PROVE Spec => []IInv(TRUE)
<1>1. Init => IInv(TRUE)
    BY WriterInit
<1>2. IInv(TRUE) /\ [Next]_vars => IInv(TRUE)'
    BY WriterStep
<1> QED BY <1>1, <1>2, PTL DEF Spec

\* The variables keep their types: no id is used before it is drawn and every
\* task is at a step of the code (writer.rs).
THEOREM WriterTypes == ASSUME NoDirectFlush PROVE Spec => []TypeOK
<1>1. IInv(TRUE) => TypeOK
    BY DEF IInv
<1> QED BY <1>1, WriterInvariant, PTL

(* With the write queue the memtable that rotate or flush puts under a WAL   *)
(* path has every batch of that file but the failed ones, and no other, and  *)
(* the file is complete on disk: persist may delete it (Writer::rotate,      *)
(* Writer::flush).                                                           *)
THEOREM Pairs == ASSUME NoDirectFlush PROVE Spec => []Paired
<1>1. IInv(TRUE) => Paired
    BY DEF IInv, PairInv, SealedInv, Whole, Paired
<1> QED BY <1>1, WriterInvariant, PTL

\* A memtable that is kept is one the system still reads, or one that a flush
\* left with its writer.
LEMMA KeptReachable ==
    ASSUME IInv(TRUE), NEW m \in MemIds, Kept(m), NEW b \in rows[m]
    PROVE  Reachable(m) \/ Stranded(b)
<1>1. FlushInv /\ MapInv /\ MemInv
    BY DEF IInv, Control
<1>2. CASE \E g \in Writers : Live(g) /\ mem[g] = m
    BY <1>2, NoneIsNone DEF Live, Reachable
<1>3. CASE \E g \in Writers : WalErrors /\ ~ Live(g) /\ mem[g] = m
    BY <1>1, <1>3, NoneIsNone DEF MapInv, Stranded
<1>4. CASE fl.mem = m
  <2>1. fl.at = "insert"
    BY <1>1, <1>4, NoneIsNone DEF MemInv, FlMemInv
  <2> QED BY <1>4, <2>1 DEF Reachable
<1>5. CASE (\E w \in WalIds : imm[w] = m) \/ \E t \in Tasks : heldMem[t] = m
    BY <1>5 DEF Reachable
<1> QED BY <1>2, <1>3, <1>4, <1>5 DEF Kept

\* A queued task is in the channel of a writer whose loop runs.
InChannel(t) == home[t] \in alive /\ \E i \in 1..Len(queue[home[t]]) : queue[home[t]][i] = t
QueuedInv == \A t \in Tasks : st[t] = "queued" => InChannel(t)

\* Appending to a channel keeps what is in it.
LEMMA SendKeeps ==
    ASSUME ControlOK, NEW g \in Writers, NEW x \in Tasks \cup {Close},
           queue' = [queue EXCEPT ![g] = Append(@, x)]
    PROVE  /\ \A h \in Writers : \A y : (\E i \in 1..Len(queue[h]) : queue[h][i] = y) =>
                                       \E i \in 1..Len(queue'[h]) : queue'[h][i] = y
           /\ \E i \in 1..Len(queue'[g]) : queue'[g][i] = x
<1>1. queue \in [Writers -> Seq(Tasks \cup {Close})]
    BY DEF ControlOK
<1>2. queue[g] \in Seq(Tasks \cup {Close})
    BY <1>1
<1>3. queue'[g] = Append(queue[g], x) /\ \A h \in Writers \ {g} : queue'[h] = queue[h]
    BY <1>1
<1>4. /\ Len(queue'[g]) = Len(queue[g]) + 1 /\ queue'[g][Len(queue[g]) + 1] = x
      /\ \A i \in 1..Len(queue[g]) : queue'[g][i] = queue[g][i]
      /\ Len(queue[g]) \in Nat
    BY <1>2, <1>3
<1>5. /\ \A i \in 1..Len(queue[g]) : i \in 1..Len(queue'[g])
      /\ Len(queue[g]) + 1 \in 1..Len(queue'[g])
    BY <1>4
<1>6. ASSUME NEW y, \E i \in 1..Len(queue[g]) : queue[g][i] = y
      PROVE  \E i \in 1..Len(queue'[g]) : queue'[g][i] = y
    BY <1>4, <1>5, <1>6
<1> QED BY <1>3, <1>4, <1>5, <1>6

\* A queued task stays in its channel until the loop takes it or closes.
LEMMA QueuedStep ==
    ASSUME IInv(TRUE), QueuedInv, NoDirectFlush, [Next]_vars
    PROVE  QueuedInv'
<1>1. ControlOK /\ Control /\ alive \subseteq Writers
  <2>1. ControlOK /\ Control
    BY Types DEF IInv
  <2>2. made \in 0..MaxWriter /\ alive \subseteq 1..made /\ MaxWriter \in Nat
    BY <2>1, NoneIsNone DEF ControlOK
  <2> QED BY <2>1, <2>2 DEF Writers
<1>2. ASSUME \A t \in Tasks : st'[t] = "queued" => st[t] = "queued" /\ home'[t] = home[t],
             queue' = queue, alive \subseteq alive'
      PROVE  QueuedInv'
    BY <1>2 DEF QueuedInv, InChannel
<1>3. ASSUME NEW t \in Tasks, NEW s, s # "queued", Goto(t, s), UNCHANGED <<home, queue, alive>>
      PROVE  QueuedInv'
  <2>1. \A u \in Tasks : st'[u] = "queued" => st[u] = "queued"
    BY <1>1, <1>3 DEF Goto, ControlOK
  <2> QED BY <1>2, <1>3, <2>1
<1>4. ASSUME NEW b \in Batches, Request(b) PROVE QueuedInv'
  <2>1. b \in Tasks
    BY DEF Tasks
  <2>2. CASE GetWriter(b) \/ NewWriter(b) \/ WriteDirect(b) \/ Reject(b)
    <3>1. /\ \A u \in Tasks : st'[u] = "queued" => st[u] = "queued" /\ home'[u] = home[u]
          /\ queue' = queue /\ alive \subseteq alive'
        BY <1>1, <2>1, <2>2 DEF GetWriter, NewWriter, WriteDirect, Reject, ControlOK
    <3> QED BY <1>2, <3>1
  <2>3. CASE Enqueue(b)
    <3>1. /\ home[b] \in alive /\ home[b] \in Writers /\ UNCHANGED <<home, alive>>
          /\ queue' = [queue EXCEPT ![home[b]] = Append(@, b)]
          /\ \A u \in Tasks \ {b} : st'[u] = st[u]
        BY <1>1, <2>1, <2>3 DEF Enqueue, ControlOK
    <3>2. \A u \in Tasks : InChannel(u) => home[u] \in Writers
        BY <1>1 DEF InChannel
    <3>3. /\ \A h \in Writers : \A y : (\E i \in 1..Len(queue[h]) : queue[h][i] = y) =>
                                      \E i \in 1..Len(queue'[h]) : queue'[h][i] = y
          /\ \E i \in 1..Len(queue'[home[b]]) : queue'[home[b]][i] = b
        BY <1>1, <2>1, <3>1, SendKeeps
    <3> SUFFICES ASSUME NEW u \in Tasks, st'[u] = "queued" PROVE InChannel(u)'
        BY DEF QueuedInv
    <3>4. CASE u = b
        BY <3>1, <3>3, <3>4 DEF InChannel
    <3>5. CASE u # b
      <4>1. InChannel(u)
        BY <3>1, <3>5 DEF QueuedInv
      <4> QED BY <3>1, <3>2, <3>3, <4>1 DEF InChannel
    <3> QED BY <3>4, <3>5
  <2> QED BY <1>4, <2>2, <2>3 DEF Request
<1>5. ASSUME NEW b \in Batches, Write(b) PROVE QueuedInv'
  <2>1. b \in Tasks
    BY DEF Tasks
  <2>2. PICK s \in {"mem", "failed", "sync", "done"} : Goto(b, s) /\ UNCHANGED <<home, queue, alive>>
    BY <1>5 DEF Write, WriteWal, WriteWalError, WriteMem, SyncWal, SyncWalError
  <2> QED BY <1>3, <2>1, <2>2
<1>6. ASSUME NEW t \in Ticks, CheckTtl(t) PROVE QueuedInv'
  <2>1. /\ t \in Tasks /\ reg \in alive /\ reg \in Writers /\ UNCHANGED alive
        /\ queue' = [queue EXCEPT ![reg] = Append(@, t)]
        /\ home'[t] = reg /\ \A u \in Tasks \ {t} : st'[u] = st[u] /\ home'[u] = home[u]
    BY <1>1, <1>6 DEF CheckTtl, ControlOK, Tasks
  <2>2. \A u \in Tasks : InChannel(u) => home[u] \in Writers
    BY <1>1 DEF InChannel
  <2>3. /\ \A h \in Writers : \A y : (\E i \in 1..Len(queue[h]) : queue[h][i] = y) =>
                                    \E i \in 1..Len(queue'[h]) : queue'[h][i] = y
        /\ \E i \in 1..Len(queue'[reg]) : queue'[reg][i] = t
    BY <1>1, <2>1, SendKeeps
  <2> SUFFICES ASSUME NEW u \in Tasks, st'[u] = "queued" PROVE InChannel(u)'
    BY DEF QueuedInv
  <2>4. CASE u = t
    BY <2>1, <2>3, <2>4 DEF InChannel
  <2>5. CASE u # t
    <3>1. InChannel(u)
        BY <2>1, <2>5 DEF QueuedInv
    <3> QED BY <2>1, <2>2, <2>3, <2>5, <3>1 DEF InChannel
  <2> QED BY <2>4, <2>5
<1>7. ASSUME NEW t \in Tasks, Rotate(t) PROVE QueuedInv'
  <2>1. PICK s \in {"swap", "insert", "wal", "done", "failed"} : Goto(t, s) /\ UNCHANGED <<home, queue, alive>>
    BY <1>7 DEF Rotate, SkipRotate, RotateWal, RotateWalError, RotateMem, RotateInsert, AfterRotate
  <2> QED BY <1>3, <2>1
<1>8. ASSUME NEW g \in Writers, Receive(g) PROVE QueuedInv'
  <2>1. /\ queue[g] \in Seq(Tasks \cup {Close}) /\ queue[g] # <<>>
        /\ UNCHANGED <<home, alive>> /\ Head(queue[g]) = queue[g][1]
    BY <1>1, <1>8 DEF Receive, ControlOK
  <2>2. /\ queue'[g] = Tail(queue[g]) /\ \A h \in Writers \ {g} : queue'[h] = queue[h]
        /\ Head(queue[g]) \in Tasks /\ st'[Head(queue[g])] = "check"
        /\ \A u \in Tasks \ {Head(queue[g])} : st'[u] = st[u]
    BY <1>1, <1>8, <2>1 DEF Receive, ControlOK
  <2>3. /\ Len(queue'[g]) = Len(queue[g]) - 1 /\ Len(queue[g]) \in Nat
        /\ \A i \in 1..(Len(queue[g]) - 1) : queue'[g][i] = queue[g][i + 1]
    BY <2>1, <2>2
  <2>4. ASSUME NEW u \in Tasks, u # queue[g][1], \E i \in 1..Len(queue[g]) : queue[g][i] = u
        PROVE  \E i \in 1..Len(queue'[g]) : queue'[g][i] = u
    <3>1. PICK i \in 1..Len(queue[g]) : queue[g][i] = u
        BY <2>4
    <3>2. i - 1 \in 1..Len(queue'[g]) /\ queue'[g][i - 1] = u
        BY <2>3, <2>4, <3>1
    <3> QED BY <3>2
  <2>5. \A u \in Tasks : InChannel(u) => home[u] \in Writers
    BY <1>1 DEF InChannel
  <2> SUFFICES ASSUME NEW u \in Tasks, st'[u] = "queued" PROVE InChannel(u)'
    BY DEF QueuedInv
  <2>6. u # queue[g][1] /\ InChannel(u)
    BY <2>1, <2>2 DEF QueuedInv
  <2>7. home'[u] = home[u] /\ home[u] \in alive' /\ home[u] \in Writers
    BY <2>1, <2>5, <2>6 DEF InChannel
  <2>8. \E i \in 1..Len(queue'[home[u]]) : queue'[home[u]][i] = u
    <3>1. \E i \in 1..Len(queue[home[u]]) : queue[home[u]][i] = u
        BY <2>6 DEF InChannel
    <3>2. CASE home[u] = g
        BY <2>4, <2>6, <3>1, <3>2
    <3>3. CASE home[u] # g
        BY <2>2, <2>7, <3>1, <3>3
    <3> QED BY <3>2, <3>3
  <2> QED BY <2>7, <2>8 DEF InChannel
<1>9. ASSUME NEW g \in Writers, ReceiveClose(g) PROVE QueuedInv'
  <2>1. /\ queue[g] \in Seq(Tasks \cup {Close}) /\ queue[g] # <<>>
        /\ UNCHANGED home /\ alive' = alive \ {g} /\ queue[g][1] = Close
        /\ Len(queue[g]) \in Nat
        /\ \A h \in Writers \ {g} : queue'[h] = queue[h]
        /\ \A u \in Tasks : st'[u] = IF \E i \in 2..Len(queue[g]) : queue[g][i] = u
                                      THEN "dropped" ELSE st[u]
    BY <1>1, <1>9 DEF ReceiveClose, ControlOK
  <2> SUFFICES ASSUME NEW u \in Tasks, st'[u] = "queued" PROVE InChannel(u)'
    BY DEF QueuedInv
  <2>2. InChannel(u) /\ ~ \E i \in 2..Len(queue[g]) : queue[g][i] = u
    BY <2>1 DEF QueuedInv
  <2>3. u # Close /\ home[u] \in Writers
    BY <1>1, <2>2, NoneIsNone DEF InChannel
  <2>4. home[u] # g
    <3>1. \A i \in 1..Len(queue[g]) : i = 1 \/ i \in 2..Len(queue[g])
        BY <2>1
    <3> QED BY <2>1, <2>2, <2>3, <3>1 DEF InChannel
  <2> QED BY <2>1, <2>2, <2>3, <2>4 DEF InChannel
<1>10. CASE FlushClose
  <2>1. CASE queue' = queue
    BY <1>2, <1>10, <2>1 DEF FlushClose
  <2>2. CASE fl.g \in alive /\ queue' = [queue EXCEPT ![fl.g] = Append(@, Close)]
    <3>1. fl.g \in Writers /\ UNCHANGED <<home, alive, st>>
        BY <1>1, <1>10, <2>2 DEF FlushClose, ControlOK
    <3>2. \A u \in Tasks : InChannel(u) => home[u] \in Writers
        BY <1>1 DEF InChannel
    <3> QED BY <1>1, <2>2, <3>1, <3>2, SendKeeps DEF QueuedInv, InChannel
  <2> QED BY <1>10, <2>1, <2>2 DEF FlushClose
<1>11. CASE \/ FlushStart \/ FlushSync \/ FlushSyncError \/ FlushSwap \/ FlushInsert
            \/ (\E w \in WalIds : Persisted(w)) \/ UNCHANGED vars
  <2>1. UNCHANGED <<st, home, queue, alive>>
    BY <1>11 DEF FlushStart, FlushSync, FlushSyncError, FlushSwap, FlushInsert, Persisted, vars, own
  <2> QED BY <1>2, <2>1
<1> QED BY <1>4, <1>5, <1>6, <1>7, <1>8, <1>9, <1>10, <1>11 DEF Next, WriterNext, Loop, FlushRest

(* A batch that write_batch answered with Ok is kept, in both modes: in the  *)
(* channel or at work from the enqueue on when there is a queue, persisted   *)
(* or in memory once consume_processed is through.  What the code loses is   *)
(* listed at AnsweredKept.                                                   *)
THEOREM AnsweredStays == ASSUME NoDirectFlush PROVE Spec => []AnsweredKept
<1>1. ASSUME IInv(TRUE), QueuedInv PROVE AnsweredKept
  <2>1. KeepInv(TRUE) /\ WorkInv
    BY <1>1 DEF IInv, Control
  <2> SUFFICES ASSUME NEW b \in Batches
               PROVE  /\ mode /\ st[b] = "queued" => InChannel(b)
                      /\ mode /\ st[b] \in WorkSteps => home[b] \in alive /\ busy[home[b]] = b
                      /\ st[b] = "done" => \/ b \in stored
                                           \/ \E m \in MemIds : Reachable(m) /\ b \in rows[m]
                                           \/ Stranded(b)
    BY DEF AnsweredKept, InChannel
  <2>2. b \in Tasks
    BY DEF Tasks
  <2>3. st[b] = "done" => b \in stored \/ \E m \in MemIds : Kept(m) /\ b \in rows[m]
    BY <2>1 DEF KeepInv
  <2>4. \A m \in MemIds : Kept(m) /\ b \in rows[m] => Reachable(m) \/ Stranded(b)
    BY <1>1, KeptReachable
  <2> QED BY <1>1, <2>1, <2>2, <2>3, <2>4 DEF QueuedInv, WorkInv, Working
<1>2. IInv(TRUE) /\ QueuedInv => AnsweredKept
    BY <1>1
<1>3. Init => QueuedInv
    BY DEF Init, OwnInit, QueuedInv
<1>4. IInv(TRUE) /\ QueuedInv /\ [Next]_vars => QueuedInv'
    BY QueuedStep
<1> QED BY <1>2, <1>3, <1>4, WriterInvariant, PTL DEF Spec

----------------------------------------------------------------------------
(* The writer inside the ingester, with the queue                           *)

\* A WAL file, a memtable that the writer has and did not put into IMMUTABLES.
Hands(w) == (\E g \in Writers : Live(g) /\ cur[g] = w) \/ \E t \in Tasks : heldWal[t] = w
InUse(m) ==
    \/ \E g \in Writers : mem[g] = m
    \/ \E t \in Tasks : heldMem[t] = m
    \/ fl.mem = m

\* The batch has not reached the WAL file, or never will.
Ahead(b) ==
    \/ st[b] \in {"new", "held", "queued", "check", "swap", "insert", "wal"}
    \/ st[b] = "failed" /\ ~WalErrors

\* A batch goes to one WAL file, once, and what is to be synced is in the
\* buffer of the file that will be.
BatchInv ==
    /\ \A b \in Batches : Ahead(b) => \A w \in WalIds : b \notin InWal(w)
    /\ \A v, w \in WalIds : buf[v] \cap entries[w] = {} /\ (v # w => buf[v] \cap buf[w] = {})
    /\ \A b \in Batches : st[b] = "sync" => b \in InWal(cur[home[b]])

\* A persist side of many steps: it removes WAL files and entries of IMMUTABLES
\* that the writer has given away, and fills memtables with new ids.
LEMMA OutsideKeeps ==
    ASSUME IInv(FALSE), mode,
           UNCHANGED <<entries, nextWal, made, buf, reg, cur, mem, queue, alive, busy, st,
                       home, heldWal, heldMem, fl, mode>>,
           stored' \subseteq Batches, wals' \subseteq wals,
           \A w \in WalIds : Hands(w) => w \in wals',
           imm' \in [WalIds -> MemIds \cup {None}],
           \A w \in WalIds : imm'[w] \in {imm[w], None},
           rows' \in [MemIds -> SUBSET Batches],
           nextMem' \in 1..(MaxMem + 1), nextMem <= nextMem',
           \A m \in MemIds : rows'[m] = rows[m] \/ (nextMem <= m /\ m < nextMem')
    PROVE  IInv(FALSE)'
<1>1. ControlOK /\ Control /\ DataOK /\ WalInv /\ MemInv /\ PairInv(FALSE)
    BY Types DEF IInv
<1>2. ControlOK' /\ Control'
  <2>1. ControlOK'
    BY <1>1 DEF ControlOK, FlType
  <2>2. MapInv' /\ FlushInv' /\ WorkInv' /\ QueueInv'
    BY <1>1 DEF Control, MapInv, FlushInv, WorkInv, QueueInv, Live, Working
  <2> QED BY <2>1, <2>2 DEF Control
<1>3. DataOK'
    BY <1>1 DEF DataOK
<1>4. /\ \A h : Live(h)' <=> Live(h)
      /\ \A w : InWal(w)' = InWal(w)
      /\ \A u \in Tasks : Working(u) => Live(home[u])
      /\ Failed' = Failed
    BY <1>1 DEF Live, InWal, Failed, Control, WorkInv
<1>5. WalInv'
  <2>1. CurInv' /\ FlWalInv'
    BY <1>1 DEF WalInv, CurInv, FlWalInv
  <2>2. HeldWalInv'
    <3>1. \A t \in Tasks : heldWal[t] \in WalIds \cup {None}
        BY <1>1 DEF DataOK
    <3>2. \A t \in Tasks : heldWal[t] # None => imm'[heldWal[t]] = None
        BY <1>1, <3>1 DEF WalInv, HeldWalInv
    <3> QED BY <1>1, <3>2 DEF WalInv, HeldWalInv
  <2>3. OpenInv'
    <3>1. \A g \in Writers : Live(g) => cur[g] # None /\ cur[g] \in WalIds /\ mem[g] # None
                                        /\ imm'[cur[g]] = None
        BY <1>1 DEF WalInv, OpenInv, DataOK
    <3> QED BY <1>4, <3>1 DEF OpenInv
  <2>4. FreshWalInv'
    BY <1>1 DEF WalInv, FreshWalInv
  <2> QED BY <2>1, <2>2, <2>3, <2>4 DEF WalInv
<1>6. nextMem \in Int /\ nextMem' \in Int
    BY <1>1 DEF DataOK
<1>7. MemInv'
  <2>1. \A m \in MemIds \cup {None} : m \in Int
    BY NoneIsNone DEF MemIds, None
  <2>2. MemOfInv'
    <3>1. \A g \in Writers : mem[g] \in MemIds \cup {None} /\ mem[g] < nextMem
        BY <1>1 DEF DataOK, MemInv, MemOfInv
    <3> QED BY <1>1, <1>6, <2>1, <3>1 DEF MemInv, MemOfInv
  <2>3. HeldMemInv' /\ FlMemInv'
    <3>1. \A t \in Tasks : heldMem[t] \in MemIds \cup {None}
        BY <1>1 DEF DataOK
    <3>2. fl.mem \in MemIds \cup {None}
        BY <1>1 DEF ControlOK, FlType
    <3>3. HeldMemInv'
        BY <1>1, <1>6, <2>1, <3>1 DEF MemInv, HeldMemInv
    <3> QED BY <1>1, <1>6, <2>1, <3>2, <3>3 DEF MemInv, FlMemInv
  <2>4. ImmMemInv'
    <3>1. \A w \in WalIds : imm'[w] # None => imm[w] = imm'[w] /\ imm[w] \in MemIds
        BY <1>1 DEF DataOK
    <3> QED BY <1>1, <1>6, <2>1, <3>1 DEF MemInv, ImmMemInv
  <2>5. FreshMemInv'
    BY <1>1, <1>6, <2>1 DEF MemInv, FreshMemInv
  <2> QED BY <2>2, <2>3, <2>4, <2>5 DEF MemInv
<1>8. \A m \in MemIds : InUse(m) => rows'[m] = rows[m]
  <2>1. \A m \in MemIds : m \in Int /\ m # None
    BY NoneIsNone DEF MemIds
  <2> QED BY <1>1, <1>6, <2>1 DEF InUse, MemInv, MemOfInv, HeldMemInv, FlMemInv
<1>9. /\ \A g \in Writers : Live(g) =>
            /\ cur[g] \in WalIds /\ cur[g] \in wals' /\ mem[g] \in MemIds
            /\ rows'[mem[g]] = rows[mem[g]]
      /\ \A t \in Tasks : heldWal[t] # None => heldWal[t] \in WalIds /\ heldWal[t] \in wals'
      /\ \A t \in Tasks : heldMem[t] # None => rows'[heldMem[t]] = rows[heldMem[t]]
      /\ fl.mem # None => rows'[fl.mem] = rows[fl.mem]
  <2>1. \A g \in Writers : Live(g) => cur[g] \in WalIds /\ mem[g] \in MemIds
    BY <1>1 DEF WalInv, OpenInv, DataOK
  <2>2. fl.mem \in MemIds \cup {None} /\ \A t \in Tasks : heldMem[t] \in MemIds \cup {None}
    BY <1>1 DEF DataOK, ControlOK, FlType
  <2>3. \A t \in Tasks : heldWal[t] # None => heldWal[t] \in WalIds
    BY <1>1 DEF DataOK
  <2> QED BY <1>8, <2>1, <2>2, <2>3 DEF Hands, InUse
<1>10. KeepInv(FALSE)'
    BY DEF KeepInv
<1>11. PairInv(FALSE)'
  <2>1. SealedInv(FALSE)' /\ TurnInv /\ EvenInv /\ FlushedInv
    BY <1>1 DEF PairInv, SealedInv
  <2>2. TurnInv'
    <3>1. ASSUME NEW t \in Tasks, st[t] \in {"swap", "insert"}
          PROVE  /\ heldWal[t] \in wals' /\ cur[home[t]] \in wals' /\ home[t] \in Writers
                 /\ rows'[mem[home[t]]] = rows[mem[home[t]]]
                 /\ st[t] = "insert" => rows'[heldMem[t]] = rows[heldMem[t]]
      <4>1. Live(home[t]) /\ home[t] \in Writers
        BY <1>4, <3>1 DEF Working, WorkSteps, Live
      <4>2. heldWal[t] # None /\ (st[t] = "insert" => heldMem[t] # None)
        BY <1>1, <3>1 DEF WalInv, HeldWalInv, MemInv, HeldMemInv
      <4> QED BY <1>9, <4>1, <4>2
    <3> QED BY <1>4, <2>1, <3>1 DEF TurnInv, Whole
  <2>3. EvenInv'
    <3>1. \A g \in Writers : Live(g) /\ Even(g) => Even(g)'
        BY <1>4, <1>9 DEF Even
    <3>2. \A g : Turning(g)' <=> Turning(g)
        BY DEF Turning
    <3> QED BY <1>4, <2>1, <3>1, <3>2 DEF EvenInv, InWal
  <2>4. FlushedInv'
    <3>1. fl.at = "insert" => /\ fl.wal \in wals' /\ rows'[fl.mem] = rows[fl.mem]
                              /\ rows'[mem[fl.g]] = rows[mem[fl.g]]
      <4> SUFFICES ASSUME fl.at = "insert"
                   PROVE  /\ fl.wal \in wals' /\ rows'[fl.mem] = rows[fl.mem]
                          /\ rows'[mem[fl.g]] = rows[mem[fl.g]]
        OBVIOUS
      <4>1. fl.wal = cur[fl.g] /\ fl.mem # None
        BY <1>1 DEF WalInv, FlWalInv, MemInv, FlMemInv
      <4>2. fl.g \in Writers
        <5>1. fl.g # None /\ fl.g \in 0..made /\ made \in 0..MaxWriter /\ MaxWriter \in Nat
            BY <1>1, NoneIsNone DEF Control, FlushInv, ControlOK, FlType
        <5> QED BY <5>1 DEF Writers, None
      <4>3. Live(fl.g)
        BY <4>2 DEF Live
      <4> QED BY <1>9, <4>1, <4>2, <4>3
    <3> QED BY <1>4, <2>1, <3>1 DEF FlushedInv, Whole
  <2> QED BY <2>1, <2>2, <2>3, <2>4 DEF PairInv
<1> QED BY <1>2, <1>3, <1>5, <1>7, <1>10, <1>11, PartsNext DEF Data

\* The process is killed: no writer is left, and no memtable.
LEMMA KillKeeps ==
    ASSUME IInv(FALSE), mode, OwnCrash, UNCHANGED <<wals, entries, stored, mode>>,
           imm' = [w \in WalIds |-> None], rows' = [m \in MemIds |-> {}]
    PROVE  IInv(FALSE)'
<1>1. ControlOK /\ Control /\ DataOK /\ WalInv /\ MemInv
    BY Types DEF IInv
<1>2. /\ reg' = None /\ alive' = {} /\ fl' = NoFlush
      /\ \A g \in Writers : cur'[g] = None /\ mem'[g] = None /\ queue'[g] = <<>> /\ busy'[g] = None
      /\ \A t \in Tasks : home'[t] = None /\ heldWal'[t] = None /\ heldMem'[t] = None
      /\ UNCHANGED <<nextWal, nextMem, made>>
    BY DEF OwnCrash, ids
<1>3. \A t \in Tasks : st'[t] \in {"new", "done", "failed", "dropped"}
    BY <1>1 DEF OwnCrash, ControlOK, States
<1>4. ControlOK'
  <2>1. st' \in [Tasks -> States]
    BY <1>3 DEF OwnCrash, States
  <2>2. /\ queue' \in [Writers -> Seq(Tasks \cup {Close})] /\ busy' \in [Writers -> Tasks \cup {None}]
        /\ home' \in [Tasks -> 0..made]
    BY <1>1, NoneIsNone DEF OwnCrash, ControlOK, None
  <2>3. fl' \in FlType'
    BY <1>1, <1>2, NoneIsNone DEF ControlOK, FlType, NoFlush, None
  <2>4. /\ made' \in 0..MaxWriter /\ 0..made' = 0..made
        /\ mode' \in Modes /\ Modes' = Modes
    BY <1>1, <1>2 DEF ControlOK
  <2>5. reg' \in 0..made' /\ alive' \subseteq 1..made'
    BY <1>1, <1>2, NoneIsNone DEF ControlOK, None
  <2>6. home' \in [Tasks -> 0..made']
    BY <2>2, <2>4
  <2> QED BY <2>1, <2>2, <2>3, <2>4, <2>5, <2>6 DEF ControlOK
<1>5. (\A h : ~ Live(h)') /\ \A t \in Tasks : ~ Working(t)'
    BY <1>2, <1>3, NoneIsNone DEF Live, NoFlush, Working, WorkSteps
<1>6. MapInv' /\ FlushInv' /\ WorkInv' /\ QueueInv'
  <2>1. MapInv' /\ FlushInv'
    BY <1>2 DEF MapInv, FlushInv, NoFlush
  <2>2. WorkInv'
    BY <1>2, <1>3, <1>5 DEF WorkInv
  <2>3. QueueInv'
    BY <1>2 DEF QueueInv
  <2> QED BY <2>1, <2>2, <2>3
<1>7. DataOK'
    BY <1>1, <1>2 DEF DataOK, OwnCrash
<1>8. nextWal \in Int /\ nextMem \in Int /\ None < nextWal /\ None < nextMem
    BY <1>1 DEF DataOK, None
<1>9. WalInv'
  <2>1. CurInv' /\ HeldWalInv' /\ FlWalInv' /\ OpenInv'
    BY <1>2, <1>3, <1>5, <1>8 DEF CurInv, HeldWalInv, FlWalInv, OpenInv, NoFlush
  <2>2. FreshWalInv'
    BY <1>1, <1>2 DEF WalInv, FreshWalInv, OwnCrash
  <2> QED BY <2>1, <2>2 DEF WalInv
<1>10. MemInv'
    BY <1>2, <1>3, <1>8 DEF MemInv, MemOfInv, HeldMemInv, FlMemInv, ImmMemInv, FreshMemInv, NoFlush
<1>11. PairInv(FALSE)' /\ KeepInv(FALSE)'
    BY <1>2, <1>3, <1>5 DEF KeepInv, PairInv, SealedInv, TurnInv, EvenInv, FlushedInv, NoFlush, Tasks
<1> QED BY <1>4, <1>6, <1>7, <1>9, <1>10, <1>11, PartsNext DEF Data, Control

\* What a step of the writer is to the persist side: nothing, ...
Unseen(B) == \A w \in WalIds : B \cap entries[w] = {}
Hidden ==
    /\ UNCHANGED <<wals, entries, imm>>
    /\ \A m \in MemIds : rows'[m] = rows[m] \/ InUse(m)
\* ... batches that reach a WAL file of the writer, ...
Grows ==
    /\ UNCHANGED <<wals, rows, imm>>
    /\ \E w \in WalIds, B \in SUBSET Batches :
          /\ Hands(w) /\ imm[w] = None /\ Unseen(B)
          /\ entries' = [entries EXCEPT ![w] = @ \cup B]
\* ... a new file, and the end of the previous one, ...
Creates ==
    /\ UNCHANGED <<rows, imm>>
    /\ nextWal \in WalIds /\ nextWal < nextWal' /\ wals' = wals \cup {nextWal}
    /\ \E v \in WalIds \cup {None}, B \in SUBSET Batches :
          /\ Unseen(B) /\ IF v = None THEN B = {} ELSE Hands(v) /\ imm[v] = None
          /\ entries' = [u \in WalIds |-> IF u = v THEN entries[u] \cup B ELSE entries[u]]
\* ... or a file and a memtable of the same batches that go to IMMUTABLES.
HandsOver ==
    /\ UNCHANGED <<wals, entries, rows>>
    /\ \E w \in WalIds, m \in MemIds :
          /\ Hands(w) /\ imm[w] = None /\ InUse(m) /\ m < nextMem /\ ~ InUse(m)'
          /\ WalErrors \/ rows[m] = entries[w]
          /\ imm' = [imm EXCEPT ![w] = m]

\* Ids grow, what the writer has it had or just made, and a synced write that is
\* answered is in one of its files.
Draws ==
    /\ nextWal <= nextWal' /\ nextMem <= nextMem'
    /\ \A w \in WalIds : Hands(w)' => Hands(w) \/ (w = nextWal /\ w \in wals')
    /\ \A m \in MemIds : InUse(m)' => InUse(m) \/ nextMem <= m

Answers ==
    Fsync => \A b \in Batches : st'[b] = "done" =>
        st[b] = "done" \/ \E w \in WalIds : Hands(w)' /\ b \in entries'[w]

Shows == (Hidden \/ Grows \/ Creates \/ HandsOver) /\ Draws /\ Answers

\* A step that leaves the files, the memtables and who has them alone.
LEMMA QuietShows ==
    ASSUME IInv(FALSE), BatchInv,
           UNCHANGED <<wals, entries, rows, imm, nextWal, nextMem, buf, cur, mem, heldWal, heldMem>>,
           fl'.mem = fl.mem, \A h : Live(h)' <=> Live(h),
           \A b \in Batches : /\ Ahead(b)' => Ahead(b)
                              /\ st'[b] = "sync" => st[b] = "sync" /\ home'[b] = home[b]
                              /\ st'[b] = "done" => st[b] = "done"
    PROVE  BatchInv' /\ Shows
<1>1. \A w : InWal(w)' = InWal(w)
    BY DEF InWal
<1>2. BatchInv'
    BY <1>1 DEF BatchInv
<1>3. nextWal <= nextWal' /\ nextMem <= nextMem'
    BY Types DEF IInv, DataOK
<1>4. (\A w : Hands(w)' <=> Hands(w)) /\ \A m : InUse(m)' <=> InUse(m)
    BY DEF Hands, InUse
<1> QED BY <1>2, <1>3, <1>4 DEF Shows, Hidden, Draws, Answers

\* Requests, signals, loops, and flush until the loop has ended.
LEMMA RequestShows ==
    ASSUME IInv(FALSE), BatchInv, NEW u \in Tasks,
           \/ u \in Batches /\ (GetWriter(u) \/ WriteDirect(u) \/ Reject(u) \/ Enqueue(u))
           \/ u \in Ticks /\ CheckTtl(u)
    PROVE  BatchInv' /\ Shows
<1>1. /\ st[u] \in {"new", "held"} /\ st'[u] \in {"held", "check", "failed", "queued"}
      /\ \A v \in Tasks \ {u} : st'[v] = st[v] /\ home'[v] = home[v]
  <2>1. CASE u \in Batches /\ (GetWriter(u) \/ WriteDirect(u) \/ Reject(u))
    BY <2>1, RequestControl
  <2>2. CASE (u \in Batches /\ Enqueue(u)) \/ (u \in Ticks /\ CheckTtl(u))
    BY <2>2, SendControl
  <2> QED BY <2>1, <2>2
<1>2. UNCHANGED <<wals, entries, rows, imm, nextWal, nextMem, buf, cur, mem,
                  heldWal, heldMem, reg, fl>>
    BY DEF GetWriter, WriteDirect, Reject, Enqueue, CheckTtl, shared, ids
<1>3. \A h : Live(h)' <=> Live(h)
    BY <1>2 DEF Live
<1>4. \A b \in Batches : /\ Ahead(b)' => Ahead(b)
                         /\ st'[b] = "sync" => st[b] = "sync" /\ home'[b] = home[b]
                         /\ st'[b] = "done" => st[b] = "done"
    BY <1>1 DEF Ahead, Tasks
<1> QED BY <1>2, <1>3, <1>4, QuietShows

\* The loop takes a task or the Close from its channel.
LEMMA LoopShows ==
    ASSUME IInv(FALSE), BatchInv, NEW g \in Writers, Loop(g)
    PROVE  BatchInv' /\ Shows
<1>1. \A v \in Tasks : st'[v] = st[v] \/ (st[v] = "queued" /\ st'[v] \in {"check", "dropped"})
    BY ReceiveControl, ReceiveCloseControl DEF Loop
<1>2. UNCHANGED <<wals, entries, rows, imm, nextWal, nextMem, buf, cur, mem,
                  heldWal, heldMem, reg, fl, home>>
    BY DEF Loop, Receive, ReceiveClose, shared, ids
<1>3. \A h : Live(h)' <=> Live(h)
    BY <1>2 DEF Live
<1>4. \A b \in Batches : /\ Ahead(b)' => Ahead(b)
                         /\ st'[b] = "sync" => st[b] = "sync" /\ home'[b] = home[b]
                         /\ st'[b] = "done" => st[b] = "done"
    BY <1>1, <1>2 DEF Ahead, Tasks
<1> QED BY <1>2, <1>3, <1>4, QuietShows

\* A task finds no reason to rotate.
LEMMA SkipRotateShows ==
    ASSUME IInv(FALSE), BatchInv, NEW t \in Tasks, SkipRotate(t)
    PROVE  BatchInv' /\ Shows
<1>1. PICK s \in {"wal", "done"} : s = AfterRotate(t) /\ (t \in Batches => s = "wal")
    BY DEF AfterRotate
<1>2. /\ st[t] = "check" /\ Working(t) /\ Goto(t, s)
      /\ UNCHANGED <<wals, entries, rows, imm, nextWal, nextMem, made, buf, cur, mem,
                     heldWal, heldMem, mode, reg, fl, home, queue, alive>>
    BY <1>1 DEF SkipRotate, shared, ids, Working, WorkSteps
<1>3. st'[t] = s /\ \A u \in Tasks \ {t} : st'[u] = st[u]
    BY <1>2, GotoNext
<1>4. \A h : Live(h)' <=> Live(h)
    BY <1>2 DEF Live
<1>5. \A b \in Batches : /\ Ahead(b)' => Ahead(b)
                         /\ st'[b] = "sync" => st[b] = "sync" /\ home'[b] = home[b]
                         /\ st'[b] = "done" => st[b] = "done"
    BY <1>1, <1>2, <1>3 DEF Ahead, Tasks
<1> QED BY <1>2, <1>4, <1>5, QuietShows

\* Flush takes the writer out of the map and sends Close.
LEMMA FlushShows ==
    ASSUME IInv(FALSE), BatchInv, NoDirectFlush, FlushStart \/ FlushClose
    PROVE  BatchInv' /\ Shows
<1>1. (\A h : Live(h)' <=> Live(h)) /\ fl'.mem = fl.mem
  <2>1. CASE FlushStart
    <3>1. fl.mem = None
        BY <2>1 DEF FlushStart, NoFlush
    <3> QED BY <2>1, <3>1, FlushStartControl
  <2>2. CASE FlushClose
    BY <2>2, FlushCloseControl
  <2> QED BY <2>1, <2>2
<1>2. UNCHANGED <<wals, entries, rows, imm, nextWal, nextMem, buf, cur, mem,
                  heldWal, heldMem, st, home>>
    BY DEF FlushStart, FlushClose, shared, ids
<1>3. \A b \in Batches : /\ Ahead(b)' => Ahead(b)
                         /\ st'[b] = "sync" => st[b] = "sync" /\ home'[b] = home[b]
                         /\ st'[b] = "done" => st[b] = "done"
    BY <1>2 DEF Ahead
<1> QED BY <1>1, <1>2, <1>3, QuietShows

\* The step under the memtable lock.
LEMMA WriteMemShows ==
    ASSUME IInv(FALSE), BatchInv, mode, NEW t \in Batches, WriteMem(t)
    PROVE  BatchInv' /\ Shows
<1>1. /\ DataOK /\ PairInv(FALSE) /\ st[t] = "mem" /\ t \in Tasks /\ Working(t)
    BY Types DEF IInv, WriteMem, Working, WorkSteps, Tasks
<1>2. PICK m \in MemIds : m = mem[home[t]] /\ InUse(m)
    BY <1>1, WorkingTask, LiveWriter DEF InUse
<1>3. PICK s \in {"sync", "done"} : Goto(t, s) /\ (Fsync => s = "sync")
    BY DEF WriteMem
<1>4. /\ rows' = [rows EXCEPT ![m] = rows[m] \cup {t}]
      /\ UNCHANGED <<wals, entries, imm, mode, nextWal, nextMem, made, buf, reg, cur,
                     mem, queue, alive, home, heldWal, heldMem, fl>>
    BY <1>2 DEF WriteMem, ids
<1>5. st'[t] = s /\ \A u \in Tasks \ {t} : st'[u] = st[u]
    BY <1>1, <1>3, <1>4, GotoNext
<1>6. \A w : InWal(w)' = InWal(w)
    BY <1>4 DEF InWal
<1>7. t \in InWal(cur[home[t]])
    BY <1>1 DEF PairInv, EvenInv
<1>8. \A b \in Batches : Ahead(b)' => Ahead(b)
    BY <1>3, <1>5 DEF Ahead, Tasks
<1>9. \A b \in Batches : st'[b] = "sync" => b = t \/ st[b] = "sync"
    BY <1>5 DEF Tasks
<1>10. BatchInv'
    BY <1>4, <1>6, <1>7, <1>8, <1>9 DEF BatchInv
<1>11. Hidden
    BY <1>1, <1>2, <1>4 DEF Hidden, DataOK
<1>12. Draws
    BY <1>1, <1>4 DEF Draws, DataOK, Hands, InUse, Live
<1>13. Answers
    BY <1>3, <1>5 DEF Answers, Tasks
<1> QED BY <1>10, <1>11, <1>12, <1>13 DEF Shows

\* The two steps that take a new memtable.
LEMMA SwapShows ==
    ASSUME IInv(FALSE), BatchInv, (\E t \in Tasks : RotateMem(t)) \/ FlushSwap
    PROVE  BatchInv' /\ Shows
<1>1. DataOK /\ ControlOK /\ Control /\ nextMem \in Int
    BY Types DEF IInv, DataOK
<1>2. /\ UNCHANGED <<wals, entries, rows, imm, nextWal, buf, reg, cur, home, heldWal>>
      /\ nextMem' = nextMem + 1
    BY DEF RotateMem, FlushSwap, ids
<1>3. /\ \A h : Live(h)' <=> Live(h)
      /\ \A m \in MemIds : InUse(m)' => InUse(m) \/ m = nextMem
      /\ \A b \in Batches : /\ Ahead(b)' => Ahead(b)
                            /\ st'[b] = "sync" => st[b] = "sync"
                            /\ st'[b] = "done" => st[b] = "done"
  <2>1. ASSUME NEW t \in Tasks, RotateMem(t)
        PROVE  /\ \A h : Live(h)' <=> Live(h)
               /\ \A m \in MemIds : InUse(m)' => InUse(m) \/ m = nextMem
               /\ \A b \in Batches : /\ Ahead(b)' => Ahead(b)
                                     /\ st'[b] = "sync" => st[b] = "sync"
                                     /\ st'[b] = "done" => st[b] = "done"
    <3>1. /\ st[t] = "swap" /\ Working(t) /\ Goto(t, "insert")
          /\ UNCHANGED <<queue, alive, home, reg, fl, made, mode>>
        BY <2>1 DEF RotateMem, Working, WorkSteps
    <3>2. st'[t] = "insert" /\ \A u \in Tasks \ {t} : st'[u] = st[u]
        BY <3>1, GotoNext
    <3>3. home[t] \in Writers
        BY <3>1, WorkingTask, LiveWriter
    <3>4. /\ heldMem'[t] = mem[home[t]] /\ \A u \in Tasks \ {t} : heldMem'[u] = heldMem[u]
          /\ mem'[home[t]] = nextMem /\ \A g \in Writers \ {home[t]} : mem'[g] = mem[g]
        BY <1>1, <2>1, <3>3 DEF RotateMem, DataOK
    <3>5. \A m \in MemIds : InUse(m)' => InUse(m) \/ m = nextMem
        BY <3>1, <3>3, <3>4 DEF InUse
    <3>6. \A h : Live(h)' <=> Live(h)
        BY <3>1 DEF Live
    <3> QED BY <3>1, <3>2, <3>5, <3>6 DEF Ahead, Tasks
  <2>2. CASE FlushSwap
    <3>1. fl.g \in Writers
        BY <1>1, <2>2, FlushRestControl
    <3>2. /\ fl'.at = "insert" /\ fl'.g = fl.g /\ fl'.mem = mem[fl.g] /\ fl.at = "swap"
          /\ mem'[fl.g] = nextMem /\ \A g \in Writers \ {fl.g} : mem'[g] = mem[g]
          /\ UNCHANGED <<reg, st, heldMem>>
        BY <1>1, <2>2, <3>1 DEF FlushSwap, DataOK, ControlOK, FlType
    <3>3. \A m \in MemIds : InUse(m)' => InUse(m) \/ m = nextMem
        BY <3>1, <3>2 DEF InUse
    <3>4. \A h : Live(h)' <=> Live(h)
        BY <3>2 DEF Live
    <3> QED BY <3>2, <3>3, <3>4 DEF Ahead
  <2> QED BY <2>1, <2>2
<1>4. \A w : InWal(w)' = InWal(w)
    BY <1>2 DEF InWal
<1>5. BatchInv'
    BY <1>2, <1>3, <1>4 DEF BatchInv
<1>6. Hidden
    BY <1>2 DEF Hidden
<1>7. nextWal' = nextWal /\ nextWal \in Int /\ \A m \in MemIds : m = nextMem => nextMem <= m
    BY <1>1, <1>2 DEF DataOK
<1>8. \A w \in WalIds : Hands(w)' => Hands(w)
    BY <1>2, <1>3 DEF Hands
<1>9. Draws
    BY <1>1, <1>2, <1>3, <1>7, <1>8 DEF Draws
<1>10. Answers
    BY <1>3 DEF Answers
<1> QED BY <1>5, <1>6, <1>9, <1>10 DEF Shows

\* A buffer that is written to its file.
LEMMA SpillKeeps ==
    ASSUME IInv(FALSE), BatchInv, NEW w \in WalIds,
           entries' = [entries EXCEPT ![w] = entries[w] \cup buf[w]],
           buf' = [buf EXCEPT ![w] = {}],
           \A b \in Batches : /\ Ahead(b)' => Ahead(b)
                              /\ st'[b] = "sync" => /\ st[b] = "sync" /\ home'[b] = home[b]
                                                    /\ cur'[home[b]] = cur[home[b]]
    PROVE  BatchInv' /\ Unseen(buf[w]) /\ buf[w] \in SUBSET Batches /\ \A v \in WalIds : InWal(v)' = InWal(v)
<1>1. DataOK
    BY Types DEF IInv
<1>2. /\ buf'[w] = {} /\ entries'[w] = entries[w] \cup buf[w]
      /\ \A v \in WalIds \ {w} : buf'[v] = buf[v] /\ entries'[v] = entries[v]
    BY <1>1 DEF DataOK
<1>3. \A v \in WalIds : InWal(v)' = InWal(v)
    BY <1>2 DEF InWal
<1>4. \A u, v \in WalIds : buf'[u] \cap entries'[v] = {} /\ (u # v => buf'[u] \cap buf'[v] = {})
    BY <1>2 DEF BatchInv
<1>5. \A b \in Batches : st'[b] = "sync" =>
          b \in entries'[cur'[home'[b]]] \cup buf'[cur'[home'[b]]]
  <2> SUFFICES ASSUME NEW b \in Batches, st'[b] = "sync"
               PROVE  b \in entries'[cur'[home'[b]]] \cup buf'[cur'[home'[b]]]
    OBVIOUS
  <2>1. st[b] = "sync" /\ b \in Tasks
    BY DEF Tasks
  <2>2. PICK v \in WalIds : v = cur[home[b]]
    BY <2>1, WorkingTask, LiveWriter DEF Working, WorkSteps
  <2>3. b \in InWal(v) /\ cur'[home'[b]] = v
    BY <2>1, <2>2 DEF BatchInv
  <2> QED BY <1>3, <2>3 DEF InWal
<1>6. Unseen(buf[w]) /\ buf[w] \in SUBSET Batches
    BY <1>1 DEF Unseen, BatchInv, DataOK
<1>7. BatchInv'
    BY <1>3, <1>4, <1>5 DEF BatchInv, InWal
<1> QED BY <1>3, <1>6, <1>7

\* The steps of consume_processed under the wal lock.
LEMMA WriteWalShows ==
    ASSUME IInv(FALSE), BatchInv, mode, NEW t \in Batches, WriteWal(t) \/ WriteWalError(t) \/ SyncWal(t)
    PROVE  BatchInv' /\ Shows
<1>1. DataOK /\ t \in Tasks /\ Working(t) /\ st[t] \in {"wal", "sync"}
    BY Types DEF IInv, Working, WorkSteps, Tasks, WriteWal, WriteWalError, SyncWal
<1>2. PICK w \in WalIds : w = cur[home[t]] /\ Hands(w) /\ imm[w] = None
    BY <1>1, WorkingTask, LiveWriter DEF Hands
<1>3. /\ UNCHANGED <<wals, rows, imm, mode, nextWal, nextMem, made, reg, cur, mem,
                     queue, alive, home, heldWal, heldMem, fl>>
      /\ entries[w] \in SUBSET Batches /\ buf[w] \in SUBSET Batches
    BY <1>1 DEF WriteWal, WriteWalError, SyncWal, ids, shared, DataOK
<1>4. (\A v : Hands(v)' <=> Hands(v)) /\ Draws
    BY <1>1, <1>3 DEF Draws, DataOK, Hands, InUse, Live
<1>5. CASE WriteWal(t) \/ WriteWalError(t)
  <2>1. PICK s \in {"mem", "failed"} : Goto(t, s) /\ st[t] = "wal" /\ (s = "failed" => WalErrors)
    BY <1>5 DEF WriteWal, WriteWalError
  <2>2. st'[t] = s /\ \A u \in Tasks \ {t} : st'[u] = st[u]
    BY <1>1, <1>3, <2>1, GotoNext
  <2>3. \A v \in WalIds : t \notin entries[v] /\ t \notin buf[v]
    BY <2>1 DEF BatchInv, Ahead, InWal
  <2>4. PICK S \in SUBSET Batches, B \in SUBSET Batches :
            /\ entries' = [entries EXCEPT ![w] = entries[w] \cup S]
            /\ buf' = [buf EXCEPT ![w] = B]
            /\ S \cup B \subseteq buf[w] \cup {t} /\ buf[w] \subseteq S \cup B /\ S \cap B = {}
    <3>1. CASE WriteWal(t)
      <4>1. PICK spill \in {{}, buf[w], buf[w] \cup {t}} :
                /\ entries' = [entries EXCEPT ![w] = entries[w] \cup spill]
                /\ buf' = [buf EXCEPT ![w] = (buf[w] \cup {t}) \ spill]
        BY <1>2, <3>1 DEF WriteWal
      <4>2. PICK S \in SUBSET Batches, B \in SUBSET Batches :
                S = spill /\ B = (buf[w] \cup {t}) \ spill
        BY <1>3
      <4>3. S \cup B \subseteq buf[w] \cup {t} /\ buf[w] \subseteq S \cup B /\ S \cap B = {}
        BY <4>2
      <4> QED BY <4>1, <4>2, <4>3
    <3>2. CASE WriteWalError(t)
      <4>1. PICK B \in {buf[w], buf[w] \cup {t}} : buf' = [buf EXCEPT ![w] = B]
        <5>1. buf' \in {buf, [buf EXCEPT ![w] = buf[w] \cup {t}]} /\ buf = [buf EXCEPT ![w] = buf[w]]
            BY <1>1, <1>2, <3>2 DEF WriteWalError, DataOK
        <5> QED BY <5>1
      <4>2. entries' = [entries EXCEPT ![w] = entries[w] \cup {}] /\ {} \in SUBSET Batches
        BY <1>1, <3>2 DEF WriteWalError, shared, DataOK
      <4> QED BY <1>3, <4>1, <4>2
    <3> QED BY <1>5, <3>1, <3>2
  <2>5. /\ entries'[w] = entries[w] \cup S /\ buf'[w] = B
        /\ \A v \in WalIds \ {w} : entries'[v] = entries[v] /\ buf'[v] = buf[v]
    BY <1>1, <2>4 DEF DataOK
  <2>6. \A b \in Batches : b # t => \A v \in WalIds : b \in InWal(v)' <=> b \in InWal(v)
    BY <2>4, <2>5 DEF InWal
  <2>7. ~ Ahead(t)' /\ st'[t] # "sync" /\ \A b \in Batches : b # t => (Ahead(b)' <=> Ahead(b)) /\ st'[b] = st[b]
    BY <2>1, <2>2 DEF Ahead, Tasks
  <2>8. \A b \in Batches : Ahead(b)' => \A v \in WalIds : b \notin InWal(v)'
    BY <2>6, <2>7 DEF BatchInv
  <2>9. \A u, v \in WalIds : buf'[u] \cap entries'[v] = {} /\ (u # v => buf'[u] \cap buf'[v] = {})
    <3>1. \A u, v \in WalIds : buf[u] \cap entries[v] = {} /\ (u # v => buf[u] \cap buf[v] = {})
        BY DEF BatchInv
    <3>2. \A v \in WalIds : /\ S \cap entries[v] = {} /\ B \cap entries[v] = {}
                            /\ v # w => S \cap buf[v] = {} /\ B \cap buf[v] = {}
        BY <2>3, <2>4, <3>1
    <3> QED BY <2>4, <2>5, <3>1, <3>2
  <2>10. \A b \in Batches : st'[b] # "sync"
    <3>1. \A u \in Tasks : Working(u) => u = t
        BY <1>1, WorkingTask
    <3> QED BY <2>7, <3>1 DEF Working, WorkSteps, Tasks
  <2>11. BatchInv'
    BY <2>8, <2>9, <2>10 DEF BatchInv
  <2>12. Unseen(S)
    BY <2>3, <2>4 DEF Unseen, BatchInv
  <2>13. Grows
    BY <1>2, <1>3, <2>4, <2>12 DEF Grows
  <2>14. Answers
    BY <2>1, <2>2 DEF Answers, Tasks
  <2> QED BY <1>4, <2>11, <2>13, <2>14 DEF Shows
<1>6. CASE SyncWal(t)
  <2>1. /\ Goto(t, "done") /\ st[t] = "sync"
        /\ entries' = [entries EXCEPT ![w] = entries[w] \cup buf[w]]
        /\ buf' = [buf EXCEPT ![w] = {}]
    BY <1>2, <1>6 DEF SyncWal
  <2>2. st'[t] = "done" /\ \A u \in Tasks \ {t} : st'[u] = st[u]
    BY <1>1, <1>3, <2>1, GotoNext
  <2>3. \A b \in Batches : /\ Ahead(b)' => Ahead(b)
                           /\ st'[b] = "sync" => /\ st[b] = "sync" /\ home'[b] = home[b]
                                                 /\ cur'[home[b]] = cur[home[b]]
    BY <1>3, <2>2 DEF Ahead, Tasks
  <2>4. BatchInv' /\ Unseen(buf[w]) /\ buf[w] \in SUBSET Batches
    BY <2>1, <2>3, SpillKeeps
  <2>5. Grows
    BY <1>2, <1>3, <2>1, <2>4 DEF Grows
  <2>6. t \in entries'[w] /\ Hands(w)'
    <3>1. t \in InWal(w)
        BY <1>2, <2>1 DEF BatchInv
    <3>2. entries'[w] = entries[w] \cup buf[w]
        BY <1>1, <2>1 DEF DataOK
    <3> QED BY <1>2, <1>4, <3>1, <3>2 DEF InWal
  <2>7. Answers
    BY <2>2, <2>6 DEF Answers, Tasks
  <2> QED BY <1>4, <2>4, <2>5, <2>7 DEF Shows
<1> QED BY <1>5, <1>6

\* Flush syncs the file of the writer it closed.
LEMMA FlushSyncShows ==
    ASSUME IInv(FALSE), BatchInv, FlushSync
    PROVE  BatchInv' /\ Shows
<1>1. DataOK /\ ControlOK
    BY Types DEF IInv
<1>2. fl.g \in Writers /\ Live(fl.g)
    BY <1>1, FlushRestControl
<1>3. PICK w \in WalIds : w = cur[fl.g] /\ Hands(w) /\ imm[w] = None
    BY <1>2, LiveWriter DEF Hands
<1>4. /\ entries' = [entries EXCEPT ![w] = entries[w] \cup buf[w]]
      /\ buf' = [buf EXCEPT ![w] = {}]
      /\ UNCHANGED <<wals, rows, imm, nextWal, nextMem, reg, cur, mem, st, home, heldWal, heldMem>>
      /\ fl.at = "sync" /\ fl'.at = "swap" /\ fl'.g = fl.g /\ fl'.mem = fl.mem
    BY <1>1, <1>3 DEF FlushSync, ids, ControlOK, FlType
<1>5. \A h : Live(h)' <=> Live(h)
    BY <1>4 DEF Live
<1>6. Draws /\ Answers
    BY <1>1, <1>4, <1>5 DEF Draws, Answers, DataOK, Hands, InUse
<1>7. BatchInv' /\ Unseen(buf[w]) /\ buf[w] \in SUBSET Batches
    BY <1>4, SpillKeeps DEF Ahead
<1>8. Grows
    BY <1>3, <1>4, <1>7 DEF Grows
<1> QED BY <1>6, <1>7, <1>8 DEF Shows

\* A rotation: a new file, and the old one is complete.
LEMMA RotateWalShows ==
    ASSUME IInv(FALSE), BatchInv, mode, NEW t \in Tasks, RotateWal(t)
    PROVE  BatchInv' /\ Shows
<1>1. /\ DataOK /\ ControlOK /\ st[t] = "check" /\ Working(t)
    BY Types DEF IInv, RotateWal, Working, WorkSteps
<1>2. PICK g \in Writers, old \in WalIds, n \in WalIds : g = home[t] /\ old = cur[g] /\ n = nextWal
  <2>1. nextWal \in WalIds
    BY <1>1, NoneIsNone DEF RotateWal, DataOK, WalIds
  <2> QED BY <1>1, <2>1, WorkingTask, LiveWriter
<1>3. /\ Live(g) /\ imm[old] = None /\ Hands(old)
      /\ \A u \in Tasks : Working(u) => u = t
    BY <1>1, <1>2, WorkingTask, LiveWriter DEF Hands
<1>4. /\ entries' = [entries EXCEPT ![old] = entries[old] \cup buf[old]]
      /\ buf' = [buf EXCEPT ![old] = {}] /\ heldWal' = [heldWal EXCEPT ![t] = old]
      /\ cur' = [cur EXCEPT ![g] = n] /\ wals' = wals \cup {n} /\ nextWal' = n + 1
      /\ Goto(t, "swap")
      /\ UNCHANGED <<rows, imm, mode, nextMem, made, reg, mem, queue, alive, home, heldMem, fl>>
    BY <1>2 DEF RotateWal
<1>5. st'[t] = "swap" /\ \A u \in Tasks \ {t} : st'[u] = st[u]
    BY <1>1, <1>4, GotoNext
<1>6. \A b \in Batches : /\ Ahead(b)' => Ahead(b)
                         /\ st'[b] # "sync" /\ (st'[b] = "done" => st[b] = "done")
    BY <1>1, <1>3, <1>5 DEF Ahead, Tasks, Working, WorkSteps
<1>7. BatchInv' /\ Unseen(buf[old]) /\ buf[old] \in SUBSET Batches
    BY <1>4, <1>6, SpillKeeps
<1>8. /\ \A v \in Writers \ {g} : cur'[v] = cur[v]
      /\ \A u \in Tasks \ {t} : heldWal'[u] = heldWal[u]
      /\ heldWal'[t] = old /\ cur'[g] = n
    BY <1>1, <1>4 DEF DataOK
<1>9. \A h : Live(h)' <=> Live(h)
    BY <1>4 DEF Live
<1>10. \A w \in WalIds : Hands(w)' => Hands(w) \/ w = n
    BY <1>3, <1>8, <1>9 DEF Hands
<1>11. nextWal \in Int /\ nextWal' = nextWal + 1 /\ nextMem \in Int /\ nextMem' = nextMem
    BY <1>1, <1>2, <1>4 DEF DataOK
<1>12. \A m : InUse(m)' <=> InUse(m)
    BY <1>4 DEF InUse
<1>13. Draws
    BY <1>2, <1>4, <1>10, <1>11, <1>12 DEF Draws
<1>14. Answers
    BY <1>6 DEF Answers
<1>15. entries' = [u \in WalIds |-> IF u = old THEN entries[u] \cup buf[old] ELSE entries[u]]
    BY <1>1, <1>4 DEF DataOK
<1>16. Creates
  <2>1. nextWal \in WalIds /\ nextWal < nextWal' /\ wals' = wals \cup {nextWal} /\ old # None
    BY <1>2, <1>4, <1>11, NoneIsNone
  <2> QED BY <1>3, <1>4, <1>7, <1>15, <2>1 DEF Creates
<1> QED BY <1>7, <1>13, <1>14, <1>16 DEF Shows

\* The first request makes a writer and its file.
LEMMA NewWriterShows ==
    ASSUME IInv(FALSE), BatchInv, NEW b \in Batches, NewWriter(b)
    PROVE  BatchInv' /\ Shows
<1>1. DataOK /\ ControlOK /\ b \in Tasks
    BY Types DEF IInv, Tasks
<1>2. PICK g \in Writers, w \in WalIds, m \in MemIds : g = made + 1 /\ w = nextWal /\ m = nextMem
    BY <1>1, NoneIsNone DEF NewWriter, DataOK, ControlOK, WalIds, MemIds, Writers
<1>3. /\ st[b] = "new" /\ st'[b] = "held"
      /\ \A v \in Tasks \ {b} : st'[v] = st[v] /\ home'[v] = home[v]
      /\ \A v \in Tasks : ~ Working(v) /\ ~ Working(v)'
      /\ \A h : Live(h)' <=> h = g
      /\ fl = NoFlush
    BY <1>2, NewWriterControl
<1>4. /\ nextWal' = w + 1 /\ nextMem' = m + 1
      /\ cur' = [cur EXCEPT ![g] = w] /\ mem' = [mem EXCEPT ![g] = m]
      /\ wals' = wals \cup {w}
      /\ UNCHANGED <<entries, rows, imm, mode, buf, queue, busy, heldWal, heldMem, fl>>
    BY <1>2 DEF NewWriter
<1>5. /\ \A v \in Writers \ {g} : cur'[v] = cur[v] /\ mem'[v] = mem[v]
      /\ cur'[g] = w /\ mem'[g] = m
    BY <1>1, <1>4 DEF DataOK
<1>6. \A u \in Batches : /\ Ahead(u)' => Ahead(u)
                         /\ st'[u] # "sync" /\ (st'[u] = "done" => st[u] = "done")
    BY <1>3 DEF Ahead, Tasks, Working, WorkSteps
<1>7. BatchInv'
    BY <1>4, <1>6 DEF BatchInv, InWal
<1>8. (\A v \in WalIds : Hands(v)' => Hands(v) \/ v = w) /\ \A x \in MemIds : InUse(x)' => InUse(x) \/ x = m
    BY <1>3, <1>4, <1>5 DEF Hands, InUse
<1>9. nextWal \in Int /\ nextWal' = nextWal + 1 /\ nextMem \in Int /\ nextMem' = nextMem + 1
    BY <1>1, <1>2, <1>4 DEF DataOK
<1>10. Draws
    BY <1>2, <1>4, <1>8, <1>9 DEF Draws
<1>11. Answers
    BY <1>6 DEF Answers
<1>12. Creates
  <2>1. entries' = [u \in WalIds |-> IF u = None THEN entries[u] \cup {} ELSE entries[u]]
    BY <1>1, <1>4 DEF DataOK
  <2>2. nextWal \in WalIds /\ nextWal < nextWal' /\ wals' = wals \cup {nextWal}
    BY <1>2, <1>4, <1>9
  <2>3. {} \in SUBSET Batches /\ Unseen({}) /\ None \in WalIds \cup {None}
    BY DEF Unseen
  <2> QED BY <1>4, <2>1, <2>2, <2>3 DEF Creates
<1> QED BY <1>7, <1>10, <1>11, <1>12 DEF Shows

\* A file and its memtable hold the same batches when no write fails.
LEMMA SameBatches ==
    ASSUME IInv(FALSE), BatchInv, NEW w \in WalIds, NEW m \in MemIds, Whole(w, m)
    PROVE  WalErrors \/ rows[m] = entries[w]
<1>1. entries[w] \subseteq Batches /\ rows[m] \subseteq Batches
    BY Types DEF IInv, DataOK
<1>2. ASSUME ~ WalErrors, NEW b \in Failed PROVE b \notin entries[w]
    BY <1>2 DEF Failed, BatchInv, Ahead, InWal
<1> QED BY <1>1, <1>2 DEF Whole

\* Rotation puts the old file and the old memtable into IMMUTABLES.
LEMMA RotateInsertShows ==
    ASSUME IInv(FALSE), BatchInv, mode, NEW t \in Tasks, RotateInsert(t)
    PROVE  BatchInv' /\ Shows
<1>1. /\ DataOK /\ WalInv /\ MemInv /\ PairInv(FALSE) /\ st[t] = "insert" /\ Working(t)
    BY Types DEF IInv, RotateInsert, Working, WorkSteps
<1>2. PICK w \in WalIds, m \in MemIds : w = heldWal[t] /\ m = heldMem[t]
  <2>1. heldWal[t] # None /\ heldMem[t] # None
    BY <1>1 DEF WalInv, HeldWalInv, MemInv, HeldMemInv
  <2> QED BY <1>1, <2>1 DEF DataOK
<1>3. /\ fl.mem = None /\ imm[w] = None /\ m < nextMem /\ m # None /\ w # None
      /\ \A g \in Writers : mem[g] # m
      /\ \A s \in Tasks \ {t} : heldMem[s] # m
    BY <1>1, <1>2, WorkingTask, NoneIsNone DEF WalInv, HeldWalInv, MemInv, HeldMemInv
<1>4. Hands(w) /\ InUse(m) /\ (WalErrors \/ rows[m] = entries[w])
  <2>1. Whole(w, m)
    BY <1>1, <1>2 DEF PairInv, TurnInv
  <2> QED BY <1>2, <2>1, SameBatches DEF Hands, InUse
<1>5. PICK s \in {"wal", "done"} : s = AfterRotate(t) /\ (t \in Batches => s = "wal")
    BY DEF AfterRotate
<1>6. /\ imm' = [imm EXCEPT ![w] = m] /\ Goto(t, s)
      /\ heldWal' = [heldWal EXCEPT ![t] = None] /\ heldMem' = [heldMem EXCEPT ![t] = None]
      /\ UNCHANGED <<wals, entries, rows, mode, nextWal, nextMem, made, buf, reg, cur, mem,
                     queue, alive, home, fl>>
    BY <1>2, <1>5 DEF RotateInsert, ids
<1>7. st'[t] = s /\ \A u \in Tasks \ {t} : st'[u] = st[u]
    BY <1>1, <1>5, <1>6, GotoNext
<1>8. \A b \in Batches : /\ Ahead(b)' => Ahead(b)
                         /\ st'[b] = "sync" => st[b] = "sync"
                         /\ st'[b] = "done" => st[b] = "done"
    BY <1>1, <1>5, <1>7 DEF Ahead, Tasks
<1>9. \A v : InWal(v)' = InWal(v)
    BY <1>6 DEF InWal
<1>10. BatchInv'
    BY <1>6, <1>8, <1>9 DEF BatchInv
<1>11. /\ \A u \in Tasks \ {t} : heldWal'[u] = heldWal[u] /\ heldMem'[u] = heldMem[u]
       /\ heldWal'[t] = None /\ heldMem'[t] = None
    BY <1>1, <1>6 DEF DataOK
<1>12. ~ InUse(m)'
    BY <1>3, <1>6, <1>11 DEF InUse
<1>13. /\ \A v \in WalIds : Hands(v)' => Hands(v)
       /\ \A x \in MemIds : InUse(x)' => InUse(x)
    BY <1>6, <1>11, NoneIsNone DEF Hands, InUse, Live
<1>14. Draws
    BY <1>1, <1>6, <1>13 DEF Draws, DataOK
<1>15. Answers
    BY <1>8 DEF Answers
<1>16. HandsOver
    BY <1>3, <1>4, <1>6, <1>12 DEF HandsOver
<1> QED BY <1>10, <1>14, <1>15, <1>16 DEF Shows

\* So does flush, with the file it synced.
LEMMA FlushInsertShows ==
    ASSUME IInv(FALSE), BatchInv, FlushInsert
    PROVE  BatchInv' /\ Shows
<1>1. DataOK /\ ControlOK /\ WalInv /\ MemInv /\ PairInv(FALSE) /\ fl.at = "insert"
    BY Types DEF IInv, FlushInsert
<1>2. /\ mode /\ fl.g \in Writers /\ Live(fl.g) /\ \A v \in Tasks : ~ Working(v)
    BY <1>1, FlushRestControl
<1>3. PICK w \in WalIds, m \in MemIds : w = fl.wal /\ m = fl.mem /\ w = cur[fl.g]
  <2>1. fl.mem # None /\ fl.wal = cur[fl.g]
    BY <1>1 DEF WalInv, FlWalInv, MemInv, FlMemInv
  <2> QED BY <1>1, <1>2, <2>1, LiveWriter DEF ControlOK, FlType
<1>4. /\ imm[w] = None /\ m < nextMem /\ m # None
      /\ \A g \in Writers : mem[g] # m
      /\ \A s \in Tasks : heldMem[s] = None
  <2>1. \A s \in Tasks : heldMem[s] = None
    BY <1>1, <1>2 DEF MemInv, HeldMemInv, Working, WorkSteps
  <2> QED BY <1>1, <1>2, <1>3, <2>1, LiveWriter, NoneIsNone DEF MemInv, FlMemInv
<1>5. Hands(w) /\ InUse(m) /\ (WalErrors \/ rows[m] = entries[w])
  <2>1. Whole(w, m)
    BY <1>1, <1>2, <1>3 DEF PairInv, FlushedInv
  <2> QED BY <1>2, <1>3, <2>1, SameBatches DEF Hands, InUse
<1>6. /\ imm' = [imm EXCEPT ![w] = m] /\ fl' = NoFlush
      /\ UNCHANGED <<wals, entries, rows, nextWal, nextMem, buf, reg, cur, mem, st, home,
                     heldWal, heldMem>>
    BY <1>3 DEF FlushInsert, ids
<1>7. /\ \A b \in Batches : Ahead(b)' <=> Ahead(b)
      /\ \A v : InWal(v)' = InWal(v)
    BY <1>6 DEF Ahead, InWal
<1>8. BatchInv'
    BY <1>6, <1>7 DEF BatchInv
<1>9. fl'.mem = None /\ fl'.at = "off"
    BY <1>6 DEF NoFlush
<1>10. ~ InUse(m)'
    BY <1>4, <1>6, <1>9 DEF InUse
<1>11. /\ \A v \in WalIds : Hands(v)' => Hands(v)
       /\ \A x \in MemIds : InUse(x)' => InUse(x)
  <2>1. \A h : Live(h)' => Live(h)
    BY <1>6, <1>9 DEF Live
  <2> QED BY <1>6, <1>9, <2>1, NoneIsNone DEF Hands, InUse
<1>12. Draws
    BY <1>1, <1>6, <1>11 DEF Draws, DataOK
<1>13. Answers
    BY <1>6 DEF Answers
<1>14. HandsOver
    BY <1>4, <1>5, <1>6, <1>10 DEF HandsOver
<1> QED BY <1>8, <1>12, <1>13, <1>14 DEF Shows

(* With the queue, every step of the writer is to the persist side what      *)
(* module Persist assumes of it: batches reach a file once, a file goes to   *)
(* IMMUTABLES with a memtable of its batches.                                *)
LEMMA WriterShows ==
    ASSUME IInv(FALSE), BatchInv, mode, NoDirectFlush, ~ WalErrors, WriterNext
    PROVE  BatchInv' /\ Shows
<1>1. ASSUME NEW b \in Batches, Request(b) PROVE BatchInv' /\ Shows
  <2>1. b \in Tasks
    BY DEF Tasks
  <2>2. CASE NewWriter(b)
    BY <2>2, NewWriterShows
  <2>3. CASE GetWriter(b) \/ WriteDirect(b) \/ Enqueue(b) \/ Reject(b)
    BY <2>1, <2>3, RequestShows
  <2> QED BY <1>1, <2>2, <2>3 DEF Request
<1>2. ASSUME NEW b \in Batches, Write(b) PROVE BatchInv' /\ Shows
    BY <1>2, WriteWalShows, WriteMemShows DEF Write, SyncWalError
<1>3. ASSUME NEW t \in Ticks, CheckTtl(t) PROVE BatchInv' /\ Shows
    BY <1>3, RequestShows DEF Tasks
<1>4. ASSUME NEW t \in Tasks, Rotate(t) PROVE BatchInv' /\ Shows
    BY <1>4, SkipRotateShows, RotateWalShows, SwapShows, RotateInsertShows DEF Rotate, RotateWalError
<1>5. ASSUME NEW g \in Writers, Loop(g) PROVE BatchInv' /\ Shows
    BY <1>5, LoopShows
<1>6. CASE FlushStart \/ FlushRest
    BY <1>6, FlushShows, FlushSyncShows, SwapShows, FlushInsertShows DEF FlushRest, FlushSyncError
<1> QED BY <1>1, <1>2, <1>3, <1>4, <1>5, <1>6 DEF WriterNext

\* BatchInv outlives a kill: what was in a buffer is gone with its batch.
LEMMA KillBatch ==
    ASSUME IInv(FALSE), BatchInv, OwnCrash, UNCHANGED entries
    PROVE  BatchInv' /\ \A t \in Tasks : st'[t] = "done" <=> st[t] = "done"
<1>1. ControlOK /\ DataOK
    BY Types DEF IInv
<1>2. \A t \in Tasks : /\ st[t] \in {"new", "done", "failed"} => st'[t] = st[t]
                       /\ st[t] = "held" => st'[t] = "failed"
                       /\ st[t] \notin {"new", "done", "failed", "held"} => st'[t] = "dropped"
    BY DEF OwnCrash
<1>3. \A w \in WalIds : buf'[w] = {} /\ InWal(w)' \subseteq InWal(w)
    BY DEF OwnCrash, InWal
<1>4. \A b \in Batches : (Ahead(b)' => Ahead(b)) /\ st'[b] # "sync"
    BY <1>1, <1>2 DEF Ahead, Tasks, ControlOK, States
<1>5. BatchInv'
    BY <1>3, <1>4 DEF BatchInv
<1> QED BY <1>1, <1>2, <1>5 DEF ControlOK, States

=============================================================================
