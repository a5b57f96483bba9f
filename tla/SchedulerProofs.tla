-------------------------- MODULE SchedulerProofs --------------------------
(***************************************************************************)
(* Proofs about Scheduler: for any number of handlers, requests, changes   *)
(* of the child and faults, the state is well typed, no wakeup is lost     *)
(* outside the windows that WakeupKept names, and the composite's state    *)
(* never goes back to an older one of its child.                           *)
(*                                                                         *)
(* The argument is about the run that made the last pull, whether or not   *)
(* it still holds the row: nobody else can write the composite's state.    *)
(* What it has read of the child is current, or else the change that came  *)
(* after is still to advance the generation, has died, or has advanced it  *)
(* beyond the one the run has read.                                        *)
(***************************************************************************)
EXTENDS Scheduler, FiniteSetTheorems, TLAPS

\* Changes of the child that have not advanced the generation yet.
Pending == {l \in 1..MaxLevel : nudge[l].pc = "generation"}

\* Each advance of the generation is the child's or a request's, and a change
\* the child has not made is nudged by nobody.
CountInv ==
    /\ comp.gen + Cardinality(Pending) <= level - 1 + users
    /\ \A l \in 1..MaxLevel : nudge[l].pc # "idle" => l <= level

\* A run has read nothing from the future.
ReadInv ==
    \A s \in Runs : run[s].gen <= comp.gen /\ run[s].level <= level

\* Why run s may be working with an older state of the child.
Outdated(s) == Pending # {} \/ lost \/ comp.gen > run[s].gen

\* What the run of the last pull knows at each of its steps.
ClaimInv ==
    \A s \in Runs : row.claim = s =>
        /\ run[s].pc = "commit" =>
              seen <= run[s].level /\ (run[s].level = level \/ Outdated(s))
        /\ run[s].pc \in {"deliver", "recheck"} => seen = level \/ Outdated(s)
        /\ run[s].pc = "complete" /\ run[s].next = "sweep" => seen = level \/ Outdated(s)

\* A row that is being processed is due as soon as it is handed back, and one
\* that sleeps has nothing to wake up for, whether or not it is enabled.
SweepInv ==
    /\ row.status = "Processing" => row.next = "soon"
    /\ row.status = "Waiting" /\ row.next = "sweep" =>
          \/ seen = level
          \/ \E l \in 1..MaxLevel : nudge[l].pc # "idle"
          \/ late
          \/ lost

IInv == TypeOK /\ CountInv /\ ReadInv /\ ClaimInv /\ SweepInv

----------------------------------------------------------------------------
(* Counting                                                                 *)

\* The pending changes are finitely many.
LEMMA PendingFinite ==
    ASSUME TypeOK
    PROVE  IsFiniteSet(Pending) /\ Cardinality(Pending) \in Nat
<1>1. IsFiniteSet(1..MaxLevel)
    BY SchedulerAssumption, FS_Interval
<1>2. IsFiniteSet(Pending)
    BY <1>1, FS_Subset DEF Pending
<1> QED BY <1>2, FS_CardinalityType

\* CountInv keeps the generation within its bound.
LEMMA GenerationBound ==
    ASSUME TypeOK, CountInv
    PROVE  /\ comp.gen <= level - 1 + users
           /\ comp.gen < MaxLevel + users
BY PendingFinite, SchedulerAssumption DEF TypeOK, CountInv, Generations

\* A change that no longer waits to advance the generation leaves Pending.
LEMMA PendingLess ==
    ASSUME TypeOK, NEW l \in 1..MaxLevel, NEW x,
           x.pc # "generation", nudge' = [nudge EXCEPT ![l] = x]
    PROVE  /\ Pending' = Pending \ {l}
           /\ Cardinality(Pending') \in Nat
           /\ Cardinality(Pending') <= Cardinality(Pending)
           /\ nudge[l].pc = "generation" => Cardinality(Pending') = Cardinality(Pending) - 1
<1>1. Pending' = Pending \ {l}
    BY DEF Pending, TypeOK
<1>2. l \in Pending <=> nudge[l].pc = "generation"
    BY DEF Pending
<1>3. /\ IsFiniteSet(Pending')
      /\ Cardinality(Pending') =
            IF l \in Pending THEN Cardinality(Pending) - 1 ELSE Cardinality(Pending)
    BY <1>1, PendingFinite, FS_RemoveElement
<1> QED BY <1>1, <1>2, <1>3, PendingFinite, FS_CardinalityType

\* The composite starts with a new row.
LEMMA SchedulerInit == Init => IInv
<1> SUFFICES ASSUME Init PROVE IInv
    OBVIOUS
<1> USE SchedulerAssumption
<1>1. TypeOK
  <2>1. Idle \in [pc : RunPcs, gen : Generations, level : 0..MaxLevel, next : {"soon", "sweep"}]
    BY DEF Idle, RunPcs, Generations
  <2>2. comp \in [enabled : BOOLEAN, gen : Generations]
    BY DEF Init, Generations
  <2>3. row \in [status : {"none", "Waiting", "Processing"},
                claim : Runs \cup {NoRun}, next : {"soon", "sweep"}]
    BY DEF Init, NewRow
  <2>4. level \in 1..MaxLevel /\ seen \in 0..level /\ users \in 0..MaxUser
        /\ faults \in 0..MaxFault
    BY DEF Init
  <2> QED BY <2>1, <2>2, <2>3, <2>4 DEF Init, TypeOK
<1>2. Pending = {} /\ Cardinality(Pending) = 0
  <2>1. Pending = {}
    BY DEF Init, Pending
  <2> QED BY <2>1, FS_EmptySet
<1>3. CountInv /\ ReadInv /\ ClaimInv /\ SweepInv
    BY <1>2 DEF Init, CountInv, ReadInv, ClaimInv, SweepInv, NewRow, Idle
<1> QED BY <1>1, <1>3 DEF IInv

----------------------------------------------------------------------------
(* The handlers                                                             *)

RunType == [pc : RunPcs, gen : Generations, level : 0..MaxLevel, next : {"soon", "sweep"}]

\* A step that sets three fields of a run.
LEMMA ThreeFields ==
    ASSUME NEW P, NEW G, NEW L, NEW N, run \in [Runs -> [pc : P, gen : G, level : L, next : N]],
           NEW s \in Runs, NEW pc \in P, NEW gen \in G, NEW next \in N
    PROVE  [run EXCEPT ![s].pc = pc, ![s].gen = gen, ![s].next = next]
               \in [Runs -> [pc : P, gen : G, level : L, next : N]]
OBVIOUS

\* A handler that is over.
LEMMA IdleType ==
    ASSUME TypeOK, NEW s \in Runs
    PROVE  [run EXCEPT ![s] = Idle] \in [Runs -> RunType]
<1>1. run \in [Runs -> RunType]
    BY DEF TypeOK, RunType
<1>2. Idle \in RunType
    BY SchedulerAssumption DEF Idle, RunType, RunPcs, Generations
<1> QED BY <1>1, <1>2

\* The parts of TypeOK, without the runs.
RestOK ==
    /\ row \in [status : {"none", "Waiting", "Processing"},
                claim : Runs \cup {NoRun}, next : {"soon", "sweep"}]
    /\ comp \in [enabled : BOOLEAN, gen : Generations]
    /\ level \in 1..MaxLevel
    /\ seen \in 0..level
    /\ nudge \in [1..MaxLevel -> [pc : {"idle", "generation", "get", "put"},
                                  status : {"Waiting", "Processing"}]]
    /\ user \in [Users -> [pc : {"idle", "delete", "definition", "get", "advance",
                                 "put", "push"},
                           status : {"Waiting", "Processing"}]]
    /\ users \in 0..MaxUser
    /\ faults \in 0..MaxFault
    /\ {late, lost, orphan} \subseteq BOOLEAN

\* A row after complete_claim.
LEMMA CompletedRow ==
    ASSUME TypeOK, NEW s \in Runs, NEW next \in {"soon", "sweep"}, row' = Completed(s, next)
    PROVE  /\ row' \in [status : {"none", "Waiting", "Processing"},
                        claim : Runs \cup {NoRun}, next : {"soon", "sweep"}]
           /\ row'.claim = row.claim
           /\ ~Holds(s) => row' = row
           /\ Holds(s) => row'.status = "Waiting" /\ row'.next = next
BY DEF TypeOK, Completed, Holds

\* The handlers keep the types.
LEMMA HandlerTypes ==
    ASSUME TypeOK, ReadInv, NEW s \in Runs,
           Pull(s) \/ Handle(s) \/ RecheckError(s) \/ HandlerFails(s)
    PROVE  TypeOK'
<1> USE SchedulerAssumption
<1>1. RestOK /\ comp.gen \in Generations /\ run \in [Runs -> RunType]
    BY DEF TypeOK, RestOK, RunType
<1>2. RestOK' /\ run' \in [Runs -> RunType] => TypeOK'
    BY DEF TypeOK, RestOK, RunType
<1>3. RunPcs = {"idle", "pulled", "drop", "children", "commit", "debounce",
                "deliver", "recheck", "complete"}
    BY DEF RunPcs
<1>4. CASE Pull(s)
  <2>1. run' \in [Runs -> RunType]
    BY <1>1, <1>3, <1>4 DEF Pull, Goto, RunType
  <2>2. RestOK'
    BY <1>1, <1>4 DEF Pull, RestOK
  <2> QED BY <1>2, <2>1, <2>2
<1>5. CASE ReadDefinition(s)
  <2>1. run' \in [Runs -> RunType]
    BY <1>1, <1>3, <1>5 DEF ReadDefinition, RunType
  <2>2. RestOK'
    BY <1>1, <1>5 DEF ReadDefinition, RestOK
  <2> QED BY <1>2, <2>1, <2>2
<1>6. CASE DropRow(s)
  <2>1. run' \in [Runs -> RunType]
    BY <1>6, IdleType DEF DropRow, Over
  <2>2. RestOK'
    BY <1>1, <1>6 DEF DropRow, Dropped, NoRow, RestOK
  <2> QED BY <1>2, <2>1, <2>2
<1>7. CASE ReadChildren(s)
  <2>1. level \in 0..MaxLevel
    BY <1>1 DEF RestOK
  <2>2. run' \in [Runs -> RunType]
    BY <1>1, <1>3, <1>7, <2>1 DEF ReadChildren, RunType
  <2>3. RestOK'
    BY <1>1, <1>7 DEF ReadChildren, RestOK
  <2> QED BY <1>2, <2>2, <2>3
<1>8. CASE Commit(s)
  <2>1. run' \in [Runs -> RunType]
    <3>1. CASE run' = [run EXCEPT ![s] = Idle]
        BY <3>1, IdleType
    <3>2. CASE run' = [run EXCEPT ![s].pc = "debounce"]
        BY <1>1, <1>3, <3>2 DEF RunType
    <3>3. CASE run' = [run EXCEPT ![s].pc = "deliver"]
        BY <1>1, <1>3, <3>3 DEF RunType
    <3> QED BY <1>8, <3>1, <3>2, <3>3 DEF Commit, Goto, Over
  <2>2. seen' \in 0..level
    BY <1>1, <1>8 DEF Commit, RestOK, RunType, ReadInv
  <2>3. RestOK'
    BY <1>1, <1>8, <2>2 DEF Commit, RestOK
  <2> QED BY <1>2, <2>1, <2>3
<1>9. CASE Debounce(s) \/ Complete(s)
  <2>1. run' \in [Runs -> RunType]
    BY <1>9, IdleType DEF Debounce, Complete, Over
  <2>2. row' \in [status : {"none", "Waiting", "Processing"},
                  claim : Runs \cup {NoRun}, next : {"soon", "sweep"}]
    BY <1>1, <1>9, CompletedRow DEF Debounce, Complete, RunType
  <2>3. RestOK'
    BY <1>1, <1>9, <2>2 DEF Debounce, Complete, RestOK
  <2> QED BY <1>2, <2>1, <2>3
<1>10. CASE Deliver(s)
  <2>1. run' \in [Runs -> RunType]
    <3>1. PICK next \in {"soon", "sweep"} :
               run' = [run EXCEPT ![s].pc = "recheck", ![s].next = next]
        BY <1>10 DEF Deliver
    <3> QED BY <1>1, <1>3, <3>1 DEF RunType
  <2>2. RestOK'
    BY <1>1, <1>10 DEF Deliver, RestOK
  <2> QED BY <1>2, <2>1, <2>2
<1>11. CASE Recheck(s)
  <2>1. run' \in [Runs -> RunType]
    <3>1. PICK next \in {"soon", "sweep"} :
               run' = [run EXCEPT ![s].pc = "complete", ![s].gen = comp.gen, ![s].next = next]
        BY <1>1, <1>11 DEF Recheck, RunType
    <3>2. "complete" \in RunPcs
        BY <1>3
    <3>3. [run EXCEPT ![s].pc = "complete", ![s].gen = comp.gen, ![s].next = next]
              \in [Runs -> RunType]
        BY <1>1, <3>2, ThreeFields, Zenon DEF RunType
    <3> QED BY <3>1, <3>3
  <2>2. RestOK'
    BY <1>1, <1>11 DEF Recheck, RestOK
  <2> QED BY <1>2, <2>1, <2>2
<1>12. CASE RecheckError(s) \/ HandlerFails(s)
  <2>1. run' \in [Runs -> RunType]
    <3>1. CASE run' = [run EXCEPT ![s] = Idle]
        BY <3>1, IdleType
    <3>2. CASE run' = [run EXCEPT ![s].pc = "complete"]
        BY <1>1, <1>3, <3>2 DEF RunType
    <3> QED BY <1>12, <3>1, <3>2 DEF RecheckError, HandlerFails, Goto, Over
  <2>2. RestOK'
    BY <1>1, <1>12 DEF RecheckError, HandlerFails, Fault, RestOK
  <2> QED BY <1>2, <2>1, <2>2
<1> QED BY <1>4, <1>5, <1>6, <1>7, <1>8, <1>9, <1>10, <1>11, <1>12 DEF Handle

\* A handler's step takes the claim, reads, writes the state, or gives up.
LEMMA HandlerNext ==
    ASSUME IInv, NEW s \in Runs,
           Pull(s) \/ Handle(s) \/ RecheckError(s) \/ HandlerFails(s)
    PROVE  IInv'
<1> USE SchedulerAssumption DEF IInv
<1>1. CASE Pull(s)
  <2>1. TypeOK'
    BY HandlerTypes
  <2>2. Pending' = Pending
    BY <1>1 DEF Pull, Pending
  <2>3. CountInv' /\ ReadInv' /\ SweepInv'
    BY <1>1, <2>2 DEF Pull, Goto, TypeOK, CountInv, ReadInv, SweepInv
  <2>4. ClaimInv'
    BY <1>1, <2>2 DEF Pull, Goto, TypeOK, ClaimInv, Outdated
  <2> QED BY <2>1, <2>3, <2>4
<1>2. CASE ReadDefinition(s)
  <2>1. TypeOK'
    BY HandlerTypes
  <2>2. Pending' = Pending
    BY <1>2 DEF ReadDefinition, Pending
  <2>3. CountInv' /\ ReadInv' /\ SweepInv'
    BY <1>2, <2>2 DEF ReadDefinition, TypeOK, CountInv, ReadInv, SweepInv, Generations
  <2>4. ClaimInv'
    BY <1>2, <2>2 DEF ReadDefinition, TypeOK, ClaimInv, Outdated
  <2> QED BY <2>1, <2>3, <2>4
<1>3. CASE DropRow(s)
  <2>1. TypeOK'
    BY HandlerTypes
  <2>2. Pending' = Pending
    BY <1>3 DEF DropRow, Pending
  <2>3. CountInv' /\ ReadInv' /\ SweepInv'
    BY <1>3, <2>2 DEF DropRow, Dropped, NoRow, Over, Idle, TypeOK, CountInv, ReadInv,
                      SweepInv, Generations
  <2>4. ClaimInv'
    BY <1>3 DEF DropRow, Dropped, NoRow, ClaimInv
  <2> QED BY <2>1, <2>3, <2>4
<1>4. CASE ReadChildren(s)
  <2>1. TypeOK'
    BY HandlerTypes
  <2>2. Pending' = Pending
    BY <1>4 DEF ReadChildren, Pending
  <2>3. CountInv' /\ ReadInv' /\ SweepInv'
    BY <1>4, <2>2 DEF ReadChildren, TypeOK, CountInv, ReadInv, SweepInv
  <2>4. ClaimInv'
    BY <1>4, <2>2 DEF ReadChildren, TypeOK, ClaimInv, Outdated
  <2> QED BY <2>1, <2>3, <2>4
<1>5. CASE Commit(s)
  <2>0. Pending' = Pending
    BY <1>5 DEF Commit, Pending
  <2>1. CASE ~Holds(s)
    <3>1. run' = [run EXCEPT ![s] = Idle] /\ seen' = seen
        BY <1>5, <2>1 DEF Commit, Over
    <3>2. TypeOK'
        BY HandlerTypes DEF Handle
    <3>3. CountInv' /\ ReadInv' /\ SweepInv'
        BY <1>5, <2>0, <3>1 DEF Commit, Idle, TypeOK, CountInv, ReadInv, SweepInv, Generations
    <3>4. ClaimInv'
        BY <1>5, <2>0, <3>1 DEF Commit, Idle, TypeOK, ClaimInv, Outdated
    <3> QED BY <3>2, <3>3, <3>4
  <2>2. CASE Holds(s) /\ (~comp.enabled \/ comp.gen # run[s].gen)
    <3>1. run' = [run EXCEPT ![s].pc = "debounce"] /\ seen' = seen
        BY <1>5, <2>2 DEF Commit, Goto
    <3>2. TypeOK'
        BY HandlerTypes DEF Handle
    <3>3. CountInv' /\ ReadInv' /\ SweepInv'
        BY <1>5, <2>0, <3>1 DEF Commit, TypeOK, CountInv, ReadInv, SweepInv
    <3>4. ClaimInv'
        BY <1>5, <2>0, <3>1 DEF Commit, TypeOK, ClaimInv, Outdated
    <3> QED BY <3>2, <3>3, <3>4
  <2>3. CASE Holds(s) /\ comp.enabled /\ comp.gen = run[s].gen
    <3>1. /\ run' = [run EXCEPT ![s].pc = "deliver"] /\ seen' = run[s].level
          /\ row.claim = s /\ row.status = "Processing"
        BY <1>5, <2>3 DEF Commit, Goto, Holds
    <3>2. seen' \in 0..level
        BY <3>1 DEF TypeOK, ReadInv
    <3>3. TypeOK'
    BY HandlerTypes
    <3>4. CountInv' /\ ReadInv' /\ SweepInv'
        BY <1>5, <2>0, <3>1 DEF Commit, TypeOK, CountInv, ReadInv, SweepInv
    <3>5. ClaimInv'
        BY <1>5, <2>0, <3>1 DEF Commit, TypeOK, ClaimInv, Outdated
    <3> QED BY <3>3, <3>4, <3>5
  <2> QED BY <2>1, <2>2, <2>3 DEF TypeOK
<1>6. CASE Debounce(s)
  <2>0. Pending' = Pending
    BY <1>6 DEF Debounce, Pending
  <2>1. /\ row' \in [status : {"none", "Waiting", "Processing"},
                     claim : Runs \cup {NoRun}, next : {"soon", "sweep"}]
        /\ row'.claim = row.claim
        /\ row' = row \/ (row'.status = "Waiting" /\ row'.next = "soon")
    <3>1. row' = Completed(s, "soon")
        BY <1>6 DEF Debounce
    <3>2. "soon" \in {"soon", "sweep"}
        OBVIOUS
    <3> QED BY <3>1, <3>2, CompletedRow, Zenon
  <2>2. TypeOK'
    BY HandlerTypes
  <2>3. CountInv' /\ ReadInv' /\ SweepInv'
    BY <1>6, <2>0, <2>1 DEF Debounce, Over, Idle, TypeOK, CountInv, ReadInv, SweepInv, Generations
  <2>4. ClaimInv'
    BY <1>6, <2>0, <2>1 DEF Debounce, Over, Idle, TypeOK, ClaimInv, Outdated
  <2> QED BY <2>2, <2>3, <2>4
<1>7. CASE Deliver(s)
  <2>0. Pending' = Pending
    BY <1>7 DEF Deliver, Pending
  <2>1. TypeOK'
    BY HandlerTypes
  <2>2. CountInv' /\ ReadInv' /\ SweepInv'
    BY <1>7, <2>0 DEF Deliver, TypeOK, CountInv, ReadInv, SweepInv
  <2>3. ClaimInv'
    BY <1>7, <2>0 DEF Deliver, TypeOK, ClaimInv, Outdated
  <2> QED BY <2>1, <2>2, <2>3
<1>8. CASE Recheck(s)
  <2>0. Pending' = Pending
    BY <1>8 DEF Recheck, Pending
  <2>1. TypeOK'
    BY HandlerTypes
  <2>2. CountInv' /\ ReadInv' /\ SweepInv'
    BY <1>8, <2>0 DEF Recheck, TypeOK, CountInv, ReadInv, SweepInv, Generations
  <2>3. ClaimInv'
    BY <1>8, <2>0 DEF Recheck, TypeOK, ClaimInv, ReadInv, Outdated, Generations
  <2> QED BY <2>1, <2>2, <2>3
<1>9. CASE Complete(s)
  <2>0. Pending' = Pending
    BY <1>9 DEF Complete, Pending
  <2>1. /\ row' \in [status : {"none", "Waiting", "Processing"},
                     claim : Runs \cup {NoRun}, next : {"soon", "sweep"}]
        /\ row'.claim = row.claim
        /\ ~Holds(s) => row' = row
        /\ Holds(s) => row'.status = "Waiting" /\ row'.next = run[s].next
    BY <1>9, CompletedRow DEF Complete, TypeOK
  <2>2. TypeOK'
    BY HandlerTypes
  <2>3. CountInv' /\ ReadInv'
    BY <1>9, <2>0 DEF Complete, Over, Idle, TypeOK, CountInv, ReadInv, Generations
  <2>4. SweepInv'
    <3>1. CASE ~Holds(s)
        BY <1>9, <2>1, <3>1 DEF Complete, SweepInv
    <3>2. CASE Holds(s) /\ run[s].next = "sweep"
      <4>1. seen = level \/ Outdated(s)
        BY <1>9, <3>2 DEF Complete, ClaimInv, Holds
      <4>2. Pending # {} => \E l \in 1..MaxLevel : nudge[l].pc # "idle"
        BY DEF Pending
      <4> QED BY <1>9, <2>1, <3>2, <4>1, <4>2 DEF Complete, SweepInv, Outdated
    <3>3. CASE Holds(s) /\ run[s].next # "sweep"
        BY <2>1, <3>3 DEF SweepInv
    <3> QED BY <3>1, <3>2, <3>3
  <2>5. ClaimInv'
    BY <1>9, <2>0, <2>1 DEF Complete, Over, Idle, TypeOK, ClaimInv, Outdated
  <2> QED BY <2>2, <2>3, <2>4, <2>5
<1>10. CASE RecheckError(s)
  <2>0. Pending' = Pending
    BY <1>10 DEF RecheckError, Pending
  <2>1. TypeOK'
    BY HandlerTypes
  <2>2. CountInv' /\ ReadInv' /\ SweepInv'
    BY <1>10, <2>0 DEF RecheckError, Goto, TypeOK, CountInv, ReadInv, SweepInv
  <2>3. ClaimInv'
    BY <1>10, <2>0 DEF RecheckError, Goto, TypeOK, ClaimInv, Outdated
  <2> QED BY <2>1, <2>2, <2>3
<1>11. CASE HandlerFails(s)
  <2>0. Pending' = Pending
    BY <1>11 DEF HandlerFails, Pending
  <2>1. TypeOK'
    BY HandlerTypes
  <2>2. CountInv' /\ ReadInv' /\ SweepInv'
    BY <1>11, <2>0 DEF HandlerFails, Over, Idle, TypeOK, CountInv, ReadInv, SweepInv, Generations
  <2>3. ClaimInv'
    BY <1>11, <2>0 DEF HandlerFails, Over, Idle, TypeOK, ClaimInv, Outdated
  <2> QED BY <2>1, <2>2, <2>3
<1> QED BY <1>1, <1>2, <1>3, <1>4, <1>5, <1>6, <1>7, <1>8, <1>9, <1>10, <1>11 DEF Handle

----------------------------------------------------------------------------
(* The row of a claim that is handed back, and the child                    *)

\* watch_timeout changes the status only.
LEMMA LeaseNext ==
    ASSUME IInv, WatchTimeout \/ LeaseLapses
    PROVE  IInv'
<1> USE SchedulerAssumption DEF IInv
<1>1. /\ row' = [row EXCEPT !.status = "Waiting"] /\ row.status = "Processing"
      /\ UNCHANGED <<run, comp, level, seen, nudge, user, users, late, lost, orphan>>
      /\ faults' \in 0..MaxFault
    BY DEF WatchTimeout, LeaseLapses, Fault, TypeOK
<1>2. TypeOK'
    BY <1>1 DEF TypeOK
<1>3. Pending' = Pending
    BY <1>1 DEF Pending
<1>4. CountInv' /\ ReadInv' /\ SweepInv'
    BY <1>1, <1>3 DEF TypeOK, CountInv, ReadInv, SweepInv
<1>5. ClaimInv'
    BY <1>1, <1>3 DEF TypeOK, ClaimInv, Outdated
<1> QED BY <1>2, <1>4, <1>5

\* A row after update_trigger.
LEMMA AdvancedRow ==
    ASSUME TypeOK, NEW status \in {"Waiting", "Processing"}, row' = Advanced(status)
    PROVE  /\ row' \in [status : {"none", "Waiting", "Processing"},
                        claim : Runs \cup {NoRun}, next : {"soon", "sweep"}]
           /\ row'.claim = row.claim
           /\ row'.status = "none" \/ row'.next = "soon"
BY DEF TypeOK, Advanced

\* The child changes and nudges the composite; each advance of the generation
\* takes one change out of Pending.
LEMMA NudgeNext ==
    ASSUME IInv,
           ChildChanges \/ (\E l \in 1..MaxLevel : Nudges(l) \/ NudgeFails(l))
    PROVE  IInv'
<1> USE SchedulerAssumption DEF IInv
<1> DEFINE NudgeType == [pc : {"idle", "generation", "get", "put"},
                         status : {"Waiting", "Processing"}]
<1>1. nudge \in [1..MaxLevel -> NudgeType]
    BY DEF TypeOK
<1>2. CASE ChildChanges
  <2> DEFINE n == [pc |-> "generation", status |-> "Waiting"]
  <2>1. /\ level' = level + 1 /\ level' \in 1..MaxLevel
        /\ nudge' = [nudge EXCEPT ![level + 1] = n]
    BY <1>2 DEF ChildChanges, NudgeAt, TypeOK
  <2>2. TypeOK'
    <3>1. nudge' \in [1..MaxLevel -> NudgeType]
        BY <1>1, <2>1
    <3>2. seen' \in 0..level'
        BY <1>2, <2>1 DEF ChildChanges, TypeOK
    <3> QED BY <1>2, <2>1, <3>1, <3>2 DEF ChildChanges, TypeOK
  <2>3. Pending' = Pending \cup {level + 1}
    BY <1>1, <2>1 DEF Pending
  <2>4. Cardinality(Pending') \in Nat /\ Cardinality(Pending') <= Cardinality(Pending) + 1
    <3>1. /\ IsFiniteSet(Pending \cup {level + 1})
          /\ Cardinality(Pending \cup {level + 1}) =
                IF level + 1 \in Pending THEN Cardinality(Pending) ELSE Cardinality(Pending) + 1
        BY PendingFinite, FS_AddElement
    <3> QED BY <2>3, <3>1, PendingFinite
  <2>5. CountInv'
    <3>1. \A l \in 1..MaxLevel : nudge'[l].pc # "idle" => l <= level'
        BY <1>1, <2>1 DEF CountInv, TypeOK
    <3>2. comp.gen + Cardinality(Pending') <= level' - 1 + users
        BY <2>1, <2>4, PendingFinite DEF CountInv, TypeOK, Generations
    <3> QED BY <1>2, <3>1, <3>2 DEF ChildChanges, CountInv
  <2>6. ReadInv'
    BY <1>2, <2>1 DEF ChildChanges, ReadInv, TypeOK
  <2>7. ClaimInv'
    <3>1. \A s \in Runs : Outdated(s)'
        BY <2>3 DEF Outdated
    <3>2. \A s \in Runs : row.claim = s /\ run[s].pc = "commit" => seen <= run[s].level
        BY DEF ClaimInv
    <3> QED BY <1>2, <3>1, <3>2 DEF ChildChanges, ClaimInv
  <2>8. SweepInv'
    <3>1. nudge'[level + 1].pc # "idle" /\ level + 1 \in 1..MaxLevel
        BY <1>1, <2>1
    <3> QED BY <1>2, <3>1 DEF ChildChanges, SweepInv
  <2> QED BY <2>2, <2>5, <2>6, <2>7, <2>8
<1>3. ASSUME NEW l \in 1..MaxLevel, NudgeGeneration(l) PROVE IInv'
  <2> DEFINE n == [pc |-> "get", status |-> "Waiting"]
  <2>1. /\ nudge' = [nudge EXCEPT ![l] = n] /\ nudge[l].pc = "generation"
        /\ n.pc # "generation" /\ n \in NudgeType
    BY <1>3 DEF NudgeGeneration, NudgeAt
  <2>2. /\ Pending' = Pending \ {l}
        /\ Cardinality(Pending') \in Nat
        /\ Cardinality(Pending') = Cardinality(Pending) - 1
    BY <2>1, PendingLess, Zenon
  <2>3. comp'.gen = comp.gen + 1 /\ comp'.enabled = comp.enabled
    BY <1>3 DEF NudgeGeneration, TypeOK
  <2>4. comp' \in [enabled : BOOLEAN, gen : Generations]
    <3>1. comp.gen + 1 \in Generations
        BY GenerationBound DEF TypeOK, Generations
    <3> QED BY <1>3, <3>1 DEF NudgeGeneration, TypeOK
  <2>5. TypeOK'
    <3>1. nudge' \in [1..MaxLevel -> NudgeType]
        BY <1>1, <2>1
    <3> QED BY <1>3, <2>4, <3>1 DEF NudgeGeneration, TypeOK
  <2>6. CountInv'
    <3>1. \A k \in 1..MaxLevel : nudge'[k].pc # "idle" => k <= level
        BY <1>1, <2>1 DEF CountInv
    <3>2. comp'.gen + Cardinality(Pending') <= level - 1 + users
        BY <2>2, <2>3, PendingFinite DEF CountInv, TypeOK, Generations
    <3> QED BY <1>3, <3>1, <3>2 DEF NudgeGeneration, CountInv
  <2>7. ReadInv'
    BY <1>3, <2>3 DEF NudgeGeneration, ReadInv, TypeOK, Generations
  <2>8. ClaimInv'
    <3>1. \A s \in Runs : Outdated(s)'
        BY <1>3, <2>3 DEF NudgeGeneration, Outdated, ReadInv, TypeOK, Generations
    <3>2. \A s \in Runs : row.claim = s /\ run[s].pc = "commit" => seen <= run[s].level
        BY DEF ClaimInv
    <3> QED BY <1>3, <3>1, <3>2 DEF NudgeGeneration, ClaimInv
  <2>9. SweepInv'
    <3>1. \E k \in 1..MaxLevel : nudge'[k].pc # "idle"
        BY <1>1, <2>1
    <3> QED BY <1>3, <3>1 DEF NudgeGeneration, SweepInv
  <2> QED BY <2>5, <2>6, <2>7, <2>8, <2>9
<1>4. ASSUME NEW l \in 1..MaxLevel, NudgeGet(l) \/ NudgePut(l) \/ NudgeFails(l) PROVE IInv'
  <2>1. PICK n \in NudgeType :
            /\ nudge' = [nudge EXCEPT ![l] = n]
            /\ n.pc \in {"idle", "put"}
            /\ n.pc = "idle" => row'.status = "none" \/ row'.next = "soon" \/ lost'
    <3>1. CASE NudgeGet(l)
      <4>1. CASE row.status = "none"
        <5>1. [nudge[l] EXCEPT !.pc = "idle"] \in NudgeType
            BY <1>1
        <5> QED BY <1>1, <3>1, <4>1, <5>1 DEF NudgeGet
      <4>2. CASE row.status # "none"
        <5>1. [pc |-> "put", status |-> row.status] \in NudgeType
            BY <4>2 DEF TypeOK
        <5> QED BY <3>1, <4>2, <5>1 DEF NudgeGet
      <4> QED BY <4>1, <4>2
    <3>2. CASE NudgePut(l)
      <4>1. nudge[l].status \in {"Waiting", "Processing"}
        BY <1>1
      <4>2. row'.status = "none" \/ row'.next = "soon"
        BY <3>2, <4>1, AdvancedRow DEF NudgePut
      <4>3. [pc |-> "idle", status |-> "Waiting"] \in NudgeType
        OBVIOUS
      <4> QED BY <3>2, <4>2, <4>3 DEF NudgePut, NudgeAt
    <3>3. CASE NudgeFails(l)
      <4>1. [pc |-> "idle", status |-> "Waiting"] \in NudgeType
        OBVIOUS
      <4> QED BY <3>3, <4>1 DEF NudgeFails, NudgeAt
    <3> QED BY <1>4, <3>1, <3>2, <3>3
  <2>2. /\ row' \in [status : {"none", "Waiting", "Processing"},
                     claim : Runs \cup {NoRun}, next : {"soon", "sweep"}]
        /\ row'.claim = row.claim
        /\ row' = row \/ row'.status = "none" \/ row'.next = "soon"
    BY <1>1, <1>4, AdvancedRow DEF NudgeGet, NudgePut, NudgeFails, TypeOK
  <2>3. /\ UNCHANGED <<run, comp, level, seen, user, users, late, orphan>>
        /\ lost => lost'
        /\ NudgeFails(l) => lost'
        /\ lost' \in BOOLEAN /\ faults' \in 0..MaxFault
    <3>1. /\ UNCHANGED <<run, comp, level, seen, user, users, late, orphan>>
          /\ lost' = lost \/ lost' = TRUE
          /\ NudgeFails(l) => lost' = TRUE
        BY <1>4 DEF NudgeGet, NudgePut, NudgeFails
    <3>2. faults' \in 0..MaxFault
        BY <1>4 DEF NudgeGet, NudgePut, NudgeFails, Fault, TypeOK
    <3>3. lost \in BOOLEAN
        BY DEF TypeOK
    <3>4. /\ lost => lost'
          /\ NudgeFails(l) => lost'
          /\ lost' \in BOOLEAN
      <4>1. CASE lost' = lost
        BY <3>1, <3>3, <4>1
      <4>2. CASE lost' = TRUE
        BY <4>2
      <4> QED BY <3>1, <4>1, <4>2
    <3> QED BY <3>1, <3>2, <3>4, Zenon
  <2>4. TypeOK'
    <3>1. nudge' \in [1..MaxLevel -> NudgeType]
        BY <1>1, <2>1
    <3> QED BY <2>2, <2>3, <3>1 DEF TypeOK
  <2>5. /\ Pending' = Pending \ {l} /\ Cardinality(Pending') \in Nat
        /\ Cardinality(Pending') <= Cardinality(Pending)
    BY <2>1, PendingLess
  <2>6. CountInv'
    <3>1. \A k \in 1..MaxLevel : nudge'[k].pc # "idle" => k <= level
        BY <1>1, <1>4, <2>1 DEF CountInv, NudgeGet, NudgePut, NudgeFails
    <3> QED BY <2>3, <2>5, <3>1, PendingFinite DEF CountInv, TypeOK, Generations
  <2>7. ReadInv'
    BY <2>3 DEF ReadInv
  <2>8. ClaimInv'
    <3>1. \A s \in Runs : Outdated(s) => Outdated(s)'
      <4>1. nudge[l].pc = "generation" => lost'
        BY <1>4, <2>3 DEF NudgeGet, NudgePut
      <4>2. l \notin Pending => Pending' = Pending
        BY <2>5
      <4> QED BY <2>3, <4>1, <4>2 DEF Outdated, Pending
    <3> QED BY <2>2, <2>3, <3>1 DEF ClaimInv
  <2>9. SweepInv'
    <3>1. n.pc = "put" => \E k \in 1..MaxLevel : nudge'[k].pc # "idle"
        BY <1>1, <2>1
    <3>2. CASE n.pc = "put"
        BY <2>2, <2>3, <3>1, <3>2 DEF SweepInv
    <3>3. CASE n.pc = "idle"
        BY <2>1, <2>2, <2>3, <3>3 DEF SweepInv
    <3> QED BY <2>1, <3>2, <3>3
  <2> QED BY <2>4, <2>6, <2>7, <2>8, <2>9
<1> QED BY <1>2, <1>3, <1>4 DEF Nudges

----------------------------------------------------------------------------
(* The composite API                                                        *)

UserType == [pc : {"idle", "delete", "definition", "get", "advance", "put", "push"},
             status : {"Waiting", "Processing"}]

\* A request changes the definition: the generation grows with the count of
\* requests, so every run that has read it before is outdated.
LEMMA RequestNext ==
    ASSUME IInv, NEW u \in Users,
           \/ \E on \in BOOLEAN : SetEnabled(u, on) \/ UpdateComposite(u, on)
           \/ TriggerComposite(u)
    PROVE  IInv'
<1> USE SchedulerAssumption DEF IInv
<1>1. /\ comp'.gen = comp.gen + 1 /\ comp' \in [enabled : BOOLEAN, gen : {comp.gen + 1}]
      /\ users' = users + 1 /\ users < MaxUser
      /\ UNCHANGED <<row, run, level, seen, nudge, faults, late, lost, orphan>>
  <2>1. comp' \in [enabled : BOOLEAN, gen : {comp.gen + 1}]
    <3>1. comp \in [enabled : BOOLEAN, gen : Generations]
        BY DEF TypeOK
    <3>2. CASE TriggerComposite(u)
        BY <3>1, <3>2 DEF TriggerComposite
    <3>3. CASE \E on \in BOOLEAN : SetEnabled(u, on) \/ UpdateComposite(u, on)
        BY <3>3 DEF SetEnabled, UpdateComposite
    <3> QED BY <3>2, <3>3
  <2>2. /\ users' = users + 1 /\ users < MaxUser
        /\ UNCHANGED <<row, run, level, seen, nudge, faults, late, lost, orphan>>
    BY DEF SetEnabled, UpdateComposite, TriggerComposite, NewRequest
  <2> QED BY <2>1, <2>2
<1>2. user' \in [Users -> UserType]
  <2>1. user \in [Users -> UserType]
    BY DEF TypeOK, UserType
  <2> QED BY <2>1 DEF SetEnabled, UpdateComposite, TriggerComposite, UserAt, UserType
<1>3. Pending' = Pending
    BY <1>1 DEF Pending
<1>4. CountInv'
    BY <1>1, <1>3, PendingFinite DEF CountInv, TypeOK, Generations
<1>5. TypeOK'
  <2>1. comp.gen + 1 \in Generations /\ users + 1 \in 0..MaxUser
    BY <1>1, GenerationBound DEF TypeOK, Generations
  <2>2. comp' \in [enabled : BOOLEAN, gen : Generations] /\ users' \in 0..MaxUser
    BY <1>1, <2>1
  <2> QED BY <1>1, <1>2, <2>2 DEF TypeOK, UserType
<1>6. ReadInv' /\ SweepInv'
    BY <1>1 DEF ReadInv, SweepInv, TypeOK, Generations
<1>7. ClaimInv'
  <2>1. \A s \in Runs : Outdated(s)'
    BY <1>1 DEF Outdated, ReadInv, TypeOK, Generations
  <2>2. \A s \in Runs : row.claim = s /\ run[s].pc = "commit" => seen <= run[s].level
    BY DEF ClaimInv
  <2> QED BY <1>1, <2>1, <2>2 DEF ClaimInv
<1> QED BY <1>4, <1>5, <1>6, <1>7

\* A request goes on: it reads, rewrites, pushes or deletes the row, or fails.
LEMMA ServeNext ==
    ASSUME IInv, NEW u \in Users, Serve(u) \/ GetError(u) \/ UserFails(u)
    PROVE  IInv'
<1> USE SchedulerAssumption DEF IInv
<1>1. user \in [Users -> UserType]
    BY DEF TypeOK, UserType
<1>2. user' \in [Users -> UserType]
  <2>1. CASE AdvanceGet(u) \/ ScheduleGet(u)
    <3>1. row.status # "none" => row.status \in {"Waiting", "Processing"}
        BY DEF TypeOK
    <3> QED BY <1>1, <2>1, <3>1 DEF AdvanceGet, ScheduleGet, UserType
  <2>2. CASE ~(AdvanceGet(u) \/ ScheduleGet(u))
    BY <1>1, <2>2 DEF Serve, ReadForSchedule, GetError, UserPut, UserPush, UserDelete,
                      UserFails, UserAt, UserType
  <2> QED BY <2>1, <2>2
<1>3. /\ row' \in [status : {"none", "Waiting", "Processing"},
                   claim : Runs \cup {NoRun}, next : {"soon", "sweep"}]
      /\ row'.claim \in {row.claim, NoRun}
      /\ row' = row \/ row'.status = "none" \/ row'.next = "soon"
  <2>1. CASE UserPut(u)
    <3>1. user[u].status \in {"Waiting", "Processing"}
        BY <1>1 DEF UserType
    <3> QED BY <2>1, <3>1, AdvancedRow DEF UserPut
  <2>2. CASE UserPush(u) \/ UserDelete(u)
    BY <2>2 DEF UserPush, NewRow, UserDelete, Dropped, NoRow, TypeOK
  <2>3. CASE ~(UserPut(u) \/ UserPush(u) \/ UserDelete(u))
    <3>1. row' = row
        BY <2>3 DEF Serve, AdvanceGet, ReadForSchedule, ScheduleGet, GetError, UserFails
    <3> QED BY <3>1 DEF TypeOK
  <2> QED BY <2>1, <2>2, <2>3
<1>4. UNCHANGED <<run, comp, level, seen, nudge, users, late, lost>>
    BY DEF Serve, AdvanceGet, ReadForSchedule, ScheduleGet, UserPut, UserPush, UserDelete,
           GetError, UserFails
<1>5. faults' \in 0..MaxFault
    BY DEF Serve, AdvanceGet, ReadForSchedule, ScheduleGet, UserPut, UserPush, UserDelete,
           GetError, UserFails, Fault, TypeOK
<1>6. orphan' \in BOOLEAN
  <2>1. orphan \in BOOLEAN
    BY DEF TypeOK
  <2> QED BY <2>1 DEF Serve, AdvanceGet, ReadForSchedule, ScheduleGet, UserPut, UserPush,
                      UserDelete, Dropped, GetError, UserFails
<1>7. TypeOK'
    BY <1>2, <1>3, <1>4, <1>5, <1>6 DEF TypeOK, UserType
<1>8. Pending' = Pending
    BY <1>4 DEF Pending
<1>9. CountInv' /\ ReadInv'
    BY <1>4, <1>8 DEF CountInv, ReadInv
<1>10. ClaimInv'
    BY <1>3, <1>4, <1>8 DEF ClaimInv, Outdated
<1>11. SweepInv'
    BY <1>3, <1>4 DEF SweepInv
<1> QED BY <1>7, <1>9, <1>10, <1>11

----------------------------------------------------------------------------
(* The theorems                                                             *)

\* The inductive invariant holds throughout.
LEMMA SchedulerInductive == Spec => []IInv
<1>1. IInv /\ [Next]_vars => IInv'
  <2> SUFFICES ASSUME IInv, [Next]_vars PROVE IInv'
    OBVIOUS
  <2>1. CASE UNCHANGED vars
    <3>1. Pending' = Pending
        BY <2>1 DEF vars, Pending
    <3> QED BY <2>1, <3>1 DEF vars, IInv, TypeOK, CountInv, ReadInv, ClaimInv, Outdated, SweepInv
  <2>2. CASE Next
    BY <2>2, HandlerNext, LeaseNext, NudgeNext, RequestNext, ServeNext DEF Next
  <2> QED BY <2>1, <2>2
<1> QED BY <1>1, SchedulerInit, PTL DEF Spec

(* Type correctness for any number of handlers, requests and faults; the   *)
(* composite has seen no state of its child that the child was not in, and *)
(* the generation is advanced once per change or request.                  *)
THEOREM SchedulerTypes == Spec => []TypeOK
<1>1. IInv => TypeOK
    BY DEF IInv
<1> QED BY <1>1, SchedulerInductive, PTL

(* No wakeup is lost: a row that sleeps until the sweep has seen its       *)
(* child's last state, or the nudge is under way, died, or came between    *)
(* the last look at the generation and the completion (handlers.rs,        *)
(* "Lost-wakeup protection").                                              *)
THEOREM NoWakeupLost == Spec => []WakeupKept
<1>1. IInv => WakeupKept
    BY DEF IInv, SweepInv, WakeupKept
<1> QED BY <1>1, SchedulerInductive, PTL

(* The composite's state never goes back to an older one of its child: the *)
(* claim fences the state transaction (renew_claim_in_transaction), even   *)
(* when nudges and requests set the row's status under the handler.        *)
THEOREM StateNeverBackwards == Spec => NeverBackwards
<1>1. IInv /\ [Next]_vars => [seen' >= seen]_vars
  <2> SUFFICES ASSUME IInv, Next PROVE seen' >= seen
    OBVIOUS
  <2>1. CASE \E s \in Runs : Commit(s)
    <3>1. PICK s \in Runs : Commit(s)
        BY <2>1
    <3>2. seen' = seen \/ (seen' = run[s].level /\ row.claim = s /\ run[s].pc = "commit")
        BY <3>1 DEF Commit, Holds
    <3> QED BY <3>2 DEF IInv, TypeOK, ClaimInv
  <2>2. CASE ~(\E s \in Runs : Commit(s))
    <3>1. seen' = seen
        BY <2>2 DEF Next, Handle, Nudges, Serve, Pull, ReadDefinition, DropRow, ReadChildren,
            Debounce, Deliver, Recheck, Complete, RecheckError, HandlerFails, WatchTimeout,
            LeaseLapses, ChildChanges, NudgeGeneration, NudgeGet, NudgePut, NudgeFails,
            SetEnabled, UpdateComposite, TriggerComposite, AdvanceGet, ReadForSchedule,
            ScheduleGet, UserPut, UserPush, UserDelete, GetError, UserFails
    <3> QED BY <3>1 DEF IInv, TypeOK
  <2> QED BY <2>1, <2>2
<1> QED BY <1>1, SchedulerInductive, PTL DEF Spec, NeverBackwards
============================================================================
