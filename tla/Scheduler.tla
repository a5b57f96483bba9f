----------------------------- MODULE Scheduler -----------------------------
(***************************************************************************)
(* One row of scheduled_jobs whose module completes by claim, with the     *)
(* composite alert it runs (core/src/alerts/scheduler,                     *)
(* core/src/alerts/composite, infra/src/scheduler).                        *)
(*                                                                         *)
(* A scheduler node pulls a due row, which gives it the claim; it reads    *)
(* the composite's definition and its children's states, commits the       *)
(* result in a transaction that is fenced by the claim and by the          *)
(* definition's evaluation generation, delivers it, and completes the      *)
(* claim.  watch_timeout hands the row of a lost claim back.  A child      *)
(* whose state changed nudges the composite: it advances the generation,   *)
(* then rewrites the row, outside every fence.  Users enable, disable,     *)
(* edit and trigger the composite, rewriting the row in the same way.      *)
(*                                                                         *)
(* Abstractions.  id and claim_epoch are only compared for equality, and a *)
(* pull makes a new pair: row.claim is the run that made the last pull, or *)
(* NoRun in a row nobody pulled yet.  next_run_at is "soon" (due, or due   *)
(* within the debounce) or "sweep" (the periodic sweep, or a child's stale *)
(* deadline); both come.  end_time is left out: the lease of a claim ends  *)
(* once nobody keeps it alive.  The children's states are one number that  *)
(* grows with every change.                                                *)
(***************************************************************************)
EXTENDS Naturals, FiniteSets

CONSTANTS
    Runs,      \* handlers that run triggers, each on a node of its own
    NoRun,     \* no claim
    Users,     \* requests of the composite API that may be under way at once
    MaxLevel,  \* bound: states the child goes through
    MaxUser,   \* bound: requests of users
    MaxFault   \* bound: faults (crashes, errors, lapsed leases)

ASSUME SchedulerAssumption ==
    /\ NoRun \notin Runs
    /\ MaxLevel \in Nat \ {0}
    /\ MaxUser \in Nat
    /\ MaxFault \in Nat

VARIABLES
    row,       \* the row of scheduled_jobs
    run,       \* run[s]: the trigger handler s is in
    comp,      \* the row of alert_composites
    level,     \* the child's rollup state
    seen,      \* the child's state the composite's own state reflects
    nudge,     \* nudge[l]: nudge_composite_parents after the change to l
    user,      \* user[u]: the request u is in
    users,     \* requests of users so far
    faults,    \* faults so far
    late,      \* the last completion missed an advance of the generation
    lost,      \* a nudge died since the last pull
    orphan     \* an enabled composite lost its row

vars == <<row, run, comp, level, seen, nudge, user, users, faults, late, lost,
          orphan>>

----------------------------------------------------------------------------
(* The row of scheduled_jobs.                                               *)

NoRow == [status |-> "none", claim |-> NoRun, next |-> "sweep"]

(* What schedule_definition pushes. *)
NewRow == [status |-> "Waiting", claim |-> NoRun, next |-> "soon"]

(* update_trigger(clone = false) after next_run_at was lowered: status and  *)
(* next_run_at are the caller's, the claim stays; a row that is gone stays  *)
(* gone.                                                                    *)
Advanced(status) ==
    IF row.status = "none"
    THEN row
    ELSE [row EXCEPT !.status = status, !.next = "soon"]

(* The WHERE clause of COMPLETE_CLAIM_QUERY and renew_claim_in_transaction. *)
Holds(s) == row.status = "Processing" /\ row.claim = s

(* complete_claim: only for the claim that still holds the row. *)
Completed(s, next) ==
    IF Holds(s)
    THEN [row EXCEPT !.status = "Waiting", !.next = next]
    ELSE row

Idle == [pc |-> "idle", gen |-> 0, level |-> 0, next |-> "sweep"]

Fault == faults < MaxFault /\ faults' = faults + 1

Goto(s, pc) == run' = [run EXCEPT ![s].pc = pc]

Over(s) == run' = [run EXCEPT ![s] = Idle]

(* A delete decided on a definition that has changed since. *)
Dropped ==
    /\ row' = NoRow
    /\ orphan' = (orphan \/ comp.enabled)

----------------------------------------------------------------------------
(* The scheduler nodes.                                                     *)

(* PULL_QUERY: a waiting row that is due becomes this run's claim; its      *)
(* next_run_at stays in the past.                                           *)
Pull(s) ==
    /\ run[s].pc = "idle"
    /\ row.status = "Waiting"
    /\ row' = [status |-> "Processing", claim |-> s, next |-> "soon"]
    /\ Goto(s, "pulled")
    /\ late' = FALSE
    /\ lost' = FALSE
    /\ UNCHANGED <<comp, level, seen, nudge, user, users, faults, orphan>>

(* The definition is read; without an enabled one the row is to be deleted. *)
ReadDefinition(s) ==
    /\ run[s].pc = "pulled"
    /\ run' = [run EXCEPT ![s] =
                 IF comp.enabled
                 THEN [@ EXCEPT !.pc = "children", !.gen = comp.gen]
                 ELSE [@ EXCEPT !.pc = "drop"]]
    /\ UNCHANGED <<row, comp, level, seen, nudge, user, users, faults, late,
                   lost, orphan>>

(* scheduler::delete for a disabled composite, whoever holds the row now. *)
DropRow(s) ==
    /\ run[s].pc = "drop"
    /\ Dropped
    /\ Over(s)
    /\ UNCHANGED <<comp, level, seen, nudge, user, users, faults, late, lost>>

(* The children's rollups are read and the expression is evaluated. *)
ReadChildren(s) ==
    /\ run[s].pc = "children"
    /\ run' = [run EXCEPT ![s].pc = "commit", ![s].level = level]
    /\ UNCHANGED <<row, comp, level, seen, nudge, user, users, faults, late,
                   lost, orphan>>

\* Mutant of Commit: the transaction does not check the claim.
CommitUnfenced(s) ==
    /\ run[s].pc = "commit"
    /\ IF ~comp.enabled \/ comp.gen # run[s].gen
       THEN Goto(s, "debounce") /\ UNCHANGED seen
       ELSE Goto(s, "deliver") /\ seen' = run[s].level
    /\ UNCHANGED <<row, comp, level, nudge, user, users, faults, late, lost,
                   orphan>>

(* The state transaction: a stale claim gives up silently, a definition     *)
(* that moved on since it was read is evaluated again after the debounce,   *)
(* otherwise the composite's state is written.                              *)
Commit(s) ==
    /\ run[s].pc = "commit"
    /\ IF ~Holds(s)
       THEN Over(s) /\ UNCHANGED seen
       ELSE IF ~comp.enabled \/ comp.gen # run[s].gen
       THEN Goto(s, "debounce") /\ UNCHANGED seen
       ELSE Goto(s, "deliver") /\ seen' = run[s].level
    /\ UNCHANGED <<row, comp, level, nudge, user, users, faults, late, lost,
                   orphan>>

(* complete_claim with now + debounce, after the rollback. *)
Debounce(s) ==
    /\ run[s].pc = "debounce"
    /\ row' = Completed(s, "soon")
    /\ Over(s)
    /\ UNCHANGED <<comp, level, seen, nudge, user, users, faults, late, lost,
                   orphan>>

(* The notification is sent or silenced; a failed delivery is due again in  *)
(* ten seconds.                                                             *)
Deliver(s) ==
    /\ run[s].pc = "deliver"
    /\ \E next \in {"soon", "sweep"} :
          run' = [run EXCEPT ![s].pc = "recheck", ![s].next = next]
    /\ UNCHANGED <<row, comp, level, seen, nudge, user, users, faults, late,
                   lost, orphan>>

\* Mutant of Recheck: the generation is read but not compared.
RecheckIgnores(s) ==
    /\ run[s].pc = "recheck"
    /\ run' = [run EXCEPT ![s].pc = "complete", ![s].gen = comp.gen]
    /\ UNCHANGED <<row, comp, level, seen, nudge, user, users, faults, late,
                   lost, orphan>>

(* current_generation: a newer one keeps the next run within the debounce. *)
Recheck(s) ==
    /\ run[s].pc = "recheck"
    /\ run' = [run EXCEPT ![s].pc = "complete", ![s].gen = comp.gen,
                          ![s].next = IF comp.gen > run[s].gen THEN "soon" ELSE @]
    /\ UNCHANGED <<row, comp, level, seen, nudge, user, users, faults, late,
                   lost, orphan>>

(* current_generation fails: the deadline stays as it was chosen. *)
RecheckError(s) ==
    /\ run[s].pc = "recheck"
    /\ Fault
    /\ Goto(s, "complete")
    /\ UNCHANGED <<row, comp, level, seen, nudge, user, users, late, lost, orphan>>

(* complete_claim, with the deadline chosen before. *)
Complete(s) ==
    /\ run[s].pc = "complete"
    /\ row' = Completed(s, run[s].next)
    /\ late' = (late \/ (Holds(s) /\ comp.gen > run[s].gen))
    /\ Over(s)
    /\ UNCHANGED <<comp, level, seen, nudge, user, users, faults, lost, orphan>>

(* A step of the handler fails and the worker only logs it, or the node     *)
(* dies: the row stays as it is and nobody keeps the claim alive.           *)
HandlerFails(s) ==
    /\ run[s].pc # "idle"
    /\ Fault
    /\ Over(s)
    /\ UNCHANGED <<row, comp, level, seen, nudge, user, users, late, lost,
                   orphan>>

(* Nobody renews the lease of the row: its holder's handler is over. *)
Abandoned == row.claim \in Runs => run[row.claim].pc = "idle"

\* Mutant of WatchTimeout: the two states of the query are swapped.
WatchTimeoutSwapped ==
    /\ row.status = "Waiting"
    /\ Abandoned
    /\ row' = [row EXCEPT !.status = "Processing"]
    /\ UNCHANGED <<run, comp, level, seen, nudge, user, users, faults, late,
                   lost, orphan>>

(* WATCH_TIMEOUT_QUERY on a row whose lease ran out. *)
WatchTimeout ==
    /\ row.status = "Processing"
    /\ Abandoned
    /\ row' = [row EXCEPT !.status = "Waiting"]
    /\ UNCHANGED <<run, comp, level, seen, nudge, user, users, faults, late,
                   lost, orphan>>

(* The same while the holder still works: a keep-alive was late, failed, or *)
(* passed its maximum lifetime.                                             *)
LeaseLapses ==
    /\ row.status = "Processing"
    /\ ~Abandoned
    /\ Fault
    /\ row' = [row EXCEPT !.status = "Waiting"]
    /\ UNCHANGED <<run, comp, level, seen, nudge, user, users, late, lost,
                   orphan>>

----------------------------------------------------------------------------
(* The child: its rollup changes, then it nudges the composite.             *)

NudgeAt(l, pc) == nudge' = [nudge EXCEPT ![l] = [pc |-> pc, status |-> "Waiting"]]

ChildChanges ==
    /\ level < MaxLevel
    /\ level' = level + 1
    /\ NudgeAt(level + 1, "generation")
    /\ UNCHANGED <<row, run, comp, seen, user, users, faults, late, lost,
                   orphan>>

(* increment_evaluation_generation comes first. *)
NudgeGeneration(l) ==
    /\ nudge[l].pc = "generation"
    /\ comp' = [comp EXCEPT !.gen = @ + 1]
    /\ NudgeAt(l, "get")
    /\ UNCHANGED <<row, run, level, seen, user, users, faults, late, lost,
                   orphan>>

\* Mutant of NudgeGet: a missing row is not noticed.
NudgeGetUnchecked(l) ==
    /\ nudge[l].pc = "get"
    /\ nudge' = [nudge EXCEPT ![l] = [pc |-> "put", status |-> row.status]]
    /\ UNCHANGED <<row, run, comp, level, seen, user, users, faults, late, lost,
                   orphan>>

(* scheduler::get: the whole row is read; without one there is no more to do. *)
NudgeGet(l) ==
    /\ nudge[l].pc = "get"
    /\ nudge' = [nudge EXCEPT ![l] =
                   IF row.status = "none"
                   THEN [@ EXCEPT !.pc = "idle"]
                   ELSE [pc |-> "put", status |-> row.status]]
    /\ UNCHANGED <<row, run, comp, level, seen, user, users, faults, late, lost,
                   orphan>>

(* update_trigger: the status that was read is written back. *)
NudgePut(l) ==
    /\ nudge[l].pc = "put"
    /\ row' = Advanced(nudge[l].status)
    /\ NudgeAt(l, "idle")
    /\ UNCHANGED <<run, comp, level, seen, user, users, faults, late, lost,
                   orphan>>

(* An error, which is only logged, or a crash of the child's node. *)
NudgeFails(l) ==
    /\ nudge[l].pc # "idle"
    /\ Fault
    /\ lost' = TRUE
    /\ NudgeAt(l, "idle")
    /\ UNCHANGED <<row, run, comp, level, seen, user, users, late, orphan>>

----------------------------------------------------------------------------
(* The composite API.                                                       *)

UserAt(u, pc) == user' = [user EXCEPT ![u] = [pc |-> pc, status |-> "Waiting"]]

NewRequest(u) ==
    /\ user[u].pc = "idle"
    /\ users < MaxUser
    /\ users' = users + 1

(* set_composite_enabled: the definition first, then the row. *)
SetEnabled(u, on) ==
    /\ NewRequest(u)
    /\ comp' = [enabled |-> on, gen |-> comp.gen + 1]
    /\ UserAt(u, IF on THEN "definition" ELSE "delete")
    /\ UNCHANGED <<row, run, level, seen, nudge, faults, late, lost, orphan>>

(* update_composite: the replaced definition is scheduled when it is        *)
(* enabled; the row of a disabled one is left to the handler.               *)
UpdateComposite(u, on) ==
    /\ NewRequest(u)
    /\ comp' = [enabled |-> on, gen |-> comp.gen + 1]
    /\ UserAt(u, IF on THEN "get" ELSE "idle")
    /\ UNCHANGED <<row, run, level, seen, nudge, faults, late, lost, orphan>>

(* trigger_composite: the generation, then the row. *)
TriggerComposite(u) ==
    /\ NewRequest(u)
    /\ comp' = [comp EXCEPT !.gen = @ + 1]
    /\ UserAt(u, "advance")
    /\ UNCHANGED <<row, run, level, seen, nudge, faults, late, lost, orphan>>

(* increment_and_advance reads the row, and the definition without one. *)
AdvanceGet(u) ==
    /\ user[u].pc = "advance"
    /\ user' = [user EXCEPT ![u] =
                  IF row.status = "none"
                  THEN [@ EXCEPT !.pc = "definition"]
                  ELSE [pc |-> "put", status |-> row.status]]
    /\ UNCHANGED <<row, run, comp, level, seen, nudge, users, faults, late, lost,
                   orphan>>

(* schedule_definition does nothing for a disabled definition. *)
ReadForSchedule(u) ==
    /\ user[u].pc = "definition"
    /\ UserAt(u, IF comp.enabled THEN "get" ELSE "idle")
    /\ UNCHANGED <<row, run, comp, level, seen, nudge, users, faults, late, lost,
                   orphan>>

(* schedule_definition reads the row: one that is there will be set to      *)
(* Waiting, whoever is running it.                                          *)
ScheduleGet(u) ==
    /\ user[u].pc = "get"
    /\ user' = [user EXCEPT ![u] =
                  IF row.status = "none"
                  THEN [@ EXCEPT !.pc = "push"]
                  ELSE [pc |-> "put", status |-> "Waiting"]]
    /\ UNCHANGED <<row, run, comp, level, seen, nudge, users, faults, late, lost,
                   orphan>>

(* scheduler::get fails, which both callers take for a missing row. *)
GetError(u) ==
    /\ user[u].pc \in {"advance", "get"}
    /\ Fault
    /\ UserAt(u, IF user[u].pc = "advance" THEN "definition" ELSE "push")
    /\ UNCHANGED <<row, run, comp, level, seen, nudge, users, late, lost, orphan>>

UserPut(u) ==
    /\ user[u].pc = "put"
    /\ row' = Advanced(user[u].status)
    /\ UserAt(u, "idle")
    /\ UNCHANGED <<run, comp, level, seen, nudge, users, faults, late, lost,
                   orphan>>

(* push: INSERT ... ON CONFLICT DO NOTHING. *)
UserPush(u) ==
    /\ user[u].pc = "push"
    /\ row' = IF row.status = "none" THEN NewRow ELSE row
    /\ UserAt(u, "idle")
    /\ UNCHANGED <<run, comp, level, seen, nudge, users, faults, late, lost,
                   orphan>>

UserDelete(u) ==
    /\ user[u].pc = "delete"
    /\ Dropped
    /\ UserAt(u, "idle")
    /\ UNCHANGED <<run, comp, level, seen, nudge, users, faults, late, lost>>

(* The row's write fails, which is only logged, or the node dies. *)
UserFails(u) ==
    /\ user[u].pc # "idle"
    /\ Fault
    /\ orphan' = (orphan \/ (comp.enabled /\ row.status = "none"))
    /\ UserAt(u, "idle")
    /\ UNCHANGED <<row, run, comp, level, seen, nudge, users, late, lost>>

----------------------------------------------------------------------------
Init ==
    /\ row = NewRow
    /\ run = [s \in Runs |-> Idle]
    /\ comp = [enabled |-> TRUE, gen |-> 0]
    /\ level = 1
    /\ seen = 0
    /\ nudge = [l \in 1..MaxLevel |-> [pc |-> "idle", status |-> "Waiting"]]
    /\ user = [u \in Users |-> [pc |-> "idle", status |-> "Waiting"]]
    /\ users = 0
    /\ faults = 0
    /\ late = FALSE
    /\ lost = FALSE
    /\ orphan = FALSE

Handle(s) ==
    \/ ReadDefinition(s)
    \/ DropRow(s)
    \/ ReadChildren(s)
    \/ Commit(s)
    \/ Debounce(s)
    \/ Deliver(s)
    \/ Recheck(s)
    \/ Complete(s)

Nudges(l) ==
    \/ NudgeGeneration(l)
    \/ NudgeGet(l)
    \/ NudgePut(l)

Serve(u) ==
    \/ AdvanceGet(u)
    \/ ReadForSchedule(u)
    \/ ScheduleGet(u)
    \/ UserPut(u)
    \/ UserPush(u)
    \/ UserDelete(u)

Next ==
    \/ \E s \in Runs : Pull(s) \/ Handle(s) \/ RecheckError(s) \/ HandlerFails(s)
    \/ WatchTimeout
    \/ LeaseLapses
    \/ ChildChanges
    \/ \E l \in 1..MaxLevel : Nudges(l) \/ NudgeFails(l)
    \/ \E u \in Users :
          \/ \E on \in BOOLEAN : SetEnabled(u, on) \/ UpdateComposite(u, on)
          \/ TriggerComposite(u)
          \/ Serve(u)
          \/ GetError(u)
          \/ UserFails(u)

Spec == Init /\ [][Next]_vars

(* The pollers and watch_timeout run at every interval, on whichever node;  *)
(* a handler, a nudge and a request that has started goes on unless it      *)
(* fails.  Nothing obliges a user or a child to act, or a fault to happen.  *)
Fairness ==
    /\ WF_vars(\E s \in Runs : Pull(s))
    /\ WF_vars(WatchTimeout)
    /\ \A s \in Runs : WF_vars(Handle(s))
    /\ \A l \in 1..MaxLevel : WF_vars(Nudges(l))
    /\ \A u \in Users : WF_vars(Serve(u))

FairSpec == Spec /\ Fairness

----------------------------------------------------------------------------
Generations == 0..(MaxLevel + MaxUser)

RunPcs == {"idle", "pulled", "drop", "children", "commit", "debounce",
           "deliver", "recheck", "complete"}

(* The types of the state; the composite has seen no state of its child     *)
(* that the child was not in.                                               *)
TypeOK ==
    /\ row \in [status : {"none", "Waiting", "Processing"},
                claim : Runs \cup {NoRun}, next : {"soon", "sweep"}]
    /\ run \in [Runs -> [pc : RunPcs, gen : Generations, level : 0..MaxLevel,
                         next : {"soon", "sweep"}]]
    /\ comp \in [enabled : BOOLEAN, gen : Generations]
    /\ level \in 1..MaxLevel
    /\ seen \in 0..level
    /\ nudge \in [1..MaxLevel -> [pc : {"idle", "generation", "get", "put"},
                                  status : {"Waiting", "Processing"}]]
    /\ user \in [Users -> [pc : {"idle", "delete", "definition", "get", "advance",
                                 "put", "push"},
                           status : {"Waiting", "Processing"}]]
    /\ users \in 0..MaxUser
    /\ faults \in 0..MaxFault
    /\ {late, lost, orphan} \subseteq BOOLEAN

(* A composite's state never goes back to an older state of its child:      *)
(* a handler that lost its claim (a lapsed lease, or a nudge or an edit     *)
(* that set the row back to Waiting under it) cannot write over the result  *)
(* of the handler that took over (renew_claim_in_transaction,               *)
(* infra/src/scheduler/mod.rs:187).                                         *)
NeverBackwards == [][seen' >= seen]_vars

(* No wakeup is lost: a row that sleeps until the sweep belongs to a        *)
(* composite that has seen its child's last state, unless the nudge is      *)
(* still under way, it died, or it fell between the last look at the        *)
(* generation and the completion (handlers.rs, "Lost-wakeup protection").   *)
WakeupKept ==
    row.status = "Waiting" /\ row.next = "sweep" /\ comp.enabled =>
        \/ seen = level
        \/ \E l \in 1..MaxLevel : nudge[l].pc # "idle"
        \/ late
        \/ lost

(* An enabled composite catches up with its child for good, whatever was    *)
(* late, lost, crashed or written over, as long as its row was not deleted  *)
(* under it by a delete decided while it was disabled, or never pushed.     *)
CatchesUp == <>[](seen = level \/ ~comp.enabled \/ orphan)

=============================================================================
