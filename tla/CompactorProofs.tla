-------------------------- MODULE CompactorProofs --------------------------
(***************************************************************************)
(* Proofs about Compactor: for any nodes, partitions and files, any number *)
(* of claims, timeouts, failures and kills, every uploaded row is in a     *)
(* listed file that the object store has, and in one only as long as the   *)
(* job was not handed back while a run was still at work.                  *)
(*                                                                         *)
(* The first needs no agreement between runs.  A name enters a table once: *)
(* no table and no task knows an output before its task has written it     *)
(* (NameInv), so what was retired never comes back, and what is deleted is *)
(* not listed.  What a task retires is in its output, or lost its object   *)
(* before (TaskInv).  The second is that only one run is at work           *)
(* (AloneInv): then the inputs are still listed when the output replaces   *)
(* them.                                                                   *)
(***************************************************************************)
EXTENDS Compactor, FiniteSetTheorems, TLAPS

\* The output of a task that has not written the file list.
Unborn(r, p) ==
    run[r].at \in {"free", "send", "chan"} \/ task[r][p].at \in {"load", "merge", "write"}

\* A task belongs to a run that has started and is not through.
RunInv ==
    \A r \in Runs : run[r].at \in {"free", "send", "chan", "mark"} =>
                        \A p \in Parts : task[r][p] = Idle

\* What a task has in hand: files of its partition that were listed before,
\* some without an object; and once it has merged them their rows are in the
\* output.
TaskOk(r, p) ==
    /\ \A f \in Retired(r, p) : f[1] = p
    /\ Retired(r, p) \cap In \subseteq arrived
    /\ task[r][p].gone \cap objects = {}
    /\ task[r][p].at = "trash" => Retired(r, p) \cap listed = {}
    /\ task[r][p].at = "write" /\ task[r][p].files # {} =>
          /\ Out(r, p) \in objects
          /\ content[Out(r, p)] = UNION {content[f] : f \in task[r][p].files}

TaskInv == \A r \in Runs, p \in Parts : TaskOk(r, p)

\* What a file holds: an ingester file itself, an output rows of its partition
\* that were uploaded.
ContentInv ==
    /\ \A f \in In : content[f] = {f}
    /\ \A f \in Files \ In : content[f] \subseteq arrived

\* No table names an output before its task has written it, and what is to be
\* deleted is not listed.
NameInv ==
    /\ listed \cap In \subseteq arrived /\ trash \cap In \subseteq arrived
    /\ trash \cap listed = {}
    /\ \A r \in Runs, p \in Parts : Unborn(r, p) =>
          /\ Out(r, p) \notin listed \cup trash
          /\ \A s \in Runs, q \in Parts : Out(r, p) \notin Retired(s, q)

\* As long as the job was not handed back too early there is one run at work,
\* and what its tasks are about to replace is listed.
AloneInv ==
    ~overlap =>
        /\ \A r \in Runs : Alive(r) => job = "running"
        /\ \A r, s \in Runs : Alive(r) /\ Alive(s) => r = s
        /\ \A r \in Runs, p \in Parts :
              task[r][p].at \in {"load", "merge", "write"} => task[r][p].files \subseteq listed

IInv == /\ TypeOK /\ RunInv /\ TaskInv /\ ContentInv /\ NameInv /\ AloneInv
        /\ RowsListed /\ ListedOnce

RunType == [at : {"free", "send", "chan", "merge", "mark", "end"},
            node : Nodes \cup {None}, incr : BOOLEAN]

TaskType == [at : {"none", "load", "merge", "write", "trash", "ok", "error"},
             files : SUBSET Files, gone : SUBSET Files]

\* A node works on no more jobs at once than it has threads.
ThreadBound == \A n \in Nodes : Cardinality(InThread(n)) <= Threads

\* A node has at most one job on the way to its channel and one in it.
OnePerNode ==
    /\ \A r, s \in Runs :
        run[r].node = run[s].node /\ run[r].at = run[s].at /\ run[r].at \in {"send", "chan"} => r = s
    /\ ThreadBound

----------------------------------------------------------------------------
(* Names                                                                    *)

\* Outputs are told apart from ingester files and from each other.
LEMMA OutNames ==
    /\ In \subseteq Files
    /\ \A r \in Runs, p \in Parts : Out(r, p) \in Files /\ Out(r, p) \notin In /\ Out(r, p)[1] = p
    /\ \A r, s \in Runs, p, q \in Parts : Out(r, p) = Out(s, q) => r = s /\ p = q
<1>1. In \subseteq Files
    BY DEF Files
<1>2. \A r \in Runs, p \in Parts : Out(r, p) \in Files
    BY DEF Files
<1>3. \A r \in Runs, p \in Parts : Out(r, p) \notin In
    BY DEF Out, In
<1>4. \A r \in Runs, p \in Parts : Out(r, p)[1] = p
    BY DEF Out
<1>5. \A r, s \in Runs, p, q \in Parts : Out(r, p) = Out(s, q) => r = s /\ p = q
    BY DEF Out
<1> QED BY <1>1, <1>2, <1>3, <1>4, <1>5

\* The types of what the proofs look at.
LEMMA TypesFollow ==
    ASSUME TypeOK
    PROVE  /\ run \in [Runs -> RunType] /\ task \in [Runs -> [Parts -> TaskType]]
           /\ arrived \subseteq In /\ listed \subseteq Files /\ objects \subseteq Files
           /\ trash \subseteq Files /\ sweep \subseteq trash /\ content \in [Files -> SUBSET In]
           /\ orphans \subseteq Files /\ OnePerNode
           /\ \A r \in Runs, p \in Parts : Retired(r, p) \subseteq Files
<1>1. task \in [Runs -> [Parts -> TaskType]]
    BY DEF TypeOK, TaskType
<1>2. \A r \in Runs, p \in Parts : Retired(r, p) \subseteq Files
    BY <1>1 DEF Retired, TaskType
<1> QED BY <1>1, <1>2 DEF TypeOK, RunType, OnePerNode, ThreadBound

\* The jobs a node works on are finitely many.
LEMMA ThreadsFinite == \A n : IsFiniteSet(InThread(n)) /\ Cardinality(InThread(n)) \in Nat
<1>1. IsFiniteSet(Runs)
    BY CompactorAssumption, FS_Interval DEF Runs
<1>2. \A n : InThread(n) \subseteq Runs
    BY DEF InThread
<1>3. ASSUME NEW n PROVE IsFiniteSet(InThread(n))
    BY <1>1, <1>2, FS_Subset
<1> QED BY <1>3, FS_CardinalityType

\* No node takes up a job.
LEMMA ThreadsShrink ==
    ASSUME ThreadBound, \A n \in Nodes : InThread(n)' \subseteq InThread(n)
    PROVE  ThreadBound'
<1> SUFFICES ASSUME NEW n \in Nodes PROVE Cardinality(InThread(n)') <= Threads
    BY DEF ThreadBound
<1>1. IsFiniteSet(InThread(n)) /\ Cardinality(InThread(n)) \in Nat /\ Cardinality(InThread(n)) <= Threads
    BY ThreadsFinite DEF ThreadBound
<1>2. Cardinality(InThread(n)') <= Cardinality(InThread(n)) /\ IsFiniteSet(InThread(n)')
    BY <1>1, FS_Subset
<1>3. Cardinality(InThread(n)') \in Nat
    BY <1>2, FS_CardinalityType
<1> QED BY <1>1, <1>2, <1>3, CompactorAssumption

\* A node with a free thread takes up a job.
LEMMA ThreadsGrow ==
    ASSUME ThreadBound, NEW m, NEW r, Cardinality(InThread(m)) < Threads,
           InThread(m)' = InThread(m) \cup {r},
           \A n \in Nodes : n # m => InThread(n)' = InThread(n)
    PROVE  ThreadBound'
<1> SUFFICES ASSUME NEW n \in Nodes PROVE Cardinality(InThread(n)') <= Threads
    BY DEF ThreadBound
<1>1. CASE n # m
    BY <1>1 DEF ThreadBound
<1>2. CASE n = m
  <2>1. IsFiniteSet(InThread(m)) /\ Cardinality(InThread(m)) \in Nat
    BY ThreadsFinite
  <2>2. Cardinality(InThread(m) \cup {r}) \in {Cardinality(InThread(m)), Cardinality(InThread(m)) + 1}
    BY <2>1, FS_AddElement
  <2> QED BY <1>2, <2>1, <2>2, CompactorAssumption
<1> QED BY <1>1, <1>2

\* The job row and the hour, at the start.
LEMMA CompactorInit == Init => IInv
<1> SUFFICES ASSUME Init PROVE IInv
    OBVIOUS
<1> USE CompactorAssumption
<1>0. Idle \in TaskType /\ Idle.at = "none" /\ Idle.files = {} /\ Idle.gone = {}
    BY DEF Idle, TaskType
<1>1. /\ \A r \in Runs : run[r].at = "free" /\ run[r].node = None
      /\ \A r \in Runs, p \in Parts : task[r][p] = Idle
      /\ \A r \in Runs, p \in Parts : Retired(r, p) = {}
  <2>1. \A r \in Runs, p \in Parts : task[r][p] = Idle
    BY DEF Init
  <2> QED BY <1>0, <2>1 DEF Init, Retired
<1>2. /\ In \subseteq Files /\ \A r \in Runs, p \in Parts : Out(r, p) \notin In
      /\ content \in [Files -> SUBSET In]
      /\ \A f \in In : content[f] = {f}
      /\ \A f \in Files \ In : content[f] = {}
  <2>1. In \subseteq Files
    BY OutNames
  <2> QED BY <2>1, OutNames DEF Init
<1>3. TypeOK
  <2>1. run \in [Runs -> RunType] /\ task \in [Runs -> [Parts -> TaskType]]
    BY <1>0 DEF Init, RunType
  <2>2. OnePerNode
    <3>1. \A n : InThread(n) = {}
        BY <1>1 DEF InThread
    <3>2. ThreadBound
        BY <3>1, FS_EmptySet DEF ThreadBound
    <3> QED BY <1>1, <3>2 DEF OnePerNode
  <2>3. /\ arrived \subseteq In /\ listed \subseteq Files /\ objects \subseteq Files
        /\ trash \subseteq Files /\ sweep \subseteq trash /\ orphans \subseteq Files
    BY <1>2 DEF Init
  <2> QED BY <1>2, <2>1, <2>2, <2>3 DEF Init, TypeOK, RunType, TaskType, OnePerNode, ThreadBound
<1>4. RunInv /\ TaskInv
    BY <1>0, <1>1 DEF RunInv, TaskInv, TaskOk
<1>5. ContentInv /\ NameInv
    BY <1>1, <1>2 DEF Init, ContentInv, NameInv
<1>6. AloneInv
    BY <1>0, <1>1 DEF AloneInv, Alive, TaskAlive
<1>7. RowsListed /\ ListedOnce
    BY <1>2 DEF Init, RowsListed, ListedOnce
<1> QED BY <1>3, <1>4, <1>5, <1>6, <1>7 DEF IInv

----------------------------------------------------------------------------
(* The job row and its runs                                                 *)

\* Steps that neither touch the files nor the tasks.
LEMMA RunFrame ==
    ASSUME IInv, TypeOK', RunInv',
           UNCHANGED <<arrived, listed, objects, trash, sweep, content, task>>,
           \A r \in Runs : run'[r].at \in {"free", "send", "chan"} =>
                               run[r].at \in {"free", "send", "chan"},
           ~ overlap' => ~ overlap,
           ~ overlap' => \A r \in Runs : Alive(r)' => job' = "running",
           ~ overlap' => \A r, s \in Runs : Alive(r)' /\ Alive(s)' => r = s
    PROVE  IInv'
<1>1. \A r \in Runs, p \in Parts : Retired(r, p)' = Retired(r, p) /\ (Unborn(r, p)' => Unborn(r, p))
    BY DEF Retired, Unborn
<1>2. TaskInv' /\ ContentInv'
    BY <1>1 DEF IInv, TaskInv, TaskOk, ContentInv
<1>3. NameInv'
    BY <1>1 DEF IInv, NameInv
<1>4. AloneInv'
    BY DEF IInv, AloneInv
<1>5. RowsListed' /\ ListedOnce'
    BY DEF IInv, RowsListed, ListedOnce
<1> QED BY <1>2, <1>3, <1>4, <1>5 DEF IInv

\* The hour settles, and its job is added: nobody is at work on a job that is
\* not there or is done.
LEMMA HourNext == ASSUME IInv, Settle \/ HourEnd PROVE IInv'
<1>1. /\ UNCHANGED <<arrived, listed, objects, trash, sweep, content, task, run, overlap, dropped, orphans>>
      /\ job' = job \/ (job \in {"none", "done"} /\ job' = "pending")
      /\ settled' \in BOOLEAN /\ generated' \in BOOLEAN /\ missed' \in BOOLEAN
    BY DEF Settle, HourEnd, AddJob, store, ghosts, IInv, TypeOK
<1>2. TypeOK'
    BY <1>1 DEF IInv, TypeOK, InThread
<1>3. RunInv' /\ \A r \in Runs : Alive(r)' <=> Alive(r)
    BY <1>1 DEF IInv, RunInv, Alive, TaskAlive
<1>4. ~ overlap => \A r \in Runs : Alive(r)' => job' = "running"
    BY <1>1, <1>3 DEF IInv, AloneInv
<1>5. ~ overlap => \A r, s \in Runs : Alive(r)' /\ Alive(s)' => r = s
    BY <1>3 DEF IInv, AloneInv
<1> QED BY <1>1, <1>2, <1>3, <1>4, <1>5, RunFrame

\* The job is handed back: too early, or nobody is at work on it.
LEMMA CheckRunningNext == ASSUME IInv, CheckRunning PROVE IInv'
<1>1. /\ UNCHANGED <<arrived, listed, objects, trash, sweep, content, task, run, dropped, orphans, missed,
                     settled, generated>>
      /\ job' = "pending" /\ overlap' = (overlap \/ \E r \in Runs : Alive(r))
    BY DEF CheckRunning, store, hour
<1>2. TypeOK'
  <2>1. overlap' \in BOOLEAN
    BY <1>1 DEF IInv, TypeOK
  <2> QED BY <1>1, <2>1 DEF IInv, TypeOK, InThread
<1>3. RunInv' /\ \A r \in Runs : Alive(r)' <=> Alive(r)
    BY <1>1 DEF IInv, RunInv, Alive, TaskAlive
<1>4. ~ overlap' => ~ overlap /\ \A r \in Runs : ~ Alive(r)'
    BY <1>1, <1>3
<1> QED BY <1>1, <1>2, <1>3, <1>4, RunFrame

\* A node claims the job.
LEMMA ClaimNext == ASSUME IInv, NEW n \in Nodes, Claim(n) PROVE IInv'
<1>1. /\ UNCHANGED <<arrived, listed, objects, trash, sweep, content, task, overlap, dropped, orphans,
                     missed, settled, generated>>
      /\ job = "pending" /\ job' = "running"
      /\ \A r \in Runs : ~ (run[r].at = "send" /\ run[r].node = n)
    BY DEF Claim, store, hour, ghosts
<1>2. PICK r \in Runs : /\ run[r].at = "free"
                        /\ run' = [run EXCEPT ![r] = [at |-> "send", node |-> n, incr |-> FALSE]]
    BY DEF Claim
<1>3. run \in [Runs -> RunType] /\ OnePerNode
    BY TypesFollow DEF IInv
<1>4. /\ run' \in [Runs -> RunType] /\ run'[r].at = "send" /\ run'[r].node = n
      /\ \A s \in Runs \ {r} : run'[s] = run[s]
    BY <1>2, <1>3 DEF RunType
<1>5. OnePerNode'
  <2>1. \A m \in Nodes : InThread(m)' \subseteq InThread(m)
    BY <1>4 DEF InThread
  <2>2. ThreadBound'
    BY <1>3, <2>1, ThreadsShrink DEF OnePerNode
  <2> QED BY <1>1, <1>3, <1>4, <2>2 DEF OnePerNode
<1>6. TypeOK'
    BY <1>1, <1>4, <1>5 DEF IInv, TypeOK, RunType, OnePerNode, ThreadBound
<1>7. RunInv'
    BY <1>1, <1>2, <1>4 DEF IInv, RunInv
<1>8. \A s \in Runs \ {r} : Alive(s)' <=> Alive(s)
    BY <1>1, <1>4 DEF Alive, TaskAlive
<1>9. ~ overlap => \A s \in Runs : ~ Alive(s)
    BY <1>1 DEF IInv, AloneInv
<1>10. ~ overlap => \A s, t \in Runs : Alive(s)' /\ Alive(t)' => s = t
    BY <1>8, <1>9
<1> QED BY <1>1, <1>2, <1>4, <1>6, <1>7, <1>10, RunFrame

\* A run goes on or ends, without a change to its tasks.
LEMMA RunNext ==
    ASSUME IInv, NEW r \in Runs, Send(r) \/ RunError(r) \/ RunMark(r) \/ RunFault(r)
    PROVE  IInv'
<1>1. /\ UNCHANGED <<arrived, listed, objects, trash, sweep, content, task, overlap, dropped, orphans,
                     missed, settled, generated>>
      /\ job' = job \/ (job' = "done" /\ run[r].at = "mark")
    BY DEF Send, RunError, RunMark, RunFault, store, hour, ghosts
<1>2. run \in [Runs -> RunType] /\ OnePerNode
    BY TypesFollow DEF IInv
<1>3. /\ run' \in [Runs -> RunType] /\ \A s \in Runs \ {r} : run'[s] = run[s]
      /\ \/ /\ run[r].at = "send" /\ run'[r].at = "chan" /\ run'[r].node = run[r].node
            /\ \A s \in Runs : ~ (run[s].node = run[r].node /\ run[s].at = "chan")
            /\ job' = job
         \/ run[r].at = "merge" /\ run'[r].at = "end" /\ job' = job
         \/ run[r].at = "chan" /\ run'[r].at = "end" /\ job' = job
         \/ run[r].at = "mark" /\ run'[r].at = "end"
  <2>1. CASE Send(r)
    BY <1>2, <2>1 DEF Send, OfNode, RunType
  <2>2. CASE RunError(r)
    BY <1>2, <2>2 DEF RunError, RunType
  <2>3. CASE RunMark(r) \/ RunFault(r)
    <3>1. run' = [run EXCEPT ![r] = [at |-> "end", node |-> None, incr |-> FALSE]]
        BY <2>3 DEF RunMark, RunFault, Ended
    <3>2. run[r].at = "mark" \/ (run[r].at = "chan" /\ job' = job)
        BY <2>3 DEF RunMark, RunFault, Received
    <3>3. [at |-> "end", node |-> None, incr |-> FALSE] \in RunType
        BY DEF RunType
    <3> QED BY <1>2, <3>1, <3>2, <3>3
  <2> QED BY <2>1, <2>2, <2>3
<1>4. OnePerNode'
  <2>1. \A m \in Nodes : InThread(m)' \subseteq InThread(m)
    BY <1>3 DEF InThread
  <2>2. ThreadBound'
    BY <1>2, <2>1, ThreadsShrink DEF OnePerNode
  <2> QED BY <1>2, <1>3, <2>2 DEF OnePerNode
<1>5. TypeOK'
  <2>1. job' \in {"none", "pending", "running", "done"}
    BY <1>1 DEF IInv, TypeOK
  <2> QED BY <1>1, <1>3, <1>4, <2>1 DEF IInv, TypeOK, RunType, OnePerNode, ThreadBound
<1>6. RunInv'
    BY <1>1, <1>3 DEF IInv, RunInv
<1>7. \A s \in Runs : Alive(s)' => Alive(s)
    BY <1>1, <1>3 DEF Alive, TaskAlive
<1>8. run[r].at = "mark" => ~ Alive(r)' /\ Alive(r)
  <2>1. run[r].at = "mark" => \A p \in Parts : task[r][p].at = "none"
    BY DEF IInv, RunInv, Idle
  <2> QED BY <1>1, <1>3, <2>1 DEF Alive, TaskAlive
<1>9. ~ overlap => \A s, t \in Runs : Alive(s)' /\ Alive(t)' => s = t
    BY <1>7 DEF IInv, AloneInv
<1>10. ~ overlap => \A s \in Runs : Alive(s)' => job' = "running"
    BY <1>1, <1>7, <1>8 DEF IInv, AloneInv
<1> QED BY <1>1, <1>3, <1>5, <1>6, <1>9, <1>10, RunFrame

\* A job in the channel is taken up by a free thread.
LEMMA StartThreads ==
    ASSUME OnePerNode, NEW r \in Runs, run[r].at = "chan",
           Cardinality(InThread(run[r].node)) < Threads,
           run'[r].at \in {"merge", "mark"}, run'[r].node = run[r].node,
           \A s \in Runs \ {r} : run'[s] = run[s]
    PROVE  OnePerNode'
<1>1. PICK m : m = run[r].node
    OBVIOUS
<1>2. InThread(m)' = InThread(m) \cup {r}
    BY <1>1 DEF InThread
<1>3. \A n \in Nodes : n # m => InThread(n)' = InThread(n)
    BY <1>1 DEF InThread
<1>4. ThreadBound'
    BY <1>1, <1>2, <1>3, ThreadsGrow DEF OnePerNode
<1> QED BY <1>4 DEF OnePerNode

\* There is nothing to merge: the run is about to mark its job as done.
LEMMA StartEmptyNext ==
    ASSUME IInv, NEW r \in Runs, Start(r), \A p \in Parts : ToMerge(p) = {}
    PROVE  IInv'
<1>1. /\ UNCHANGED <<arrived, listed, objects, trash, sweep, content, task, job, overlap, dropped, orphans,
                     missed, settled, generated>>
      /\ run[r].at = "chan" /\ Cardinality(InThread(run[r].node)) < Threads
    BY DEF Start, Received, store, hour, ghosts
<1>2. run \in [Runs -> RunType] /\ OnePerNode
    BY TypesFollow DEF IInv
<1>3. /\ run' \in [Runs -> RunType] /\ run'[r].at = "mark" /\ run'[r].node = run[r].node
      /\ \A s \in Runs \ {r} : run'[s] = run[s]
  <2>1. /\ run' = [run EXCEPT ![r] = [run[r] EXCEPT !.at = "mark", !.incr = ~settled]]
        /\ settled \in BOOLEAN /\ run[r] \in RunType
    BY <1>2 DEF Start, IInv, TypeOK
  <2>2. [run[r] EXCEPT !.at = "mark", !.incr = ~settled] \in RunType
    BY <2>1 DEF RunType
  <2> QED BY <1>2, <2>1, <2>2 DEF RunType
<1>4. OnePerNode'
    BY <1>1, <1>2, <1>3, StartThreads
<1>5. TypeOK'
    BY <1>1, <1>3, <1>4 DEF IInv, TypeOK, RunType, OnePerNode, ThreadBound
<1>6. RunInv'
    BY <1>1, <1>3 DEF IInv, RunInv
<1>7. \A s \in Runs : Alive(s)' <=> Alive(s)
    BY <1>1, <1>3 DEF Alive, TaskAlive
<1>8. ~ overlap => /\ \A s \in Runs : Alive(s)' => job' = "running"
                   /\ \A s, t \in Runs : Alive(s)' /\ Alive(t)' => s = t
    BY <1>1, <1>7 DEF IInv, AloneInv
<1> QED BY <1>1, <1>3, <1>5, <1>6, <1>8, RunFrame

\* The scheduler thread of a node starts the merges of a claim: of files of
\* their own partition that are listed, under names nobody knows.
LEMMA StartNext ==
    ASSUME IInv, NEW r \in Runs, Start(r), \E p \in Parts : ToMerge(p) # {}
    PROVE  IInv'
<1>1. /\ UNCHANGED <<arrived, listed, objects, trash, sweep, content, job, overlap, dropped, orphans,
                     missed, settled, generated>>
      /\ run[r].at = "chan" /\ Cardinality(InThread(run[r].node)) < Threads
    BY DEF Start, Received, store, hour, ghosts
<1>2. PICK plan \in [Parts -> SUBSET listed] :
        /\ \A p \in Parts : plan[p] \in Plans(p, ~settled)
        /\ task' = [task EXCEPT ![r] = [p \in Parts |->
              [at |-> IF plan[p] = {} THEN "ok" ELSE "load", files |-> plan[p], gone |-> {}]]]
    BY DEF Start
<1>3. /\ run \in [Runs -> RunType] /\ OnePerNode /\ task \in [Runs -> [Parts -> TaskType]]
      /\ listed \subseteq Files
    BY TypesFollow DEF IInv
<1>4. /\ run' \in [Runs -> RunType] /\ run'[r].at = "merge" /\ run'[r].node = run[r].node
      /\ \A s \in Runs \ {r} : run'[s] = run[s]
  <2>1. /\ run' = [run EXCEPT ![r] = [run[r] EXCEPT !.at = "merge", !.incr = ~settled]]
        /\ settled \in BOOLEAN /\ run[r] \in RunType
    BY <1>3 DEF Start, IInv, TypeOK
  <2>2. [run[r] EXCEPT !.at = "merge", !.incr = ~settled] \in RunType
    BY <2>1 DEF RunType
  <2> QED BY <1>3, <2>1, <2>2 DEF RunType
<1>5. \A p \in Parts : plan[p] \subseteq listed /\ \A f \in plan[p] : f[1] = p
  <2>1. \A p \in Parts : plan[p] \subseteq ToMerge(p)
    BY <1>2 DEF Plans
  <2> QED BY <2>1 DEF ToMerge
<1>6. /\ \A p \in Parts : /\ task'[r][p].at \in {"ok", "load"} /\ task'[r][p].gone = {}
                          /\ task'[r][p].files = plan[p] /\ task'[r][p] \in TaskType
      /\ \A s \in Runs \ {r} : task'[s] = task[s]
  <2>1. \A p \in Parts :
           task'[r][p] = [at |-> IF plan[p] = {} THEN "ok" ELSE "load", files |-> plan[p], gone |-> {}]
    BY <1>2, <1>3
  <2>2. \A s \in Runs \ {r} : task'[s] = task[s]
    BY <1>2, <1>3
  <2>3. ASSUME NEW p \in Parts
        PROVE  /\ task'[r][p].at \in {"ok", "load"} /\ task'[r][p].gone = {}
               /\ task'[r][p].files = plan[p] /\ task'[r][p] \in TaskType
    <3>1. plan[p] \in SUBSET Files
        BY <1>3, <1>5
    <3>2. PICK a \in {"ok", "load"} : task'[r][p] = [at |-> a, files |-> plan[p], gone |-> {}]
      <4>1. CASE plan[p] = {}
        BY <2>1, <4>1
      <4>2. CASE plan[p] # {}
        BY <2>1, <4>2
      <4> QED BY <4>1, <4>2
    <3> QED BY <3>1, <3>2 DEF TaskType
  <2> QED BY <2>2, <2>3
<1>7. task' \in [Runs -> [Parts -> TaskType]]
  <2>1. [p \in Parts |->
           [at |-> IF plan[p] = {} THEN "ok" ELSE "load", files |-> plan[p], gone |-> {}]]
        \in [Parts -> TaskType]
    <3>1. task'[r] = [p \in Parts |->
           [at |-> IF plan[p] = {} THEN "ok" ELSE "load", files |-> plan[p], gone |-> {}]]
      BY <1>2, <1>3
    <3> QED BY <1>6, <3>1
  <2> QED BY <1>2, <1>3, <2>1
<1>8. TypeOK'
  <2>1. OnePerNode'
    BY <1>1, <1>3, <1>4, StartThreads
  <2> QED BY <1>1, <1>4, <1>7, <2>1 DEF IInv, TypeOK, RunType, TaskType, OnePerNode, ThreadBound
<1>9. RunInv'
    BY <1>4, <1>6 DEF IInv, RunInv
<1>10. /\ \A p \in Parts : Retired(r, p)' = plan[p]
       /\ \A s \in Runs \ {r}, p \in Parts : Retired(s, p)' = Retired(s, p)
       /\ \A s \in Runs, p \in Parts : Unborn(s, p)' => Unborn(s, p)
    BY <1>1, <1>4, <1>6 DEF Retired, Unborn
<1>11. TaskInv'
  <2>1. ASSUME NEW s \in Runs, NEW p \in Parts, s # r
        PROVE  TaskOk(s, p)'
    BY <1>1, <1>6, <1>10, <2>1 DEF IInv, TaskInv, TaskOk
  <2>2. \A p \in Parts : Retired(r, p)' \cap In \subseteq arrived'
    BY <1>1, <1>5, <1>10 DEF IInv, NameInv
  <2> QED BY <1>1, <1>5, <1>6, <1>10, <2>1, <2>2 DEF TaskInv, TaskOk
<1>12. ContentInv'
    BY <1>1 DEF IInv, ContentInv
<1>13. NameInv'
    BY <1>1, <1>5, <1>10 DEF IInv, NameInv
<1>14. AloneInv'
  <2>1. \A s \in Runs : Alive(s)' => Alive(s)
    BY <1>1, <1>4, <1>6 DEF Alive, TaskAlive
  <2> QED BY <1>1, <1>5, <1>6, <2>1 DEF IInv, AloneInv
<1>15. RowsListed' /\ ListedOnce'
    BY <1>1 DEF IInv, RowsListed, ListedOnce
<1> QED BY <1>8, <1>9, <1>11, <1>12, <1>13, <1>14, <1>15 DEF IInv

\* All merges of a run are through.
LEMMA RunCheckNext == ASSUME IInv, NEW r \in Runs, RunCheck(r) PROVE IInv'
<1>1. /\ UNCHANGED <<arrived, listed, objects, trash, sweep, content, job, overlap, dropped, orphans,
                     missed, settled, generated>>
      /\ run[r].at = "merge" /\ task' = [task EXCEPT ![r] = [p \in Parts |-> Idle]]
    BY DEF RunCheck, NoTasks, store, hour, ghosts
<1>2. run \in [Runs -> RunType] /\ OnePerNode /\ task \in [Runs -> [Parts -> TaskType]]
    BY TypesFollow DEF IInv
<1>3. Idle \in TaskType /\ Idle.at = "none" /\ Idle.files = {} /\ Idle.gone = {}
    BY DEF Idle, TaskType
<1>4. /\ task' \in [Runs -> [Parts -> TaskType]]
      /\ \A p \in Parts : task'[r][p] = Idle
      /\ \A s \in Runs \ {r} : task'[s] = task[s]
    BY <1>1, <1>2, <1>3
<1>5. /\ run' \in [Runs -> RunType] /\ run'[r].at \in {"mark", "end"}
      /\ run'[r].at = "mark" => run'[r].node = run[r].node
      /\ \A s \in Runs \ {r} : run'[s] = run[s]
  <2>1. CASE run[r].incr /\ settled
    BY <1>2, <2>1 DEF RunCheck, Ended, RunType
  <2>2. CASE ~ (run[r].incr /\ settled)
    BY <1>2, <2>2 DEF RunCheck, RunType
  <2> QED BY <2>1, <2>2
<1>6. TypeOK'
  <2>1. OnePerNode'
    <3>1. \A m \in Nodes : InThread(m)' \subseteq InThread(m)
        BY <1>1, <1>5 DEF InThread
    <3>2. ThreadBound'
        BY <1>2, <3>1, ThreadsShrink DEF OnePerNode
    <3> QED BY <1>1, <1>2, <1>5, <3>2 DEF OnePerNode
  <2> QED BY <1>1, <1>4, <1>5, <2>1 DEF IInv, TypeOK, RunType, TaskType, OnePerNode, ThreadBound
<1>7. RunInv'
    BY <1>4, <1>5 DEF IInv, RunInv
<1>8. /\ \A p \in Parts : Retired(r, p)' = {}
      /\ \A s \in Runs \ {r}, p \in Parts : Retired(s, p)' = Retired(s, p)
      /\ \A s \in Runs, p \in Parts : Unborn(s, p)' => Unborn(s, p)
    BY <1>3, <1>4, <1>5 DEF Retired, Unborn
<1>9. TaskInv'
  <2>1. ASSUME NEW s \in Runs, NEW p \in Parts, s # r
        PROVE  TaskOk(s, p)'
    BY <1>1, <1>4, <1>8, <2>1 DEF IInv, TaskInv, TaskOk
  <2> QED BY <1>3, <1>4, <1>8, <2>1 DEF TaskInv, TaskOk
<1>10. ContentInv'
    BY <1>1 DEF IInv, ContentInv
<1>11. NameInv'
    BY <1>1, <1>8 DEF IInv, NameInv
<1>12. AloneInv'
  <2>1. \A s \in Runs : Alive(s)' => Alive(s)
    BY <1>1, <1>3, <1>4, <1>5 DEF Alive, TaskAlive
  <2> QED BY <1>1, <1>3, <1>4, <2>1 DEF IInv, AloneInv
<1>13. RowsListed' /\ ListedOnce'
    BY <1>1 DEF IInv, RowsListed, ListedOnce
<1> QED BY <1>6, <1>7, <1>9, <1>10, <1>11, <1>12, <1>13 DEF IInv

----------------------------------------------------------------------------
(* The steps of a task                                                      *)

\* What every step of a task keeps: the types, the run it belongs to, and that
\* nobody comes to life.
LEMMA TaskFrame ==
    ASSUME IInv, NEW r \in Runs, NEW p \in Parts, TaskAlive(r, p),
           task' \in [Runs -> [Parts -> TaskType]],
           \A s \in Runs, q \in Parts : s # r \/ q # p => task'[s][q] = task[s][q],
           UNCHANGED <<job, run, overlap, settled, generated, arrived, missed>>,
           listed' \subseteq Files, objects' \subseteq Files, trash' \subseteq Files, sweep' \subseteq trash',
           content' \in [Files -> SUBSET In], dropped' \in BOOLEAN, orphans' \subseteq Files
    PROVE  /\ TypeOK' /\ RunInv'
           /\ run[r].at \in {"merge", "end"}
           /\ \A s \in Runs, q \in Parts : s # r \/ q # p =>
                  Retired(s, q)' = Retired(s, q) /\ (Unborn(s, q)' <=> Unborn(s, q))
           /\ ~ overlap' => /\ \A s \in Runs : Alive(s)' => job' = "running"
                            /\ \A s, t \in Runs : Alive(s)' /\ Alive(t)' => s = t
           /\ ~ overlap => \A s \in Runs, q \in Parts : TaskAlive(s, q) => s = r
<1>1. TypeOK'
    BY DEF IInv, TypeOK, TaskType, InThread
<1>2. run[r].at \in {"merge", "end"}
  <2>1. run \in [Runs -> RunType]
    BY TypesFollow DEF IInv
  <2>2. task[r][p] # Idle
    BY DEF TaskAlive, Idle
  <2>3. run[r].at \notin {"free", "send", "chan", "mark"}
    BY <2>2 DEF IInv, RunInv
  <2> QED BY <2>1, <2>3 DEF RunType
<1>3. RunInv'
    BY <1>2 DEF IInv, RunInv
<1>4. \A s \in Runs, q \in Parts : s # r \/ q # p =>
          Retired(s, q)' = Retired(s, q) /\ (Unborn(s, q)' <=> Unborn(s, q))
    BY DEF Retired, Unborn
<1>5. \A s \in Runs : Alive(s)' => Alive(s)
    BY DEF Alive, TaskAlive
<1>6. ~ overlap' => /\ \A s \in Runs : Alive(s)' => job' = "running"
                    /\ \A s, t \in Runs : Alive(s)' /\ Alive(t)' => s = t
    BY <1>5 DEF IInv, AloneInv
<1>7. ~ overlap => \A s \in Runs, q \in Parts : TaskAlive(s, q) => s = r
    BY DEF IInv, AloneInv, Alive
<1> QED BY <1>1, <1>2, <1>3, <1>4, <1>6, <1>7

\* A task ends, or goes on with fewer files, and nothing else changes but an
\* object under a name that no table has.
LEMMA ShrinkNext ==
    ASSUME IInv, NEW r \in Runs, NEW p \in Parts, TaskAlive(r, p),
           task' \in [Runs -> [Parts -> TaskType]],
           \A s \in Runs, q \in Parts : s # r \/ q # p => task'[s][q] = task[s][q],
           UNCHANGED <<job, run, overlap, settled, generated, arrived, missed, listed, trash, sweep, content>>,
           objects' = objects \/ (Unborn(r, p) /\ objects' = objects \cup {Out(r, p)}),
           dropped' \in BOOLEAN, orphans' \subseteq Files,
           Retired(r, p)' \subseteq Retired(r, p),
           task'[r][p].files \subseteq task[r][p].files,
           task'[r][p].gone \cap objects = {},
           \/ task'[r][p].at \in {"ok", "error"}
           \/ task'[r][p].at = "merge" /\ task[r][p].at = "load"
           \/ task'[r][p].at = "write" /\ task[r][p].at = "load" /\ task'[r][p].files = {}
    PROVE  IInv'
<1>1. /\ listed \subseteq Files /\ objects \subseteq Files /\ trash \subseteq Files
      /\ sweep \subseteq trash /\ content \in [Files -> SUBSET In]
    BY TypesFollow DEF IInv
<1>2. objects \subseteq objects' /\ objects' \subseteq Files
    BY <1>1, OutNames
<1>3. /\ TypeOK' /\ RunInv'
      /\ run[r].at \in {"merge", "end"}
      /\ \A s \in Runs, q \in Parts : s # r \/ q # p =>
             Retired(s, q)' = Retired(s, q) /\ (Unborn(s, q)' <=> Unborn(s, q))
      /\ ~ overlap' => /\ \A s \in Runs : Alive(s)' => job' = "running"
                       /\ \A s, t \in Runs : Alive(s)' /\ Alive(t)' => s = t
    BY <1>1, <1>2, TaskFrame
<1>4. \A s \in Runs, q \in Parts : Retired(s, q) \cap objects' = Retired(s, q) \cap objects
    BY DEF IInv, NameInv
<1>5. \A s \in Runs, q \in Parts : Unborn(s, q)' => Unborn(s, q)
    BY <1>3 DEF Unborn
<1>6. TaskInv'
  <2>1. ASSUME NEW s \in Runs, NEW q \in Parts, s # r \/ q # p PROVE TaskOk(s, q)'
    <3>1. TaskOk(s, q)
        BY DEF IInv, TaskInv, TaskOk
    <3>2. task'[s][q] = task[s][q] /\ Retired(s, q)' = Retired(s, q)
        BY <1>3, <2>1
    <3>3. task[s][q].gone \cap objects' = {}
        BY <1>4, <3>1 DEF TaskOk, Retired
    <3> QED BY <1>2, <3>1, <3>2, <3>3 DEF TaskOk
  <2>2. TaskOk(r, p)'
    <3>1. TaskOk(r, p)
        BY DEF IInv, TaskInv, TaskOk
    <3>2. task'[r][p].gone \cap objects' = {}
        BY <1>4 DEF Retired
    <3> QED BY <3>1, <3>2 DEF TaskOk
  <2> QED BY <2>1, <2>2 DEF TaskInv, TaskOk
<1>7. ContentInv'
    BY DEF IInv, ContentInv
<1>8. NameInv'
  <2>1. \A s \in Runs, q \in Parts : Retired(s, q)' \subseteq Retired(s, q)
    BY <1>3
  <2> QED BY <1>5, <2>1 DEF IInv, NameInv
<1>9. AloneInv'
    BY <1>3 DEF IInv, AloneInv
<1>10. RowsListed' /\ ListedOnce'
    BY <1>2 DEF IInv, RowsListed, ListedOnce
<1> QED BY <1>3, <1>6, <1>7, <1>8, <1>9, <1>10 DEF IInv

\* The output takes the place of the inputs, whether or not they are still
\* listed: the rows of an input that has its object are in the output.
LEMMA SwapNext ==
    ASSUME IInv, NEW r \in Runs, NEW p \in Parts, task[r][p].at = "write",
           task' \in [Runs -> [Parts -> TaskType]],
           \A s \in Runs, q \in Parts : s # r \/ q # p => task'[s][q] = task[s][q],
           UNCHANGED <<job, run, overlap, settled, generated, arrived, missed, objects, trash, sweep, content>>,
           listed' = Swapped(r, p),
           dropped' \in BOOLEAN, orphans' \subseteq Files,
           Retired(r, p)' \subseteq Retired(r, p),
           task'[r][p].gone \subseteq task[r][p].gone,
           task'[r][p].at \in {"trash", "ok"}
    PROVE  IInv'
<1>1. /\ listed \subseteq Files /\ objects \subseteq Files /\ trash \subseteq Files
      /\ sweep \subseteq trash /\ content \in [Files -> SUBSET In]
    BY TypesFollow DEF IInv
<1>2. /\ listed' = (listed \ Retired(r, p)) \cup New(r, p)
      /\ New(r, p) \subseteq {Out(r, p)} /\ New(r, p) \subseteq Files
      /\ task[r][p].files # {} => Out(r, p) \in listed'
    BY OutNames DEF Swapped, New
<1>3. TaskAlive(r, p) /\ listed' \subseteq Files
    BY <1>1, <1>2 DEF TaskAlive
<1>4. /\ TypeOK' /\ RunInv'
      /\ run[r].at \in {"merge", "end"}
      /\ \A s \in Runs, q \in Parts : s # r \/ q # p =>
             Retired(s, q)' = Retired(s, q) /\ (Unborn(s, q)' <=> Unborn(s, q))
      /\ ~ overlap' => /\ \A s \in Runs : Alive(s)' => job' = "running"
                       /\ \A s, t \in Runs : Alive(s)' /\ Alive(t)' => s = t
      /\ ~ overlap => \A s \in Runs, q \in Parts : TaskAlive(s, q) => s = r
    BY <1>1, <1>3, TaskFrame
<1>5. Unborn(r, p) /\ ~ Unborn(r, p)'
    BY <1>4 DEF Unborn
<1>6. /\ Out(r, p) \notin listed \cup trash
      /\ \A s \in Runs, q \in Parts : Out(r, p) \notin Retired(s, q)
    BY <1>5 DEF IInv, NameInv
<1>7. TaskOk(r, p)
    BY DEF IInv, TaskInv, TaskOk
<1>8. TaskInv'
  <2>1. ASSUME NEW s \in Runs, NEW q \in Parts, s # r \/ q # p PROVE TaskOk(s, q)'
    <3>1. TaskOk(s, q)
        BY DEF IInv, TaskInv, TaskOk
    <3>2. task'[s][q] = task[s][q] /\ Retired(s, q)' = Retired(s, q)
        BY <1>4, <2>1
    <3>3. Retired(s, q) \cap listed = {} => Retired(s, q) \cap listed' = {}
        BY <1>2, <1>6
    <3> QED BY <3>1, <3>2, <3>3 DEF TaskOk
  <2>2. TaskOk(r, p)'
    <3>1. Retired(r, p)' \cap listed' = {}
        BY <1>2, <1>6
    <3> QED BY <1>7, <3>1 DEF TaskOk
  <2> QED BY <2>1, <2>2 DEF TaskInv, TaskOk
<1>9. ContentInv'
    BY DEF IInv, ContentInv
<1>10. NameInv'
  <2>1. listed' \cap In \subseteq arrived /\ trash \cap In \subseteq arrived
    BY <1>2, OutNames DEF IInv, NameInv
  <2>2. trash \cap listed' = {}
    BY <1>2, <1>6 DEF IInv, NameInv
  <2>3. ASSUME NEW s \in Runs, NEW q \in Parts, Unborn(s, q)'
        PROVE  /\ Out(s, q) \notin listed' \cup trash
               /\ \A t \in Runs, u \in Parts : Out(s, q) \notin Retired(t, u)'
    <3>1. (s # r \/ q # p) /\ Unborn(s, q)
        BY <1>4, <1>5, <2>3
    <3>2. Out(s, q) # Out(r, p)
        BY <3>1, OutNames
    <3>3. \A t \in Runs, u \in Parts : Retired(t, u)' \subseteq Retired(t, u)
        BY <1>4
    <3> QED BY <1>2, <3>1, <3>2, <3>3 DEF IInv, NameInv
  <2> QED BY <2>1, <2>2, <2>3 DEF NameInv
<1>11. AloneInv'
  <2>1. ASSUME ~ overlap, NEW s \in Runs, NEW q \in Parts,
               task'[s][q].at \in {"load", "merge", "write"}
        PROVE  task'[s][q].files \subseteq listed'
    <3>1. (s # r \/ q # p) /\ task'[s][q] = task[s][q] /\ TaskAlive(s, q)
        BY <2>1 DEF TaskAlive
    <3>2. s = r /\ q # p
        BY <1>4, <2>1, <3>1
    <3>3. task[s][q].files \subseteq listed
        BY <2>1, <3>1 DEF IInv, AloneInv
    <3>4. TaskOk(s, q)
        BY DEF IInv, TaskInv, TaskOk
    <3>5. Retired(r, p) \cap Retired(s, q) = {}
        BY <1>7, <3>2, <3>4 DEF TaskOk
    <3> QED BY <1>2, <3>1, <3>3, <3>5 DEF Retired
  <2> QED BY <1>4, <2>1 DEF AloneInv
<1>12. RowsListed'
  <2> SUFFICES ASSUME NEW x \in arrived PROVE \E f \in listed' \cap objects : x \in content[f]
    BY DEF RowsListed
  <2>1. PICK f \in listed \cap objects : x \in content[f]
    BY DEF IInv, RowsListed
  <2>2. CASE f \notin Retired(r, p)
    BY <1>2, <2>1, <2>2
  <2>3. CASE f \in Retired(r, p)
    <3>1. f \in task[r][p].files
        BY <1>7, <2>1, <2>3 DEF TaskOk, Retired
    <3>2. /\ Out(r, p) \in objects
          /\ content[Out(r, p)] = UNION {content[g] : g \in task[r][p].files}
        BY <1>7, <3>1 DEF TaskOk
    <3>3. x \in content[Out(r, p)]
        BY <2>1, <3>1, <3>2
    <3> QED BY <1>2, <3>1, <3>2, <3>3
  <2> QED BY <2>2, <2>3
<1>13. ListedOnce'
  <2>1. ASSUME ~ overlap, NEW g \in listed \ Retired(r, p), task[r][p].files # {}
        PROVE  content[g] \cap content[Out(r, p)] = {}
    <3>1. content[Out(r, p)] = UNION {content[h] : h \in task[r][p].files}
        BY <1>7, <2>1 DEF TaskOk
    <3>2. task[r][p].files \subseteq listed
        BY <2>1 DEF IInv, AloneInv
    <3>3. \A h \in task[r][p].files : content[g] \cap content[h] = {}
        BY <2>1, <3>2 DEF IInv, ListedOnce, Retired
    <3> QED BY <3>1, <3>3
  <2>2. ASSUME ~ overlap, NEW f \in listed', NEW g \in listed', f # g
        PROVE  content[f] \cap content[g] = {}
    <3>1. \A h \in listed' : h \in listed \ Retired(r, p) \/ (h = Out(r, p) /\ task[r][p].files # {})
        BY <1>2 DEF New
    <3>2. CASE f \in listed \ Retired(r, p) /\ g \in listed \ Retired(r, p)
        BY <2>2, <3>2 DEF IInv, ListedOnce
    <3>3. CASE f \notin listed \ Retired(r, p) /\ g \in listed \ Retired(r, p)
        BY <2>1, <2>2, <3>1, <3>3
    <3>4. CASE f \in listed \ Retired(r, p) /\ g \notin listed \ Retired(r, p)
        BY <2>1, <2>2, <3>1, <3>4
    <3> QED BY <2>2, <3>1, <3>2, <3>3, <3>4
  <2> QED BY <2>2 DEF ListedOnce
<1> QED BY <1>4, <1>8, <1>9, <1>10, <1>11, <1>12, <1>13 DEF IInv

\* What every proof knows of the tasks.
LEMMA TasksTyped == ASSUME IInv PROVE task \in [Runs -> [Parts -> TaskType]]
    BY TypesFollow DEF IInv

\* What is left of a task that is through.
LEMMA ThroughTask ==
    \A a \in {"ok", "error"} :
        LET t == [Idle EXCEPT !.at = a]
        IN  t \in TaskType /\ t.at = a /\ t.files = {} /\ t.gone = {}
    BY DEF Idle, TaskType

\* A task looks for the objects of its files: some are gone, some cannot be
\* downloaded.
LEMMA LoadedNext ==
    ASSUME IInv, NEW r \in Runs, NEW p \in Parts, task[r][p].at = "load",
           NEW gone \in SUBSET (task[r][p].files \ objects),
           NEW kept \in SUBSET task[r][p].files, Loaded(r, p, gone, kept),
           UNCHANGED <<arrived, listed, objects, trash, sweep, content, job, overlap, orphans,
                       missed, settled, generated, run>>,
           dropped' \in BOOLEAN
    PROVE  IInv'
<1>2. task[r][p].files \subseteq Files
  <2>1. Retired(r, p) \subseteq Files
    BY TypesFollow DEF IInv
  <2> QED BY <2>1 DEF Retired
<1>3. PICK a \in {"merge", "ok", "write"}, fs \in {kept, {}} :
        /\ a = "write" => fs = {}
        /\ task' = [task EXCEPT ![r][p] = [at |-> a, files |-> fs, gone |-> gone]]
  <2>1. CASE Cardinality(kept) > 1
    BY <2>1 DEF Loaded
  <2>2. CASE ~ (Cardinality(kept) > 1) /\ gone = {}
    BY <2>2 DEF Loaded
  <2>3. CASE ~ (Cardinality(kept) > 1) /\ gone # {}
    BY <2>3 DEF Loaded
  <2> QED BY <2>1, <2>2, <2>3
<1> DEFINE t == [at |-> a, files |-> fs, gone |-> gone]
<1>4. /\ t \in TaskType /\ t.at = a /\ t.files = fs /\ t.gone = gone
    BY <1>2 DEF TaskType
<1> HIDE DEF t
<1>5. /\ task' \in [Runs -> [Parts -> TaskType]] /\ task'[r][p] = t
      /\ \A s \in Runs, q \in Parts : s # r \/ q # p => task'[s][q] = task[s][q]
  <2>1. task' = [task EXCEPT ![r][p] = t]
    BY <1>3 DEF t
  <2> QED BY <1>4, <2>1, TasksTyped
<1>6. /\ Retired(r, p)' \subseteq Retired(r, p)
      /\ task'[r][p].files \subseteq task[r][p].files /\ task'[r][p].gone \cap objects = {}
    BY <1>4, <1>5 DEF Retired
<1>7. \/ task'[r][p].at \in {"ok", "error"}
      \/ task'[r][p].at = "merge" /\ task[r][p].at = "load"
      \/ task'[r][p].at = "write" /\ task[r][p].at = "load" /\ task'[r][p].files = {}
    BY <1>3, <1>4, <1>5
<1>8. TaskAlive(r, p) /\ orphans' \subseteq Files
    BY TypesFollow DEF TaskAlive, IInv
<1> QED BY <1>5, <1>6, <1>7, <1>8, ShrinkNext

\* Both ways to load the files of a task.
LEMMA LoadNext ==
    ASSUME IInv, NEW r \in Runs, NEW p \in Parts, Load(r, p) \/ LoadError(r, p)
    PROVE  IInv'
<1>1. /\ UNCHANGED <<arrived, listed, objects, trash, sweep, content, job, overlap, orphans,
                     missed, settled, generated, run>>
      /\ task[r][p].at = "load"
    BY DEF Load, LoadError, store, hour, ghosts
<1>2. dropped' \in BOOLEAN
  <2>1. dropped \in BOOLEAN
    BY DEF IInv, TypeOK
  <2> QED BY <2>1 DEF Load, LoadError, ghosts
<1>3. PICK gone \in SUBSET (task[r][p].files \ objects), kept \in SUBSET task[r][p].files :
        Loaded(r, p, gone, kept)
  <2>1. CASE Load(r, p)
    <3>1. PICK gone \in SUBSET (task[r][p].files \ objects) :
            Loaded(r, p, gone, task[r][p].files \ gone)
        BY <2>1 DEF Load
    <3> QED BY <3>1
  <2>2. CASE LoadError(r, p)
    <3>1. PICK gone \in SUBSET (task[r][p].files \ objects), skip \in SUBSET task[r][p].files :
            Loaded(r, p, gone, task[r][p].files \ (gone \cup skip))
        BY <2>2 DEF LoadError
    <3> QED BY <3>1
  <2> QED BY <2>1, <2>2
<1> QED BY <1>1, <1>2, <1>3, LoadedNext

\* A task fails, or drops what it was about to write or to write down.
LEMMA DropNext ==
    ASSUME IInv, NEW r \in Runs, NEW p \in Parts,
           \/ MergeError(r, p)
           \/ WriteError(r, p) /\ UNCHANGED listed
           \/ TrashError(r, p)
    PROVE  IInv'
<1>1. /\ UNCHANGED <<job, run, overlap, settled, generated, arrived, missed, listed, trash, sweep, content>>
      /\ TaskAlive(r, p)
      /\ objects' = objects \/ (Unborn(r, p) /\ objects' = objects \cup {Out(r, p)})
    BY DEF MergeError, WriteError, TrashError, TaskAlive, Unborn, store, hour
<1>2. dropped' \in BOOLEAN
  <2>1. dropped \in BOOLEAN
    BY DEF IInv, TypeOK
  <2> QED BY <2>1 DEF MergeError, WriteError, TrashError
<1>3. orphans' \subseteq Files
  <2>1. New(r, p) \subseteq Files /\ Out(r, p) \in Files
    BY OutNames DEF New
  <2>2. Retired(r, p) \subseteq Files /\ orphans \subseteq Files
    BY TypesFollow DEF IInv
  <2>3. CASE MergeError(r, p)
    BY <2>1, <2>2, <2>3 DEF MergeError
  <2>4. CASE WriteError(r, p)
    BY <2>1, <2>2, <2>4 DEF WriteError
  <2>5. CASE TrashError(r, p)
    BY <2>1, <2>2, <2>5 DEF TrashError
  <2> QED BY <2>3, <2>4, <2>5
<1>4. PICK a \in {"ok", "error"} : task' = [task EXCEPT ![r][p] = [Idle EXCEPT !.at = a]]
    BY DEF MergeError, WriteError, TrashError, Finished
<1> DEFINE t == [Idle EXCEPT !.at = a]
<1>5. t \in TaskType /\ t.at = a /\ t.files = {} /\ t.gone = {} /\ task' = [task EXCEPT ![r][p] = t]
    BY <1>4, ThroughTask
<1> HIDE DEF t
<1>6. /\ task' \in [Runs -> [Parts -> TaskType]] /\ task'[r][p] = t
      /\ \A s \in Runs, q \in Parts : s # r \/ q # p => task'[s][q] = task[s][q]
    BY <1>5, TasksTyped
<1>7. /\ Retired(r, p)' \subseteq Retired(r, p)
      /\ task'[r][p].files \subseteq task[r][p].files /\ task'[r][p].gone \cap objects = {}
      /\ task'[r][p].at \in {"ok", "error"}
    BY <1>5, <1>6 DEF Retired
<1> QED BY <1>1, <1>2, <1>3, <1>6, <1>7, ShrinkNext

\* The transaction that swaps the inputs for the output, answered or not.
LEMMA WriteNext ==
    ASSUME IInv, NEW r \in Runs, NEW p \in Parts,
           Write(r, p) \/ (WriteError(r, p) /\ listed' = Swapped(r, p))
    PROVE  IInv'
<1>1. /\ UNCHANGED <<job, run, overlap, settled, generated, arrived, missed, objects, trash, sweep, content>>
      /\ task[r][p].at = "write" /\ listed' = Swapped(r, p)
    BY DEF Write, WriteError, hour, ghosts
<1>2. dropped' \in BOOLEAN
  <2>1. dropped \in BOOLEAN
    BY DEF IInv, TypeOK
  <2> QED BY <2>1 DEF Write, WriteError, ghosts
<1>3. orphans' \subseteq Files
  <2>1. New(r, p) \subseteq Files
    BY OutNames DEF New
  <2>2. Retired(r, p) \subseteq Files /\ orphans \subseteq Files
    BY TypesFollow DEF IInv
  <2> QED BY <2>1, <2>2 DEF Write, WriteError, ghosts
<1>4. task \in [Runs -> [Parts -> TaskType]]
    BY TypesFollow DEF IInv
<1>5. /\ task' \in [Runs -> [Parts -> TaskType]]
      /\ \A s \in Runs, q \in Parts : s # r \/ q # p => task'[s][q] = task[s][q]
      /\ task'[r][p].files \subseteq task[r][p].files
      /\ task'[r][p].gone \subseteq task[r][p].gone
      /\ task'[r][p].at \in {"trash", "ok"}
  <2>1. CASE Write(r, p)
    <3> DEFINE t == [task[r][p] EXCEPT !.at = "trash"]
    <3>1. task' = [task EXCEPT ![r][p] = t]
        BY <2>1 DEF Write
    <3>2. task[r][p] \in TaskType
        BY <1>4
    <3>3. /\ t \in TaskType /\ t.at = "trash"
          /\ t.files = task[r][p].files /\ t.gone = task[r][p].gone
        BY <3>2 DEF TaskType
    <3> HIDE DEF t
    <3>4. /\ task' \in [Runs -> [Parts -> TaskType]] /\ task'[r][p] = t
          /\ \A s \in Runs, q \in Parts : s # r \/ q # p => task'[s][q] = task[s][q]
        BY <3>1, <3>3, TasksTyped
    <3> QED BY <3>3, <3>4
  <2>2. CASE WriteError(r, p)
    <3> DEFINE t == [Idle EXCEPT !.at = "ok"]
    <3>1. t \in TaskType /\ t.at = "ok" /\ t.files = {} /\ t.gone = {}
        BY ThroughTask
    <3>2. task' = [task EXCEPT ![r][p] = t]
        BY <2>2 DEF WriteError, Finished
    <3> HIDE DEF t
    <3>3. /\ task' \in [Runs -> [Parts -> TaskType]] /\ task'[r][p] = t
          /\ \A s \in Runs, q \in Parts : s # r \/ q # p => task'[s][q] = task[s][q]
        BY <3>1, <3>2, TasksTyped
    <3> QED BY <3>1, <3>3
  <2> QED BY <2>1, <2>2
<1>6. Retired(r, p)' \subseteq Retired(r, p)
    BY <1>5 DEF Retired
<1> QED BY <1>1, <1>2, <1>3, <1>5, <1>6, SwapNext

\* The output is stored: under a name that no table and no task has.
LEMMA MergeNext ==
    ASSUME IInv, NEW r \in Runs, NEW p \in Parts, Merge(r, p)
    PROVE  IInv'
<1>1. /\ UNCHANGED <<arrived, listed, trash, sweep, job, overlap, dropped, orphans, missed, settled,
                     generated, run>>
      /\ task[r][p].at = "merge" /\ objects' = objects \cup {Out(r, p)}
      /\ content' = [content EXCEPT ![Out(r, p)] = UNION {content[f] : f \in task[r][p].files}]
      /\ task' = [task EXCEPT ![r][p].at = "write"]
    BY DEF Merge, hour, ghosts
<1>2. /\ task \in [Runs -> [Parts -> TaskType]] /\ content \in [Files -> SUBSET In]
      /\ listed \subseteq Files /\ objects \subseteq Files /\ trash \subseteq Files
      /\ sweep \subseteq trash /\ orphans \subseteq Files /\ Retired(r, p) \subseteq Files
    BY TypesFollow DEF IInv
<1>3. Out(r, p) \in Files /\ Out(r, p) \notin In
    BY OutNames
<1>4. UNION {content[f] : f \in task[r][p].files} \subseteq In
    BY <1>2 DEF Retired
<1>5. /\ content' \in [Files -> SUBSET In] /\ objects' \subseteq Files
      /\ content'[Out(r, p)] = UNION {content[f] : f \in task[r][p].files}
      /\ \A f \in Files \ {Out(r, p)} : content'[f] = content[f]
    BY <1>1, <1>2, <1>3, <1>4
<1>6. /\ task' \in [Runs -> [Parts -> TaskType]]
      /\ \A s \in Runs, q \in Parts : s # r \/ q # p => task'[s][q] = task[s][q]
      /\ task'[r][p].files = task[r][p].files /\ task'[r][p].gone = task[r][p].gone
      /\ task'[r][p].at = "write"
  <2> DEFINE t == [task[r][p] EXCEPT !.at = "write"]
  <2>1. task' = [task EXCEPT ![r][p] = t]
    BY <1>1
  <2>2. task[r][p] \in TaskType
    BY <1>2
  <2>3. /\ t \in TaskType /\ t.at = "write"
        /\ t.files = task[r][p].files /\ t.gone = task[r][p].gone
    BY <2>2 DEF TaskType
  <2> HIDE DEF t
  <2>4. /\ task' \in [Runs -> [Parts -> TaskType]] /\ task'[r][p] = t
        /\ \A s \in Runs, q \in Parts : s # r \/ q # p => task'[s][q] = task[s][q]
    BY <2>1, <2>3, TasksTyped
  <2> QED BY <2>3, <2>4
<1>7. TaskAlive(r, p) /\ dropped' \in BOOLEAN
    BY <1>1 DEF TaskAlive, IInv, TypeOK
<1>8. /\ TypeOK' /\ RunInv'
      /\ \A s \in Runs, q \in Parts : s # r \/ q # p =>
             Retired(s, q)' = Retired(s, q) /\ (Unborn(s, q)' <=> Unborn(s, q))
      /\ ~ overlap' => /\ \A s \in Runs : Alive(s)' => job' = "running"
                       /\ \A s, t \in Runs : Alive(s)' /\ Alive(t)' => s = t
    BY <1>1, <1>2, <1>5, <1>6, <1>7, TaskFrame
<1>9. /\ Unborn(r, p) /\ Retired(r, p)' = Retired(r, p)
      /\ \A s \in Runs, q \in Parts : Retired(s, q)' = Retired(s, q)
      /\ \A s \in Runs, q \in Parts : Unborn(s, q)' => Unborn(s, q)
    BY <1>1, <1>6, <1>8 DEF Unborn, Retired
<1>10. /\ Out(r, p) \notin listed \cup trash
       /\ \A s \in Runs, q \in Parts : Out(r, p) \notin Retired(s, q)
    BY <1>9 DEF IInv, NameInv
<1>11. \A s \in Runs, q \in Parts : \A f \in Retired(s, q) : content'[f] = content[f]
  <2>1. \A s \in Runs, q \in Parts : Retired(s, q) \subseteq Files
    BY TypesFollow DEF IInv
  <2> QED BY <1>5, <1>10, <2>1
<1>12. TaskInv'
  <2>1. ASSUME NEW s \in Runs, NEW q \in Parts, s # r \/ q # p PROVE TaskOk(s, q)'
    <3>1. TaskOk(s, q)
        BY DEF IInv, TaskInv
    <3>2. task'[s][q] = task[s][q] /\ Retired(s, q)' = Retired(s, q)
        BY <1>6, <1>9, <2>1
    <3>3. task[s][q].gone \cap objects' = {}
        BY <1>1, <1>10, <3>1 DEF TaskOk, Retired
    <3>4. content'[Out(s, q)] = content[Out(s, q)]
        BY <1>5, <2>1, OutNames
    <3>5. UNION {content'[f] : f \in task[s][q].files} = UNION {content[f] : f \in task[s][q].files}
        BY <1>11 DEF Retired
    <3> QED BY <1>1, <3>1, <3>2, <3>3, <3>4, <3>5 DEF TaskOk
  <2>2. TaskOk(r, p)'
    <3>1. TaskOk(r, p)
        BY DEF IInv, TaskInv
    <3>2. task'[r][p].gone \cap objects' = {}
        BY <1>1, <1>6, <1>10, <3>1 DEF TaskOk, Retired
    <3>3. UNION {content'[f] : f \in task[r][p].files} = UNION {content[f] : f \in task[r][p].files}
        BY <1>11 DEF Retired
    <3> QED BY <1>1, <1>5, <1>6, <1>9, <3>1, <3>2, <3>3 DEF TaskOk
  <2> QED BY <2>1, <2>2 DEF TaskInv
<1>13. ContentInv'
  <2>1. UNION {content[f] : f \in task[r][p].files} \subseteq arrived
    <3>1. TaskOk(r, p) /\ ContentInv
        BY DEF IInv, TaskInv
    <3>2. \A f \in task[r][p].files : content[f] \subseteq arrived
        BY <1>2, <3>1 DEF TaskOk, ContentInv, Retired
    <3> QED BY <3>2
  <2>2. \A f \in In : content'[f] = {f}
    BY <1>3, <1>5, OutNames DEF IInv, ContentInv
  <2>3. \A f \in Files \ In : content'[f] \subseteq arrived
    BY <1>5, <2>1 DEF IInv, ContentInv
  <2> QED BY <1>1, <2>2, <2>3 DEF ContentInv
<1>14. NameInv'
    BY <1>1, <1>9 DEF IInv, NameInv
<1>15. AloneInv'
  <2>1. ASSUME ~ overlap, NEW s \in Runs, NEW q \in Parts,
               task'[s][q].at \in {"load", "merge", "write"}
        PROVE  task'[s][q].files \subseteq listed
    BY <1>1, <1>6, <2>1 DEF IInv, AloneInv
  <2> QED BY <1>1, <1>8, <2>1 DEF AloneInv
<1>16. RowsListed' /\ ListedOnce'
  <2>1. \A f \in listed : content'[f] = content[f]
    BY <1>2, <1>5, <1>10
  <2> QED BY <1>1, <2>1 DEF IInv, RowsListed, ListedOnce
<1> QED BY <1>8, <1>12, <1>13, <1>14, <1>15, <1>16 DEF IInv

\* The inputs are written down to be deleted: they are not listed any more.
LEMMA TrashNext ==
    ASSUME IInv, NEW r \in Runs, NEW p \in Parts, Trash(r, p)
    PROVE  IInv'
<1>1. /\ UNCHANGED <<arrived, listed, objects, sweep, content, job, overlap, dropped, orphans, missed,
                     settled, generated, run>>
      /\ task[r][p].at = "trash" /\ trash' = trash \cup Retired(r, p)
      /\ task' = [task EXCEPT ![r][p] = [Idle EXCEPT !.at = "ok"]]
    BY DEF Trash, Finished, hour, ghosts
<1> DEFINE t == [Idle EXCEPT !.at = "ok"]
<1>2. t \in TaskType /\ t.at = "ok" /\ t.files = {} /\ t.gone = {} /\ task' = [task EXCEPT ![r][p] = t]
    BY <1>1, ThroughTask
<1> HIDE DEF t
<1>3. /\ task' \in [Runs -> [Parts -> TaskType]] /\ task'[r][p] = t
      /\ \A s \in Runs, q \in Parts : s # r \/ q # p => task'[s][q] = task[s][q]
    BY <1>2, TasksTyped
<1>4. /\ content \in [Files -> SUBSET In] /\ listed \subseteq Files /\ objects \subseteq Files
      /\ trash \subseteq Files /\ sweep \subseteq trash /\ orphans \subseteq Files
      /\ Retired(r, p) \subseteq Files
    BY TypesFollow DEF IInv
<1>5. TaskAlive(r, p) /\ dropped' \in BOOLEAN /\ trash' \subseteq Files /\ sweep' \subseteq trash'
    BY <1>1, <1>4 DEF TaskAlive, IInv, TypeOK
<1>6. /\ TypeOK' /\ RunInv'
      /\ run[r].at \in {"merge", "end"}
      /\ \A s \in Runs, q \in Parts : s # r \/ q # p =>
             Retired(s, q)' = Retired(s, q) /\ (Unborn(s, q)' <=> Unborn(s, q))
      /\ ~ overlap' => /\ \A s \in Runs : Alive(s)' => job' = "running"
                       /\ \A s, u \in Runs : Alive(s)' /\ Alive(u)' => s = u
    BY <1>1, <1>3, <1>4, <1>5, TaskFrame
<1>7. Retired(r, p)' = {} /\ ~ Unborn(r, p)'
    BY <1>1, <1>2, <1>3, <1>6 DEF Retired, Unborn
<1>8. TaskInv'
  <2>1. ASSUME NEW s \in Runs, NEW q \in Parts, s # r \/ q # p PROVE TaskOk(s, q)'
    <3>1. TaskOk(s, q) /\ task'[s][q] = task[s][q] /\ Retired(s, q)' = Retired(s, q)
        BY <1>3, <1>6, <2>1 DEF IInv, TaskInv
    <3> QED BY <1>1, <3>1 DEF TaskOk
  <2>2. TaskOk(r, p)'
    BY <1>2, <1>3, <1>7 DEF TaskOk
  <2> QED BY <2>1, <2>2 DEF TaskInv
<1>9. ContentInv'
    BY <1>1 DEF IInv, ContentInv
<1>10. NameInv'
  <2>1. Retired(r, p) \cap listed = {} /\ Retired(r, p) \cap In \subseteq arrived
    BY <1>1 DEF IInv, TaskInv, TaskOk
  <2>2. \A s \in Runs, q \in Parts : Retired(s, q)' \subseteq Retired(s, q)
    BY <1>6, <1>7
  <2>3. \A s \in Runs, q \in Parts : Unborn(s, q)' => Unborn(s, q)
    BY <1>6, <1>7
  <2> QED BY <1>1, <2>1, <2>2, <2>3 DEF IInv, NameInv
<1>11. AloneInv'
    BY <1>1, <1>2, <1>3, <1>6 DEF IInv, AloneInv
<1>12. RowsListed' /\ ListedOnce'
    BY <1>1 DEF IInv, RowsListed, ListedOnce
<1> QED BY <1>6, <1>8, <1>9, <1>10, <1>11, <1>12 DEF IInv

----------------------------------------------------------------------------
(* Uploads, deletions and kills                                             *)

\* A file arrives that no table, task or output has known.
LEMMA ArriveNext == ASSUME IInv, NEW f \in In, Arrive(f) PROVE IInv'
<1>1. /\ UNCHANGED <<settled, generated, trash, sweep, content, run, task, overlap, missed, dropped, orphans>>
      /\ f \notin arrived /\ arrived' = arrived \cup {f}
      /\ listed' = listed \cup {f} /\ objects' = objects \cup {f}
      /\ job' = job \/ (job \in {"none", "done"} /\ job' = "pending")
    BY DEF Arrive, AddJob, ghosts
<1>2. TypeOK'
  <2>1. job' \in {"none", "pending", "running", "done"}
    BY <1>1 DEF IInv, TypeOK
  <2>2. arrived' \subseteq In /\ listed' \subseteq Files /\ objects' \subseteq Files
    BY <1>1, OutNames, TypesFollow DEF IInv
  <2> QED BY <1>1, <2>1, <2>2 DEF IInv, TypeOK, InThread
<1>3. RunInv'
    BY <1>1 DEF IInv, RunInv
<1>4. \A s \in Runs, q \in Parts :
          /\ Retired(s, q)' = Retired(s, q) /\ (Unborn(s, q)' <=> Unborn(s, q))
          /\ f \notin Retired(s, q)
  <2>1. \A s \in Runs, q \in Parts : Retired(s, q) \cap In \subseteq arrived
    BY DEF IInv, TaskInv, TaskOk
  <2> QED BY <1>1, <2>1 DEF Retired, Unborn
<1>5. f \notin trash
    BY <1>1 DEF IInv, NameInv
<1>6. TaskInv'
  <2> SUFFICES ASSUME NEW s \in Runs, NEW q \in Parts PROVE TaskOk(s, q)'
    BY DEF TaskInv
  <2>1. TaskOk(s, q)
    BY DEF IInv, TaskInv
  <2>2. task[s][q].gone \cap objects' = {}
    BY <1>1, <1>4, <2>1 DEF TaskOk, Retired
  <2> QED BY <1>1, <1>4, <2>1, <2>2 DEF TaskOk
<1>7. ContentInv'
    BY <1>1 DEF IInv, ContentInv
<1>8. NameInv'
  <2>1. \A s \in Runs, q \in Parts : Out(s, q) # f
    BY OutNames
  <2> QED BY <1>1, <1>4, <1>5, <2>1 DEF IInv, NameInv
<1>9. AloneInv'
  <2>1. \A s \in Runs : Alive(s)' <=> Alive(s)
    BY <1>1 DEF Alive, TaskAlive
  <2>2. ~ overlap => \A s \in Runs : Alive(s) => job' = "running"
    BY <1>1 DEF IInv, AloneInv
  <2> QED BY <1>1, <2>1, <2>2 DEF IInv, AloneInv
<1>10. RowsListed'
    BY <1>1 DEF IInv, RowsListed, ContentInv
<1>11. ListedOnce'
  <2>1. content[f] = {f}
    BY DEF IInv, ContentInv
  <2>2. ASSUME NEW g \in listed, g # f PROVE f \notin content[g]
    <3>1. g \in Files
        BY TypesFollow DEF IInv
    <3>2. CASE g \in In
        BY <2>2, <3>2 DEF IInv, ContentInv
    <3>3. CASE g \notin In
        BY <1>1, <3>1, <3>3 DEF IInv, ContentInv
    <3> QED BY <3>2, <3>3
  <2> QED BY <1>1, <2>1, <2>2 DEF IInv, ListedOnce
<1> QED BY <1>2, <1>3, <1>6, <1>7, <1>8, <1>9, <1>10, <1>11 DEF IInv

\* What is deleted is neither listed nor the output of a task at work.
LEMMA DeleteNext == ASSUME IInv, DeleteObjects \/ DeleteRows \/ DeleteRowsError PROVE IInv'
<1>0. sweep \subseteq trash /\ trash \subseteq Files /\ objects \subseteq Files /\ orphans \subseteq Files
    BY TypesFollow DEF IInv
<1>1. /\ UNCHANGED <<arrived, listed, content, job, overlap, dropped, missed, settled,
                     generated, run, task>>
      /\ objects' \subseteq objects /\ objects \ trash \subseteq objects' /\ trash' \subseteq trash
      /\ sweep' \subseteq trash' /\ orphans' \subseteq Files
  <2>1. CASE DeleteObjects
    BY <1>0, <2>1 DEF DeleteObjects, hour, ghosts
  <2>2. CASE DeleteRows
    BY <1>0, <2>2 DEF DeleteRows, hour
  <2>3. CASE DeleteRowsError
    BY <1>0, <2>3 DEF DeleteRowsError, hour, ghosts
  <2> QED BY <2>1, <2>2, <2>3
<1>2. TypeOK'
  <2>1. objects' \subseteq Files /\ trash' \subseteq Files
    BY <1>0, <1>1
  <2> QED BY <1>1, <2>1 DEF IInv, TypeOK, InThread
<1>3. RunInv' /\ ContentInv'
    BY <1>1 DEF IInv, RunInv, ContentInv
<1>4. \A s \in Runs, q \in Parts :
          Retired(s, q)' = Retired(s, q) /\ (Unborn(s, q)' <=> Unborn(s, q))
    BY <1>1 DEF Retired, Unborn
<1>5. TaskInv'
  <2> SUFFICES ASSUME NEW s \in Runs, NEW q \in Parts PROVE TaskOk(s, q)'
    BY DEF TaskInv
  <2>1. TaskOk(s, q)
    BY DEF IInv, TaskInv
  <2>2. task[s][q].at = "write" => Out(s, q) \notin trash
    BY DEF IInv, NameInv, Unborn
  <2> QED BY <1>1, <1>4, <2>1, <2>2 DEF TaskOk
<1>6. NameInv'
    BY <1>1, <1>4 DEF IInv, NameInv
<1>7. AloneInv'
    BY <1>1 DEF IInv, AloneInv, Alive, TaskAlive
<1>8. RowsListed' /\ ListedOnce'
  <2>1. listed \cap objects \subseteq objects'
    BY <1>1 DEF IInv, NameInv
  <2> QED BY <1>1, <2>1 DEF IInv, RowsListed, ListedOnce
<1> QED BY <1>2, <1>3, <1>5, <1>6, <1>7, <1>8 DEF IInv

\* A node is killed, and its runs and tasks with it.
LEMMA CrashNext == ASSUME IInv, NEW n \in Nodes, Crash(n) PROVE IInv'
<1> DEFINE mine == {r \in Runs : run[r].node = n /\ Alive(r)}
           at(s) == {x \in mine \X Parts : task[x[1]][x[2]].at = s}
           new == UNION {New(x[1], x[2]) : x \in at("write")}
           old == UNION {Retired(x[1], x[2]) : x \in at("trash")}
<1>1. /\ UNCHANGED <<arrived, listed, objects, trash, sweep, content, job, overlap, dropped, missed,
                     settled, generated>>
      /\ run' = [r \in Runs |-> IF r \in mine THEN Ended(r)[r] ELSE run[r]]
      /\ task' = [r \in Runs |-> IF r \in mine THEN [p \in Parts |-> Idle] ELSE task[r]]
      /\ orphans' = orphans \cup new \cup old
    BY DEF Crash, store, hour
<1>2. /\ run \in [Runs -> RunType] /\ OnePerNode /\ task \in [Runs -> [Parts -> TaskType]]
      /\ orphans \subseteq Files
      /\ \A r \in Runs, p \in Parts : Retired(r, p) \subseteq Files
    BY TypesFollow DEF IInv
<1>3. Idle \in TaskType /\ Idle.at = "none" /\ Idle.files = {} /\ Idle.gone = {}
    BY DEF Idle, TaskType
<1>4. \A r \in Runs : Ended(r)[r] \in RunType /\ Ended(r)[r].at = "end"
    BY <1>2 DEF Ended, RunType
<1>5. orphans' \subseteq Files
  <2>1. \A s : at(s) \subseteq Runs \X Parts
    OBVIOUS
  <2>2. \A r \in Runs, p \in Parts : New(r, p) \subseteq Files
    BY OutNames DEF New
  <2> HIDE DEF at
  <2>3. UNION {New(x[1], x[2]) : x \in at("write")} \subseteq Files
    BY <2>1, <2>2
  <2>4. UNION {Retired(x[1], x[2]) : x \in at("trash")} \subseteq Files
    BY <1>2, <2>1
  <2>5. new \subseteq Files /\ old \subseteq Files
    BY <2>3, <2>4
  <2> HIDE DEF new, old
  <2> QED BY <1>1, <1>2, <2>5
<1> HIDE DEF at
<1>6. mine \subseteq Runs
    OBVIOUS
<1> HIDE DEF mine
<1>7. /\ \A r \in mine : run'[r] = Ended(r)[r] /\ \A p \in Parts : task'[r][p] = Idle
      /\ \A r \in Runs \ mine : run'[r] = run[r] /\ task'[r] = task[r]
    BY <1>1, <1>6
<1>8. run' \in [Runs -> RunType]
    BY <1>1, <1>2, <1>4
<1>9. task' \in [Runs -> [Parts -> TaskType]]
  <2>1. \A r \in Runs : task[r] \in [Parts -> TaskType]
    BY <1>2
  <2>2. [p \in Parts |-> Idle] \in [Parts -> TaskType]
    BY <1>3
  <2> QED BY <1>1, <2>1, <2>2
<1>10. \A r \in mine : run'[r].at = "end"
    BY <1>4, <1>6, <1>7
<1>11. TypeOK'
  <2>1. OnePerNode'
    <3>1. \A m \in Nodes : InThread(m)' \subseteq InThread(m)
        BY <1>6, <1>7, <1>10 DEF InThread
    <3>2. ThreadBound'
        BY <1>2, <3>1, ThreadsShrink DEF OnePerNode
    <3> QED BY <1>2, <1>6, <1>7, <1>10, <3>2 DEF OnePerNode
  <2> QED BY <1>1, <1>5, <1>8, <1>9, <2>1 DEF IInv, TypeOK, RunType, TaskType, OnePerNode, ThreadBound
<1>12. RunInv'
    BY <1>7, <1>10 DEF IInv, RunInv
<1>13. /\ \A r \in mine, p \in Parts : Retired(r, p)' = {} /\ ~ Unborn(r, p)'
       /\ \A r \in Runs \ mine, p \in Parts :
             Retired(r, p)' = Retired(r, p) /\ (Unborn(r, p)' <=> Unborn(r, p))
    BY <1>3, <1>7, <1>10 DEF Retired, Unborn
<1>14. TaskInv'
  <2> SUFFICES ASSUME NEW s \in Runs, NEW q \in Parts PROVE TaskOk(s, q)'
    BY DEF TaskInv
  <2>1. CASE s \in mine
    BY <1>3, <1>7, <1>13, <2>1 DEF TaskOk
  <2>2. CASE s \notin mine
    <3>1. TaskOk(s, q) /\ task'[s][q] = task[s][q] /\ Retired(s, q)' = Retired(s, q)
        BY <1>7, <1>13, <2>2 DEF IInv, TaskInv
    <3> QED BY <1>1, <3>1 DEF TaskOk
  <2> QED BY <2>1, <2>2
<1>15. ContentInv'
    BY <1>1 DEF IInv, ContentInv
<1>16. NameInv'
  <2>1. \A s \in Runs, q \in Parts :
           Retired(s, q)' \subseteq Retired(s, q) /\ (Unborn(s, q)' => Unborn(s, q))
    BY <1>13
  <2> QED BY <1>1, <2>1 DEF IInv, NameInv
<1>17. AloneInv'
  <2>1. \A s \in Runs : Alive(s)' => Alive(s) /\ s \notin mine
    BY <1>3, <1>7, <1>10 DEF Alive, TaskAlive
  <2>2. \A s \in Runs, q \in Parts : task'[s][q].at \in {"load", "merge", "write"} =>
           task'[s][q] = task[s][q]
    BY <1>3, <1>7
  <2> QED BY <1>1, <2>1, <2>2 DEF IInv, AloneInv
<1>18. RowsListed' /\ ListedOnce'
    BY <1>1 DEF IInv, RowsListed, ListedOnce
<1> QED BY <1>11, <1>12, <1>14, <1>15, <1>16, <1>17, <1>18 DEF IInv

----------------------------------------------------------------------------
(* The theorems                                                             *)

\* Every step keeps the inductive invariant.
LEMMA CompactorNext == ASSUME IInv, [Next]_vars PROVE IInv'
<1>1. CASE UNCHANGED vars
  <2>1. /\ UNCHANGED <<arrived, listed, objects, trash, sweep, content, task, run, job, overlap, dropped,
                       orphans, missed, settled, generated>>
    BY <1>1 DEF vars, store, hour, ghosts
  <2>2. TypeOK' /\ RunInv'
    BY <2>1 DEF IInv, TypeOK, RunInv, InThread
  <2>3. \A r \in Runs : Alive(r)' <=> Alive(r)
    BY <2>1 DEF Alive, TaskAlive
  <2>4. ~ overlap => /\ \A r \in Runs : Alive(r)' => job' = "running"
                     /\ \A r, s \in Runs : Alive(r)' /\ Alive(s)' => r = s
    BY <2>1, <2>3 DEF IInv, AloneInv
  <2> QED BY <2>1, <2>2, <2>4, RunFrame
<1>2. CASE \E f \in In : Arrive(f)
    BY <1>2, ArriveNext
<1>3. CASE Settle \/ HourEnd
    BY <1>3, HourNext
<1>4. CASE CheckRunning
    BY <1>4, CheckRunningNext
<1>5. CASE \E n \in Nodes : Claim(n) \/ Crash(n)
    BY <1>5, ClaimNext, CrashNext
<1>6. CASE \E r \in Runs : RunStep(r) \/ RunFault(r)
  <2>1. PICK r \in Runs : RunStep(r) \/ RunFault(r)
    BY <1>6
  <2>2. CASE Start(r)
    BY <2>2, StartNext, StartEmptyNext
  <2> QED BY <2>1, <2>2, RunNext, RunCheckNext DEF RunStep
<1>7. ASSUME NEW r \in Runs, NEW p \in Parts, TaskStep(r, p) PROVE IInv'
    BY <1>7, LoadNext, MergeNext, WriteNext, TrashNext DEF TaskStep
<1>8. ASSUME NEW r \in Runs, NEW p \in Parts, TaskFault(r, p) PROVE IInv'
  <2>0. CASE LoadError(r, p)
    BY <2>0, LoadNext
  <2>1. CASE MergeError(r, p) \/ TrashError(r, p)
    BY <2>1, DropNext
  <2>2. CASE WriteError(r, p)
    <3>1. UNCHANGED listed \/ listed' = Swapped(r, p)
        BY <2>2 DEF WriteError
    <3> QED BY <2>2, <3>1, DropNext, WriteNext
  <2> QED BY <1>8, <2>0, <2>1, <2>2 DEF TaskFault
<1>9. CASE DeleteObjects \/ DeleteRows \/ DeleteRowsError
    BY <1>9, DeleteNext
<1> QED BY <1>1, <1>2, <1>3, <1>4, <1>5, <1>6, <1>7, <1>8, <1>9 DEF Next

\* The inductive invariant holds in every reachable state.
THEOREM CompactorInvariant == Spec => []IInv
    BY CompactorInit, CompactorNext, PTL DEF Spec

\* The tables, claims and tasks stay well formed, a node never has two jobs in its
\* channel (run_merge, job_tx.send), and it never works on more jobs at once than
\* it has scheduler threads (JobScheduler::run).
THEOREM CompactorTypes == Spec => []TypeOK
<1>1. IInv => TypeOK
    BY DEF IInv
<1> QED BY <1>1, CompactorInvariant, PTL

\* Every uploaded row is always in a listed file that the object store has:
\* merge_by_stream, write_file_list, check_running_jobs and deleted::delete
\* lose nothing, in whatever order their steps fall, fail or are cut short.
THEOREM RowsStayListed == Spec => []RowsListed
<1>1. IInv => RowsListed
    BY DEF IInv
<1> QED BY <1>1, CompactorInvariant, PTL

\* No row is listed twice as long as check_running_jobs never handed back a job
\* that a run or a left-over task was still at work on.
THEOREM RowsListedOnce == Spec => []ListedOnce
<1>1. IInv => ListedOnce
    BY DEF IInv
<1> QED BY <1>1, CompactorInvariant, PTL

============================================================================
