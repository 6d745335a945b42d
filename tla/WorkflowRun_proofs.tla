------------------------- MODULE WorkflowRun_proofs -------------------------
(***************************************************************************)
(* Machine-checked facts about WorkflowRun, for every DAG, every set of    *)
(* runs, workers and rows, and every bound.                                *)
(***************************************************************************)
EXTENDS WorkflowRun, TLAPS

\* JobOf builds a job.
LEMMA JobsExist == \A r \in Run, n \in Node, i \in Iteration : JobOf(r, n, i) \in Job
  BY DEF JobOf, Job

\* The job submit_run enqueues is one.
LEMMA EntryJob == ASSUME NEW r \in Run PROVE JobOf(r, Entry, 0) \in Job
  BY DagAssumption DEF JobOf, Job, Iteration, AcceptedVersion

\* The locals of a coroutine that does not run yet are well typed.
LEMMA IdleState == Idle \in TaskState
  BY DagAssumption DEF Idle, TaskState, PC, NoOutput, Output

\* The engine starts well typed.
LEMMA TypeInit == Init => TypeOK
<1> SUFFICES ASSUME Init PROVE TypeOK
  OBVIOUS
<1>1. (CHOOSE j \in Job : TRUE) \in Job
  <2>1. PICK r \in Run : TRUE
    BY RunAssumption
  <2> QED BY <2>1, EntryJob
<1>2. queue \in [QId -> Q!Row]
  BY <1>1 DEF Init, Q!Row, Q!RowStates
<1>3. tasks \in [Task -> TaskState] /\ \A t \in Task : tasks[t].pc = "idle"
  BY IdleState DEF Init, Idle
<1> QED
  BY <1>2, <1>3 DEF Init, TypeOK, RunStatus, NodeStatus, Terminal

\* The admin handlers keep every table well typed.
LEMMA TypeAdmin ==
  ASSUME TypeOK, NEW r \in Run, Admin(r) PROVE TypeOK'
<1> USE DEF TypeOK, RunStatus, Terminal, Task
<1>1. CASE IssueKey(r)
  BY <1>1 DEF IssueKey, RedisWrite
<1>2. CASE CommitRun(r)
  BY <1>2, EntryJob DEF CommitRun, Enqueue, NodeStatus, Q!Row, Q!RowStates
<1>3. CASE Cancel(r)
  BY <1>3 DEF Cancel, RevokeKey
<1>4. CASE CancelAnnounce(r)
  BY <1>4 DEF CancelAnnounce, Publish
<1>5. CASE CancelPurge(r)
  BY <1>5 DEF CancelPurge, PurgeKey, RedisWrite
<1> QED BY <1>1, <1>2, <1>3, <1>4, <1>5 DEF Admin

\* What every step of coroutine t's job does to the coroutines: it moves t and
\* no other; unless it ends, t keeps its row, its job and its claim.
Moves(t) ==
    /\ tasks[t].pc # "idle"
    /\ tasks' = [tasks EXCEPT ![t] = tasks'[t]]
    /\ \/ tasks'[t] = Idle
       \/ /\ tasks'[t].pc # "idle"
          /\ tasks'[t].row = tasks[t].row
          /\ tasks'[t].job = tasks[t].job
          /\ tasks'[t].attempt = tasks[t].attempt
    /\ tasks'[t].pc = "loop" => Finalize(t)

\* Where each step of _handle_job takes its coroutine, well typed.
LEMMA JobStepMoves ==
  ASSUME TypeOK, NEW t \in Task, JobStep(t) PROVE Moves(t)
<1>0. tasks \in [Task -> TaskState] /\ tasks[t] \in TaskState
  BY DEF TypeOK
<1>1. ASSUME NEW p, p # "idle", p = "loop" => Finalize(t), tasks[t].pc # "idle",
             Goto(t, p)
      PROVE  Moves(t)
  BY <1>0, <1>1 DEF Moves, Goto, TaskState
<1>2. ASSUME tasks[t].pc # "idle", Leave(t) PROVE Moves(t)
  BY <1>0, <1>2 DEF Moves, Leave, Idle
<1> USE DEF At
<1>3. CASE FetchContext(t)
  BY <1>1, <1>3 DEF FetchContext
<1>4. CASE ResolveAgent(t)
  <2>1. CASE Goto(t, "readKey")
    BY <1>1, <1>4, <2>1 DEF ResolveAgent
  <2>2. CASE tasks' = [tasks EXCEPT ![t].pc = "finalize", ![t].verdict = "failed"]
    BY <1>0, <1>4, <2>2 DEF Moves, TaskState, ResolveAgent
  <2> QED BY <1>4, <2>1, <2>2 DEF ResolveAgent
<1>5. CASE ReadKey(t)
  <2>1. PICK k : tasks' = [tasks EXCEPT ![t].pc = "markNode", ![t].key = k]
    BY <1>5 DEF ReadKey
  <2> QED BY <1>0, <1>5, <2>1 DEF Moves, TaskState, ReadKey
<1>6. CASE RunAgent(t)
  <2>1. ASSUME NEW o,
               tasks' = [tasks EXCEPT ![t].pc = "finalize", ![t].out = o,
                                      ![t].verdict = "succeeded", ![t].key = FALSE]
        PROVE  Moves(t)
    BY <1>0, <1>6, <2>1 DEF Moves, TaskState, RunAgent
  <2>2. CASE tasks' = [tasks EXCEPT ![t].pc = "finalize", ![t].verdict = "failed",
                                    ![t].key = FALSE]
    BY <1>0, <1>6, <2>2 DEF Moves, TaskState, RunAgent
  <2> QED BY <1>6, <2>1, <2>2 DEF RunAgent
<1>7. CASE Finalize(t)
  BY <1>1, <1>7 DEF Finalize
<1>8. CASE Advance(t)
  <2>1. ASSUME NEW ready, tasks' = [tasks EXCEPT ![t].pc = "enqueue", ![t].todo = ready]
        PROVE  Moves(t)
    BY <1>0, <1>8, <2>1 DEF Moves, TaskState, Advance
  <2> QED BY <1>1, <1>2, <1>8, <2>1 DEF Advance
<1>9. CASE EnqueueSuccessor(t)
  <2>1. ASSUME NEW e, tasks' = [tasks EXCEPT ![t].todo = @ \ {e}] PROVE Moves(t)
    BY <1>0, <1>9, <2>1 DEF Moves, TaskState, EnqueueSuccessor
  <2> QED BY <1>2, <1>9, <2>1 DEF EnqueueSuccessor
<1>10. CASE MarkNode(t) \/ MarkRun(t) \/ FinishRun(t) \/ Revoke(t) \/ Announce(t)
  BY <1>1, <1>10 DEF MarkNode, MarkRun, FinishRun, Revoke, Announce
<1>11. CASE DropRow(t) \/ EnqueueLoop(t) \/ Purge(t)
  BY <1>2, <1>11 DEF DropRow, EnqueueLoop, Purge
<1> QED
  BY <1>3, <1>4, <1>5, <1>6, <1>7, <1>8, <1>9, <1>10, <1>11 DEF JobStep

TasksTyped ==
    /\ tasks \in [Task -> TaskState]
    /\ \A t \in Task : tasks[t].pc # "idle" =>
          tasks[t].row \in QId /\ tasks[t].job \in Job

\* A job step leaves well-typed coroutines and stays in its own columns.
LEMMA JobStepTasks ==
  ASSUME TypeOK, NEW t \in Task, JobStep(t) PROVE TasksTyped'
<1>0. /\ tasks \in [Task -> TaskState]
      /\ tasks[t] \in TaskState
      /\ \A u \in Task : tasks[u].pc # "idle" =>
            tasks[u].row \in QId /\ tasks[u].job \in Job
      /\ tasks[t].pc # "idle"
  BY DEF TypeOK, JobStep, FetchContext, DropRow, ResolveAgent, ReadKey, MarkNode,
         MarkRun, RunAgent, Finalize, EnqueueLoop, Advance, EnqueueSuccessor,
         FinishRun, Revoke, Announce, Purge, At
<1>1. ASSUME NEW p \in PC, Goto(t, p) PROVE TasksTyped'
  BY <1>0, <1>1 DEF TasksTyped, Goto, TaskState
<1>2. ASSUME Leave(t) PROVE TasksTyped'
  BY <1>0, <1>2, IdleState DEF TasksTyped, Leave, Idle
<1> USE DEF PC
<1>3. CASE FetchContext(t)
  <2>1. PICK p \in {"drop", "resolve"} : Goto(t, p)
    BY <1>3 DEF FetchContext
  <2> QED BY <1>1, <2>1
<1>4. CASE ResolveAgent(t)
  <2>1. CASE Goto(t, "readKey")
    BY <1>1, <2>1
  <2>2. CASE tasks' = [tasks EXCEPT ![t].pc = "finalize", ![t].verdict = "failed"]
    BY <1>0, <2>2 DEF TasksTyped, TaskState
  <2> QED BY <1>4, <2>1, <2>2 DEF ResolveAgent
<1>5. CASE ReadKey(t)
  <2>1. PICK k \in BOOLEAN :
          tasks' = [tasks EXCEPT ![t].pc = "markNode", ![t].key = k]
    <3> QED BY <1>5, RunAssumption DEF ReadKey
  <2> QED BY <1>0, <2>1 DEF TasksTyped, TaskState
<1>6. CASE RunAgent(t)
  <2>1. ASSUME NEW o \in Output,
               tasks' = [tasks EXCEPT ![t].pc = "finalize", ![t].out = o,
                                      ![t].verdict = "succeeded", ![t].key = FALSE]
        PROVE  TasksTyped'
    <3>1. tasks' = [tasks EXCEPT ![t] = tasks'[t]]
      BY <1>0, <2>1
    <3>2. /\ tasks'[t] \in TaskState
          /\ tasks'[t].row = tasks[t].row
          /\ tasks'[t].job = tasks[t].job
      BY <1>0, <2>1 DEF TaskState
    <3> QED BY <1>0, <3>1, <3>2 DEF TasksTyped
  <2>2. CASE tasks' = [tasks EXCEPT ![t].pc = "finalize", ![t].verdict = "failed",
                                    ![t].key = FALSE]
    BY <1>0, <2>2 DEF TasksTyped, TaskState
  <2> QED BY <1>6, <2>1, <2>2 DEF RunAgent, OutputsOf
<1>7. CASE Finalize(t)
  <2>1. PICK p \in PC : Goto(t, p)
    BY <1>7 DEF Finalize
  <2> QED BY <1>1, <2>1
<1>8. CASE Advance(t)
  <2>1. ASSUME NEW ready \in SUBSET Edges,
               tasks' = [tasks EXCEPT ![t].pc = "enqueue", ![t].todo = ready]
        PROVE  TasksTyped'
    BY <1>0, <2>1 DEF TasksTyped, TaskState
  <2>2. ReadySuccessors(JobAt(t).node, NodeState(RunAt(t)), tasks[t].out) \subseteq Edges
    BY DEF ReadySuccessors, ConditionalSuccessors, OutEdges
  <2> QED BY <1>1, <1>2, <1>8, <2>1, <2>2 DEF Advance
<1>9. CASE EnqueueSuccessor(t)
  <2>1. ASSUME NEW e, tasks' = [tasks EXCEPT ![t].todo = @ \ {e}]
        PROVE  TasksTyped'
    BY <1>0, <2>1 DEF TasksTyped, TaskState
  <2> QED BY <1>2, <1>9, <2>1 DEF EnqueueSuccessor
<1>10. CASE \/ MarkNode(t) \/ MarkRun(t) \/ FinishRun(t) \/ Revoke(t) \/ Announce(t)
  <2>1. PICK p \in PC : Goto(t, p)
    BY <1>10 DEF MarkNode, MarkRun, FinishRun, Revoke, Announce
  <2> QED BY <1>1, <2>1
<1>11. CASE DropRow(t) \/ EnqueueLoop(t) \/ Purge(t)
  BY <1>2, <1>11 DEF DropRow, EnqueueLoop, Purge
<1> QED
  BY <1>3, <1>4, <1>5, <1>6, <1>7, <1>8, <1>9, <1>10, <1>11 DEF JobStep

\* A coroutine about to enqueue another iteration has one left: ShouldLoop
\* was asked just before.  Without this TypeOK is not inductive.
LoopsBounded ==
    \A t \in Task : At(t, "loop") => JobAt(t).iter < MaxIterations - 1

\* A loop or a successor enqueues a job the run has a place for.
LEMMA EnqueuedJobs ==
  ASSUME TypeOK, LoopsBounded, NEW t \in Task, EnqueueLoop(t) \/ EnqueueSuccessor(t)
  PROVE  \E j \in Job : Enqueue(j)
<1>1. tasks[t] \in TaskState /\ JobAt(t) \in Job
  BY DEF TypeOK, EnqueueLoop, EnqueueSuccessor, At, JobAt
<1>2. CASE EnqueueLoop(t)
  <2>1. JobAt(t).iter \in Nat /\ JobAt(t).iter + 1 \in Iteration
    BY <1>1, <1>2, DagAssumption DEF EnqueueLoop, LoopsBounded, Job, Iteration
  <2>2. [JobAt(t) EXCEPT !.iter = @ + 1] \in Job
    BY <1>1, <2>1 DEF Job
  <2> QED BY <1>2, <2>2 DEF EnqueueLoop
<1>3. CASE EnqueueSuccessor(t)
  <2>1. PICK e \in tasks[t].todo : Enqueue(JobOf(RunAt(t), e.to, 0))
    BY <1>3 DEF EnqueueSuccessor
  <2>2. JobOf(RunAt(t), e.to, 0) \in Job
    BY <1>1, <2>1, DagAssumption DEF TaskState, JobAt, RunAt, JobOf, Job, Iteration
  <2> QED BY <2>1, <2>2
<1> QED BY <1>2, <1>3

\* What a job step does to the tables and to Redis keeps their types.
LEMMA JobStepTables ==
  ASSUME TypeOK, LoopsBounded, NEW t \in Task, JobStep(t) PROVE TypeOK'
<1>0. /\ tasks[t] \in TaskState
      /\ tasks[t].row \in QId /\ tasks[t].job \in Job
  BY DEF TypeOK, JobStep, FetchContext, DropRow, ResolveAgent, ReadKey, MarkNode,
         MarkRun, RunAgent, Finalize, EnqueueLoop, Advance, EnqueueSuccessor,
         FinishRun, Revoke, Announce, Purge, At
<1>1. RunAt(t) \in Run /\ JobAt(t) \in Job /\ tasks[t].verdict \in {"succeeded", "failed"}
  BY <1>0 DEF RunAt, JobAt, Job, TaskState
<1>2. TasksTyped'
  BY JobStepTasks
<1>3. ASSUME DeleteRow(tasks[t].row) PROVE queue' \in [QId -> Q!Row]
  BY <1>0, <1>3 DEF TypeOK, DeleteRow, Q!Row, Q!RowStates
<1>4. ASSUME NEW s \in NodeStatus, UpdateNode(JobAt(t), s)
      PROVE  nodes' \in [Job -> NodeStatus]
  BY <1>4 DEF TypeOK, UpdateNode
<1>5. ASSUME NEW j \in Job, Enqueue(j)
      PROVE  /\ queue' \in [QId -> Q!Row]
             /\ nodes' \in [Job -> NodeStatus]
             /\ nextId' \in Nat
  BY <1>5 DEF TypeOK, Enqueue, NodeStatus, Q!Row, Q!RowStates
<1> USE DEF TypeOK, TasksTyped, Unchanged_DB, Unchanged_Rest
<1>6. CASE FetchContext(t) \/ ResolveAgent(t) \/ ReadKey(t) \/ RunAgent(t) \/ Advance(t)
  BY <1>2, <1>6 DEF FetchContext, ResolveAgent, ReadKey, RunAgent, Advance
<1>7. CASE DropRow(t)
  BY <1>2, <1>3, <1>7 DEF DropRow
<1>8. CASE MarkNode(t)
  BY <1>2, <1>4, <1>8 DEF MarkNode, NodeStatus
<1>9. CASE MarkRun(t)
  BY <1>1, <1>2, <1>9 DEF MarkRun, Started, RunStatus
<1>10. CASE Finalize(t)
  <2>1. tasks[t].verdict \in NodeStatus
    BY <1>1 DEF NodeStatus
  <2>2. succeeded' \subseteq Job
    BY <1>1, <1>10 DEF Finalize
  <2> QED BY <1>2, <1>3, <1>4, <1>10, <2>1, <2>2 DEF Finalize
<1>11. CASE EnqueueLoop(t) \/ EnqueueSuccessor(t)
  BY <1>2, <1>5, <1>11, EnqueuedJobs DEF EnqueueLoop, EnqueueSuccessor
<1>12. CASE FinishRun(t)
  BY <1>1, <1>2, <1>12 DEF FinishRun, RunStatus, Terminal
<1>13. CASE Revoke(t)
  BY <1>1, <1>2, <1>13 DEF Revoke, RevokeKey
<1>14. CASE Announce(t)
  BY <1>1, <1>2, <1>14 DEF Announce, Publish, Terminal
<1>15. CASE Purge(t)
  BY <1>1, <1>2, <1>15 DEF Purge, PurgeKey, RedisWrite
<1> QED
  BY <1>6, <1>7, <1>8, <1>9, <1>10, <1>11, <1>12, <1>13, <1>14, <1>15 DEF JobStep

\* The iteration counter stays below loop.max_iterations along _handle_job.
LEMMA JobStepLoops ==
  ASSUME TypeOK, LoopsBounded, NEW t \in Task, JobStep(t) PROVE LoopsBounded'
<1>0. tasks \in [Task -> TaskState] /\ tasks[t] \in TaskState
  BY DEF TypeOK
<1>1. Moves(t)
  BY JobStepMoves
<1>2. SUFFICES ASSUME tasks'[t].pc = "loop" PROVE tasks'[t].job.iter < MaxIterations - 1
  BY <1>0, <1>1 DEF Moves, LoopsBounded, At, JobAt
<1>3. Finalize(t)
  BY <1>1, <1>2 DEF Moves
<1>4. ShouldLoop(JobAt(t).node, tasks[t].out, JobAt(t).iter)
  BY <1>0, <1>2, <1>3 DEF Finalize, Goto, TaskState
<1> QED
  BY <1>0, <1>1, <1>2, <1>4 DEF Moves, ShouldLoop, JobAt, Idle

\* Every other action: claims, leases, the sweeper and the faults.
LEMMA OtherSteps ==
  ASSUME TypeOK, LoopsBounded,
         \/ \E t \in Task : Claim(t) \/ JobError(t)
         \/ \E q \in QId : Expire(q)
         \/ \E k \in Run : KeyExpires(k)
         \/ \E w \in Worker :
               Sweep(w) \/ Crash(w) \/ Terminate(w) \/ Drained(w) \/ Restart(w)
  PROVE  TypeOK' /\ LoopsBounded'
<1> USE DEF TypeOK, LoopsBounded, At, JobAt
<1>1. ASSUME NEW t \in Task, Claim(t) PROVE TypeOK' /\ LoopsBounded'
  <2>1. PICK q \in QId :
          /\ queue' = [queue EXCEPT ![q].st = "held", ![q].attempts = @ + 1]
          /\ tasks' = [tasks EXCEPT ![t] = JobFor(q)]
          /\ UNCHANGED <<runs, nodes, nextId, scopedKey, redisKey, announced,
                         admin, mode, faults, late, succeeded>>
    BY <1>1 DEF Claim
  <2>2. /\ queue[q] \in Q!Row /\ queue[q].job \in Job
        /\ queue[q].attempts \in Nat /\ queue[q].attempts + 1 \in Nat
    BY DEF Q!Row
  <2>3. queue' \in [QId -> Q!Row]
    BY <2>1, <2>2 DEF Q!Row, Q!RowStates
  <2>4. /\ tasks'[t] \in TaskState
        /\ tasks'[t].pc = "claimed" /\ tasks'[t].row = q /\ tasks'[t].job = queue[q].job
        /\ tasks' = [tasks EXCEPT ![t] = tasks'[t]]
    <3>1. JobFor(q) \in TaskState
      BY <2>2, IdleState DEF JobFor, TaskState, PC
    <3>2. JobFor(q).pc = "claimed" /\ JobFor(q).row = q /\ JobFor(q).job = queue[q].job
      BY DEF JobFor, Idle
    <3> QED BY <2>1, <3>1, <3>2
  <2>5. /\ tasks' \in [Task -> TaskState]
        /\ \A u \in Task : tasks'[u].pc # "idle" =>
              tasks'[u].row \in QId /\ tasks'[u].job \in Job
        /\ \A u \in Task : tasks'[u].pc = "loop" => tasks[u].pc = "loop" /\ tasks'[u] = tasks[u]
    BY <2>2, <2>4
  <2> QED BY <2>1, <2>3, <2>5
<1>2. ASSUME NEW t \in Task, JobError(t) PROVE TypeOK' /\ LoopsBounded'
  BY <1>2, IdleState DEF JobError, Fault, Leave, Idle, Unchanged_ButTasksModeFaults
<1>3. ASSUME NEW q \in QId, Expire(q) PROVE TypeOK' /\ LoopsBounded'
  <2>1. queue' \in [QId -> Q!Row]
    BY <1>3 DEF Expire, Q!Row, Q!RowStates
  <2>2. late' \in Nat
    BY <1>3 DEF Expire
  <2>3. UNCHANGED <<runs, nodes, nextId, scopedKey, redisKey, announced, admin,
                    tasks, mode, faults, succeeded>>
    BY <1>3 DEF Expire
  <2>4. LoopsBounded'
    BY <2>3
  <2> QED BY <2>1, <2>2, <2>3, <2>4
<1>4. ASSUME NEW w \in Worker, Sweep(w) PROVE TypeOK' /\ LoopsBounded'
  <2>1. queue' \in [QId -> Q!Row]
    <3>1. \A q \in QId : [queue[q] EXCEPT !.st = "free"] \in Q!Row
      BY DEF Q!Row, Q!RowStates
    <3>2. \/ queue' = queue
          \/ queue' = [q \in QId |-> IF Stale(q) THEN [queue[q] EXCEPT !.st = "free"]
                                     ELSE queue[q]]
      BY <1>4 DEF Sweep
    <3> QED BY <3>1, <3>2
  <2>2. redisKey' \in [Run -> {"none", "stored", "expired"}]
    BY <1>4 DEF Sweep, PurgeStale
  <2> QED BY <1>4, <2>1, <2>2 DEF Sweep, Fault
<1>5. ASSUME NEW w \in Worker, Crash(w) PROVE TypeOK' /\ LoopsBounded'
  BY <1>5, IdleState DEF Crash, Fault, Idle, Unchanged_ButTasksModeFaults
<1>6. ASSUME NEW w \in Worker, Terminate(w) \/ Drained(w) \/ Restart(w)
      PROVE  TypeOK' /\ LoopsBounded'
  BY <1>6 DEF Terminate, Drained, Restart, Fault, Unchanged_ButTasksModeFaults
<1>7. ASSUME NEW r \in Run, KeyExpires(r) PROVE TypeOK' /\ LoopsBounded'
  BY <1>7 DEF KeyExpires
<1> QED BY <1>1, <1>2, <1>3, <1>4, <1>5, <1>6, <1>7

\* The admin handlers touch no coroutine.
LEMMA AdminLoops ==
  ASSUME LoopsBounded, NEW r \in Run, Admin(r) PROVE LoopsBounded'
  BY DEF Admin, IssueKey, CommitRun, Cancel, CancelAnnounce, CancelPurge,
         LoopsBounded, At, JobAt

\* Types and the iteration bound together are inductive.
LEMMA TypeInvariant == Spec => [](TypeOK /\ LoopsBounded)
<1>1. Init => TypeOK /\ LoopsBounded
  BY TypeInit DEF Init, LoopsBounded, At, Idle
<1>2. TypeOK /\ LoopsBounded /\ [Next]_vars => (TypeOK /\ LoopsBounded)'
  <2> SUFFICES ASSUME TypeOK, LoopsBounded, [Next]_vars PROVE (TypeOK /\ LoopsBounded)'
    OBVIOUS
  <2>1. CASE \E r \in Run : Admin(r)
    BY <2>1, TypeAdmin, AdminLoops
  <2>2. CASE \E t \in Task : JobStep(t)
    BY <2>2, JobStepTables, JobStepLoops
  <2>3. CASE UNCHANGED vars
    BY <2>3 DEF vars, TypeOK, LoopsBounded, At, JobAt
  <2> QED BY <2>1, <2>2, <2>3, OtherSteps DEF Next
<1> QED BY <1>1, <1>2, PTL DEF Spec

\* Rows, run_nodes and coroutines always hold what their columns and locals
\* may hold; in particular no node is ever enqueued for an iteration beyond
\* loop.max_iterations, however often jobs are repeated.
THEOREM TypeCorrect == Spec => []TypeOK
  BY TypeInvariant, PTL

---------------------------------------------------------------------------
(* The work queue: leases are exclusive until one runs out under a live    *)
(* job, and the engine implements the abstract queue of WorkQueue.         *)

\* Ids at or above the sequence are still to be used.
FreshIds == \A q \in QId : q >= nextId => queue[q].st = "unused"

\* A coroutine's row has been claimed at least once.
RowsClaimed ==
    \A t \in Task : tasks[t].pc # "idle" =>
        /\ queue[tasks[t].row].st # "unused"
        /\ queue[tasks[t].row].attempts > 0

\* While no lease has run out under a live job, every coroutine works under
\* its row's present claim, and rows are not shared.
Lease ==
    \A t \in Task : tasks[t].pc # "idle" =>
        /\ queue[tasks[t].row].st \in {"held", "deleted"}
        /\ tasks[t].attempt = queue[tasks[t].row].attempts
        /\ \A u \in Task : tasks[u].pc # "idle" /\ tasks[u].row = tasks[t].row => t = u

QueueInv == FreshIds /\ RowsClaimed /\ (late = 0 => Lease)

\* What a job step may do to the queue.
LEMMA JobStepQueue ==
  ASSUME TypeOK, LoopsBounded, NEW t \in Task, JobStep(t)
  PROVE  /\ UNCHANGED late
         /\ \/ UNCHANGED <<queue, nextId>>
            \/ DeleteRow(tasks[t].row) /\ UNCHANGED nextId
            \/ \E j \in Job : Enqueue(j)
<1> USE DEF Unchanged_DB, Unchanged_Rest
<1>1. CASE EnqueueLoop(t) \/ EnqueueSuccessor(t)
  BY <1>1, EnqueuedJobs DEF EnqueueLoop, EnqueueSuccessor
<1>2. CASE DropRow(t) \/ Finalize(t)
  BY <1>2 DEF DropRow, Finalize
<1>3. CASE ~(EnqueueLoop(t) \/ EnqueueSuccessor(t) \/ DropRow(t) \/ Finalize(t))
  BY <1>3 DEF JobStep, FetchContext, ResolveAgent, ReadKey, MarkNode, MarkRun,
     RunAgent, Advance, FinishRun, Revoke, Announce, Purge
<1> QED BY <1>1, <1>2, <1>3

\* An insertion disturbs no coroutine.
LEMMA InsertKeepsRows ==
  ASSUME TypeOK, QueueInv, NEW j \in Job, Enqueue(j)
  PROVE  /\ FreshIds'
         /\ \A t \in Task : tasks[t].pc # "idle" =>
               queue'[tasks[t].row] = queue[tasks[t].row]
  BY DEF TypeOK, QueueInv, FreshIds, RowsClaimed, Enqueue

\* Deleting a row that a coroutine works on keeps every row's history.
LEMMA DeleteKeepsRows ==
  ASSUME TypeOK, QueueInv, NEW t \in Task, tasks[t].pc # "idle",
         DeleteRow(tasks[t].row), UNCHANGED nextId
  PROVE  /\ FreshIds'
         /\ \A u \in Task : tasks[u].pc # "idle" =>
               /\ queue'[tasks[u].row].attempts = queue[tasks[u].row].attempts
               /\ queue'[tasks[u].row].st \in {queue[tasks[u].row].st, "deleted"}
  BY RunAssumption DEF TypeOK, QueueInv, FreshIds, RowsClaimed, DeleteRow, Q!Row, Q!Present

\* The steps of _handle_job keep claims and rows consistent.
LEMMA QueueJobStep ==
  ASSUME TypeOK, LoopsBounded, QueueInv, NEW t \in Task, JobStep(t)
  PROVE  QueueInv'
<1>1. Moves(t) /\ tasks \in [Task -> TaskState]
  BY JobStepMoves DEF TypeOK
<1>2. /\ UNCHANGED late
      /\ FreshIds'
      /\ \A u \in Task : tasks[u].pc # "idle" =>
            /\ queue'[tasks[u].row].attempts = queue[tasks[u].row].attempts
            /\ queue'[tasks[u].row].st \in {queue[tasks[u].row].st, "deleted"}
  <2>1. CASE UNCHANGED <<queue, nextId>>
    BY <2>1, JobStepQueue DEF QueueInv, FreshIds
  <2>2. CASE DeleteRow(tasks[t].row) /\ UNCHANGED nextId
    BY <1>1, <2>2, JobStepQueue, DeleteKeepsRows DEF Moves
  <2>3. CASE \E j \in Job : Enqueue(j)
    BY <2>3, JobStepQueue, InsertKeepsRows
  <2> QED BY <2>1, <2>2, <2>3, JobStepQueue
<1>3. \A u \in Task : tasks'[u].pc # "idle" =>
         /\ tasks[u].pc # "idle"
         /\ tasks'[u].row = tasks[u].row
         /\ tasks'[u].attempt = tasks[u].attempt
  BY <1>1 DEF Moves, Idle
<1>4. RowsClaimed'
  BY <1>2, <1>3 DEF QueueInv, RowsClaimed
<1>5. ASSUME late' = 0 PROVE Lease'
  BY <1>2, <1>3, <1>5 DEF QueueInv, Lease
<1> QED BY <1>2, <1>4, <1>5 DEF QueueInv

\* So do the admin handlers, which only insert.
LEMMA QueueAdmin ==
  ASSUME TypeOK, QueueInv, NEW r \in Run, Admin(r) PROVE QueueInv'
<1>1. UNCHANGED <<tasks, late>>
  BY DEF Admin, IssueKey, CommitRun, Cancel, CancelAnnounce, CancelPurge
<1>2. CASE CommitRun(r)
  <2>1. \E j \in Job : Enqueue(j)
    BY <1>2, EntryJob DEF CommitRun
  <2> QED BY <1>1, <2>1, InsertKeepsRows DEF QueueInv, RowsClaimed, Lease
<1>3. CASE ~CommitRun(r)
  <2>1. UNCHANGED <<queue, nextId>>
    BY <1>3 DEF Admin, IssueKey, Cancel, CancelAnnounce, CancelPurge
  <2> QED BY <1>1, <2>1 DEF QueueInv, FreshIds, RowsClaimed, Lease
<1> QED BY <1>2, <1>3

\* A claim gives a free row to one coroutine under a new attempt number.
LEMMA QueueClaim ==
  ASSUME TypeOK, QueueInv, NEW t \in Task, Claim(t) PROVE QueueInv'
<1>1. PICK q \in QId :
        /\ tasks[t].pc = "idle"
        /\ queue[q].st = "free"
        /\ queue' = [queue EXCEPT ![q].st = "held", ![q].attempts = @ + 1]
        /\ tasks' = [tasks EXCEPT ![t] = JobFor(q)]
        /\ UNCHANGED <<nextId, late>>
  BY DEF Claim, Claimable, At
<1>2. /\ queue[q].attempts \in Nat
      /\ queue'[q].st = "held" /\ queue'[q].attempts = queue[q].attempts + 1
      /\ \A p \in QId : p # q => queue'[p] = queue[p]
  BY <1>1 DEF TypeOK, Q!Row
<1>3. /\ tasks'[t].row = q /\ tasks'[t].attempt = queue[q].attempts + 1
      /\ \A u \in Task : u # t => tasks'[u] = tasks[u]
  BY <1>1 DEF TypeOK, JobFor, Idle
<1>4. \A u \in Task : tasks[u].pc # "idle" => tasks[u].row \in QId
  BY DEF TypeOK
<1>5. FreshIds'
  BY <1>1, <1>2 DEF QueueInv, FreshIds
<1>6. RowsClaimed'
  <2> SUFFICES ASSUME NEW u \in Task, tasks'[u].pc # "idle"
               PROVE  /\ queue'[tasks'[u].row].st # "unused"
                      /\ queue'[tasks'[u].row].attempts > 0
    BY DEF RowsClaimed
  <2>1. CASE u = t
    BY <1>2, <1>3, <2>1
  <2>2. CASE u # t
    BY <1>2, <1>3, <1>4, <2>2 DEF QueueInv, RowsClaimed
  <2> QED BY <2>1, <2>2
<1>7. ASSUME late' = 0 PROVE Lease'
  <2>1. \A u \in Task : tasks[u].pc # "idle" => tasks[u].row # q
    BY <1>1, <1>7 DEF QueueInv, Lease
  <2>2. \A u \in Task : u # t /\ tasks'[u].pc # "idle" =>
           /\ tasks'[u] = tasks[u]
           /\ tasks[u].row # q
           /\ queue'[tasks[u].row] = queue[tasks[u].row]
    BY <1>2, <1>3, <1>4, <2>1
  <2>3. Lease
    BY <1>1, <1>7 DEF QueueInv
  <2> QED BY <1>2, <1>3, <2>2, <2>3 DEF Lease
<1> QED BY <1>5, <1>6, <1>7 DEF QueueInv

\* A lease that runs out keeps the row's attempt number.
LEMMA QueueExpire ==
  ASSUME TypeOK, QueueInv, NEW q \in QId, Expire(q) PROVE QueueInv'
<1>1. /\ queue[q].st = "held"
      /\ queue' = [queue EXCEPT ![q].st = "expired"]
      /\ UNCHANGED <<tasks, nextId>>
  BY DEF Expire
<1>2. /\ queue'[q].st = "expired"
      /\ \A p \in QId : /\ queue'[p].attempts = queue[p].attempts
                        /\ p # q => queue'[p] = queue[p]
  BY <1>1 DEF TypeOK, Q!Row
<1>3. \A u \in Task : tasks[u].pc # "idle" => tasks[u].row \in QId
  BY DEF TypeOK
<1>4. FreshIds' /\ RowsClaimed'
  BY <1>1, <1>2, <1>3 DEF QueueInv, FreshIds, RowsClaimed
<1>5. ASSUME late' = 0 PROVE Lease'
  <2>1. late = 0 /\ ~LiveHolder(q)
    BY <1>5 DEF Expire, TypeOK
  <2>2. \A u \in Task : tasks[u].pc # "idle" => tasks[u].row # q
    BY <2>1 DEF QueueInv, Lease, LiveHolder, At
  <2> QED BY <1>1, <1>2, <1>3, <2>1, <2>2 DEF QueueInv, Lease
<1> QED BY <1>4, <1>5 DEF QueueInv

\* The sweeper frees expired rows only, so no row with a live lease.
LEMMA QueueSweep ==
  ASSUME TypeOK, QueueInv, NEW w \in Worker, Sweep(w) PROVE QueueInv'
<1> UNCHANGED <<tasks, nextId, late>>
  BY DEF Sweep
<1>1. CASE UNCHANGED queue
  BY <1>1 DEF QueueInv, FreshIds, RowsClaimed, Lease
<1>2. CASE queue' = [q \in QId |-> IF Stale(q) THEN [queue[q] EXCEPT !.st = "free"]
                                             ELSE queue[q]]
  <2>1. \A p \in QId :
           /\ queue'[p].attempts = queue[p].attempts
           /\ queue'[p].st = IF queue[p].st = "expired" THEN "free" ELSE queue[p].st
    BY <1>2 DEF Stale, TypeOK, Q!Row
  <2>2. \A u \in Task : tasks[u].pc # "idle" => tasks[u].row \in QId
    BY DEF TypeOK
  <2> QED BY <2>1, <2>2 DEF QueueInv, FreshIds, RowsClaimed, Lease
<1> QED BY <1>1, <1>2 DEF Sweep

\* Errors, crashes, drains and restarts leave the table alone.
LEMMA QueueFaults ==
  ASSUME TypeOK, QueueInv,
         \/ \E t \in Task : JobError(t)
         \/ \E k \in Run : KeyExpires(k)
         \/ \E w \in Worker : Crash(w) \/ Terminate(w) \/ Drained(w) \/ Restart(w)
  PROVE  QueueInv'
<1>1. UNCHANGED <<queue, nextId, late>>
  BY DEF KeyExpires, JobError, Crash, Terminate, Drained, Restart, Unchanged_ButTasksModeFaults
<1>2. \A u \in Task : tasks'[u] \in {tasks[u], Idle}
  BY DEF KeyExpires, JobError, Crash, Terminate, Drained, Restart, Leave, TypeOK
<1>3. \A u \in Task : tasks'[u].pc # "idle" => tasks'[u] = tasks[u]
  BY <1>2 DEF Idle
<1> QED BY <1>1, <1>3 DEF QueueInv, FreshIds, RowsClaimed, Lease

\* Every step keeps claims and rows consistent.
LEMMA QueueStep ==
  ASSUME TypeOK, LoopsBounded, QueueInv, [Next]_vars PROVE QueueInv'
<1>1. CASE UNCHANGED vars
  BY <1>1 DEF vars, QueueInv, FreshIds, RowsClaimed, Lease
<1> QED
  BY <1>1, QueueAdmin, QueueClaim, QueueJobStep, QueueExpire, QueueSweep, QueueFaults
     DEF Next

\* Claims and rows are consistent in every reachable state.
LEMMA QueueInvariant == Spec => [](TypeOK /\ LoopsBounded /\ QueueInv)
<1>1. Init => QueueInv
  BY DEF Init, QueueInv, FreshIds, RowsClaimed, Lease, Idle
<1> QED BY <1>1, QueueStep, TypeInvariant, PTL DEF Spec

\* FOR UPDATE SKIP LOCKED, the claimed_by test, the lease and the sweeper hand
\* a row to at most one coroutine at a time, through any crashes, errors and
\* restarts, as long as no lease has run out under a live job.
THEOREM LeaseIsExclusive == Spec => []LeaseExclusive
<1>1. QueueInv => LeaseExclusive
  BY DEF QueueInv, Lease, LeaseExclusive, At
<1> QED BY <1>1, QueueInvariant, PTL

\* Inserting with the next id of the sequence is WorkQueue's Insert.
LEMMA InsertStep ==
  ASSUME TypeOK, QueueInv, NEW j \in Job, Enqueue(j) PROVE Q!Next
<1>1. nextId \in QId /\ queue[nextId].st = "unused"
  BY DEF Enqueue, TypeOK, QueueInv, FreshIds
<1>2. Q!Insert(nextId)
  BY <1>1 DEF Enqueue, Q!Insert
<1> QED BY <1>1, <1>2 DEF Q!Next

\* Every step of the engine is a step of WorkQueue or a stutter.
LEMMA RefinementStep ==
  ASSUME TypeOK, LoopsBounded, QueueInv, [Next]_vars PROVE [Q!Next]_queue
<1>1. ASSUME NEW r \in Run, Admin(r) PROVE [Q!Next]_queue
  <2>1. CASE CommitRun(r)
    <3>1. \E j \in Job : Enqueue(j)
      BY <2>1, EntryJob DEF CommitRun
    <3> QED BY <3>1, InsertStep
  <2>2. CASE ~CommitRun(r)
    BY <1>1, <2>2 DEF Admin, IssueKey, Cancel, CancelAnnounce, CancelPurge
  <2> QED BY <2>1, <2>2
<1>2. ASSUME NEW t \in Task, JobStep(t) PROVE [Q!Next]_queue
  <2>1. tasks[t].pc # "idle" /\ tasks[t].row \in QId /\ queue[tasks[t].row].attempts > 0
    BY <1>2, JobStepMoves DEF Moves, TypeOK, QueueInv, RowsClaimed
  <2>2. CASE DeleteRow(tasks[t].row)
    BY <2>1, <2>2 DEF DeleteRow, Q!Next, Q!Delete, Q!Present
  <2>3. CASE \E j \in Job : Enqueue(j)
    BY <2>3, InsertStep
  <2> QED BY <1>2, <2>2, <2>3, JobStepQueue
<1>3. ASSUME NEW t \in Task, Claim(t) PROVE [Q!Next]_queue
  BY <1>3 DEF Claim, Claimable, Q!Next, Q!Claim
<1>4. ASSUME NEW q \in QId, Expire(q) PROVE [Q!Next]_queue
  BY <1>4 DEF Expire, Q!Next, Q!Expire
<1>5. ASSUME NEW w \in Worker, Sweep(w) PROVE [Q!Next]_queue
  BY <1>5 DEF Sweep, Stale, Q!Next, Q!Reclaim
<1>6. CASE \/ UNCHANGED vars
           \/ \E t \in Task : JobError(t)
           \/ \E k \in Run : KeyExpires(k)
           \/ \E w \in Worker : Crash(w) \/ Terminate(w) \/ Drained(w) \/ Restart(w)
  BY <1>6 DEF vars, KeyExpires, JobError, Crash, Terminate, Drained, Restart,
     Unchanged_ButTasksModeFaults
<1> QED BY <1>1, <1>2, <1>3, <1>4, <1>5, <1>6 DEF Next

\* The work_queue table, as the admin service and the workers use it, is the
\* at-least-once queue of WorkQueue: whatever crashes, no row is handed out
\* while it is held, none changes its job, none is deleted unclaimed.
THEOREM EngineImplementsWorkQueue == Spec => ImplementsWorkQueue
<1>1. Init => Q!Init
  BY TypeInit DEF Init, TypeOK, Q!Init
<1> QED
  BY <1>1, RefinementStep, QueueInvariant, PTL DEF Spec, ImplementsWorkQueue, Q!Spec
=============================================================================
