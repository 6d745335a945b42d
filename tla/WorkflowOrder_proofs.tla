------------------------ MODULE WorkflowOrder_proofs ------------------------
(***************************************************************************)
(* The order of execution: nothing runs ahead of what it depends on, and a *)
(* run marked succeeded is complete when all paths of its DAG meet in      *)
(* every terminal node.                                                    *)
(***************************************************************************)
EXTENDS WorkflowRun_proofs

\* Some execution of node n of run r has succeeded.
HasSucceeded(r, n) == \E i \in Iteration : JobOf(r, n, i) \in succeeded

\* What the row of job j presupposes.
Justified(j) ==
    /\ j.iter > 0 => JobOf(j.run, j.node, j.iter - 1) \in succeeded
    /\ j.iter = 0 /\ j.node # Entry =>
          \A p \in Predecessors(j.node) : HasSucceeded(j.run, p)

\* What coroutine t has established before it loops or advances.
Established(t) ==
    /\ tasks[t].pc \in {"loop", "advance"} => tasks[t].job \in succeeded
    /\ tasks[t].pc = "enqueue" =>
          \A e \in tasks[t].todo : \A p \in Predecessors(e.to) :
             HasSucceeded(tasks[t].job.run, p)

Order ==
    /\ \A j \in Job : nodes[j] = "succeeded" => j \in succeeded
    /\ \A j \in Job : nodes[j] # "absent" => Justified(j)
    /\ \A t \in Task : Established(t)

\* History only grows, and so does what it justifies.
LEMMA SucceededGrows ==
  ASSUME TypeOK, LoopsBounded, [Next]_vars PROVE succeeded \subseteq succeeded'
<1>1. CASE UNCHANGED vars
  BY <1>1 DEF vars
<1>2. ASSUME NEW t \in Task, JobStep(t) PROVE succeeded \subseteq succeeded'
  BY <1>2 DEF JobStep, FetchContext, DropRow, ResolveAgent, ReadKey, MarkNode, MarkRun,
     RunAgent, Finalize, EnqueueLoop, Advance, EnqueueSuccessor, FinishRun, Revoke,
     Announce, Purge
<1>3. CASE ~(UNCHANGED vars \/ \E t \in Task : JobStep(t))
  BY <1>3 DEF Next, Admin, IssueKey, CommitRun, Cancel, CancelAnnounce, CancelPurge,
     Claim, Expire, KeyExpires, Sweep, JobError, Crash, Terminate, Drained, Restart,
     Unchanged_ButTasksModeFaults
<1> QED BY <1>1, <1>2, <1>3

\* A job whose predecessors have succeeded stays justified: history only grows.
LEMMA JustifiedGrows ==
  ASSUME succeeded \subseteq succeeded', NEW j, Justified(j) PROVE Justified(j)'
  BY DEF Justified, HasSucceeded

\* A step that leaves run_nodes and the history alone, and takes no coroutine
\* to a point that presupposes something, keeps the order.
LEMMA QuietStep ==
  ASSUME Order, UNCHANGED <<nodes, succeeded>>,
         \A t \in Task : \/ tasks'[t].pc \notin {"loop", "advance", "enqueue"}
                         \/ tasks'[t] = tasks[t]
  PROVE  Order'
  BY DEF Order, Established, Justified, HasSucceeded

\* So does a row inserted for a justified job.
LEMMA EnqueueStep ==
  ASSUME TypeOK, Order, NEW j \in Job, Justified(j), Enqueue(j), UNCHANGED succeeded,
         \A t \in Task : \/ tasks'[t].pc \notin {"loop", "advance", "enqueue"}
                         \/ tasks'[t] = tasks[t]
                         \/ /\ tasks[t].pc = "enqueue" /\ tasks'[t].pc = "enqueue"
                            /\ tasks'[t].job = tasks[t].job
                            /\ tasks'[t].todo \subseteq tasks[t].todo
  PROVE  Order'
<1>1. \A k \in Job : nodes'[k] = IF k = j /\ nodes[k] = "absent" THEN "pending" ELSE nodes[k]
  BY DEF TypeOK, Enqueue
<1>2. \A k \in Job : nodes'[k] = "succeeded" => k \in succeeded'
  BY <1>1 DEF Order
<1>3. \A k \in Job : nodes'[k] # "absent" => Justified(k)'
  BY <1>1, JustifiedGrows DEF Order
<1>4. ASSUME NEW t \in Task PROVE Established(t)'
  <2>1. Established(t)
    BY DEF Order
  <2> QED BY <2>1 DEF Established, HasSucceeded
<1> QED BY <1>2, <1>3, <1>4 DEF Order

\* Recording a result keeps the order, and records what advance presupposes.
LEMMA OrderFinalize ==
  ASSUME TypeOK, Order, NEW t \in Task, Finalize(t) PROVE Order'
<1>1. /\ tasks \in [Task -> TaskState] /\ tasks[t] \in TaskState
      /\ tasks[t].job \in Job /\ tasks[t].pc = "finalize"
  BY DEF TypeOK, Finalize, At
<1>2. Moves(t)
  BY JobStepMoves DEF JobStep
<1>3. succeeded \subseteq succeeded'
  BY DEF Finalize
<1>4. \A k \in Job : nodes'[k] = IF k = tasks[t].job /\ nodes[k] # "absent"
                                 THEN tasks[t].verdict ELSE nodes[k]
  BY <1>1 DEF TypeOK, Finalize, UpdateNode, JobAt
<1>5. /\ tasks[t].verdict = "succeeded" => tasks[t].job \in succeeded'
      /\ tasks'[t].pc # "enqueue"
      /\ tasks'[t].pc \in {"loop", "advance"} => tasks[t].verdict = "succeeded"
  <2>1. CASE tasks[t].verdict = "failed"
    <3>1. tasks'[t].pc = "finishRun"
      BY <1>1, <2>1 DEF Finalize, Goto, TaskState
    <3> QED BY <2>1, <3>1
  <2>2. CASE tasks[t].verdict = "succeeded"
    <3>1. tasks'[t].pc \in {"loop", "advance"} /\ succeeded' = succeeded \cup {tasks[t].job}
      BY <1>1, <2>2 DEF Finalize, Goto, TaskState, JobAt
    <3> QED BY <2>2, <3>1
  <2> QED BY <1>1, <2>1, <2>2 DEF TaskState
<1>6. \A k \in Job : nodes'[k] = "succeeded" => k \in succeeded'
  BY <1>3, <1>4, <1>5 DEF Order
<1>7. \A k \in Job : nodes'[k] # "absent" => Justified(k)'
  BY <1>3, <1>4, JustifiedGrows DEF Order
<1>8. ASSUME NEW u \in Task PROVE Established(u)'
  <2>1. CASE u = t
    BY <1>2, <1>5, <2>1 DEF Established, Moves, Idle
  <2>2. CASE u # t
    <3>1. tasks'[u] = tasks[u] /\ Established(u)
      BY <1>1, <1>2, <2>2 DEF Moves, Order
    <3> QED BY <1>3, <3>1 DEF Established, HasSucceeded
  <2> QED BY <2>1, <2>2
<1> QED BY <1>6, <1>7, <1>8 DEF Order

\* Marking a node running creates no row, so keeps the order.
LEMMA OrderMarkNode ==
  ASSUME TypeOK, Order, NEW t \in Task, MarkNode(t) PROVE Order'
<1>1. /\ tasks \in [Task -> TaskState] /\ tasks[t].job \in Job
      /\ tasks' = [tasks EXCEPT ![t].pc = "markRun"] /\ UNCHANGED succeeded
  BY DEF TypeOK, MarkNode, At, Goto
<1>2. \A k \in Job : nodes'[k] = IF k = tasks[t].job /\ nodes[k] # "absent"
                                 THEN "running" ELSE nodes[k]
  BY <1>1 DEF TypeOK, MarkNode, UpdateNode, JobAt
<1>3. \A k \in Job : nodes'[k] = "succeeded" => k \in succeeded'
  BY <1>1, <1>2 DEF Order
<1>4. \A k \in Job : nodes'[k] # "absent" => Justified(k)'
  BY <1>1, <1>2, JustifiedGrows DEF Order
<1>5. ASSUME NEW u \in Task PROVE Established(u)'
  <2>1. Established(u) /\ (u # t => tasks'[u] = tasks[u]) /\ tasks'[t].pc = "markRun"
    BY <1>1 DEF Order, TaskState
  <2> QED BY <1>1, <2>1 DEF Established, HasSucceeded
<1> QED BY <1>3, <1>4, <1>5 DEF Order

\* The next iteration is enqueued by the coroutine that finished this one.
LEMMA OrderLoop ==
  ASSUME TypeOK, LoopsBounded, Order, NEW t \in Task, EnqueueLoop(t) PROVE Order'
<1> DEFINE j == [JobAt(t) EXCEPT !.iter = @ + 1]
<1>1. /\ tasks[t].pc = "loop" /\ tasks[t].job \in Job
      /\ tasks' = [tasks EXCEPT ![t] = Idle]
      /\ Enqueue(j) /\ UNCHANGED succeeded
  BY DEF TypeOK, EnqueueLoop, At, Leave
<1>2. j \in Job /\ j.iter - 1 = tasks[t].job.iter /\ j.iter > 0
  BY <1>1, DagAssumption DEF LoopsBounded, At, JobAt, Job, Iteration
<1>3. Justified(j)
  <2>1. JobOf(j.run, j.node, j.iter - 1) = tasks[t].job
    BY <1>1, <1>2 DEF JobOf, Job, JobAt
  <2>2. tasks[t].job \in succeeded
    BY <1>1 DEF Order, Established
  <2> HIDE DEF j
  <2> QED BY <1>2, <2>1, <2>2 DEF Justified
<1>4. \A u \in Task : \/ tasks'[u].pc \notin {"loop", "advance", "enqueue"}
                      \/ tasks'[u] = tasks[u]
  BY <1>1 DEF TypeOK, Idle
<1> HIDE DEF j
<1> QED BY <1>1, <1>2, <1>3, <1>4, EnqueueStep

\* The edges ready in the state just read lead to justified jobs.
LEMMA OrderAdvance ==
  ASSUME TypeOK, Order, NEW t \in Task, Advance(t) PROVE Order'
<1>1. /\ tasks \in [Task -> TaskState] /\ tasks[t] \in TaskState /\ tasks[t].job \in Job
      /\ UNCHANGED <<nodes, succeeded>>
  BY DEF TypeOK, Advance, At, Unchanged_DB
<1> DEFINE ready == ReadySuccessors(JobAt(t).node, NodeState(RunAt(t)), tasks[t].out)
<1>2. CASE tasks' = [tasks EXCEPT ![t].pc = "enqueue", ![t].todo = ready]
  <2>1. \A e \in ready : \A p \in Predecessors(e.to) : HasSucceeded(tasks[t].job.run, p)
    <3> SUFFICES ASSUME NEW e \in ready, NEW p \in Predecessors(e.to)
                 PROVE  HasSucceeded(tasks[t].job.run, p)
      OBVIOUS
    <3>1. p \in Node /\ 0 \in Iteration /\ tasks[t].job.run \in Run
      BY <1>1, DagAssumption DEF Predecessors, Iteration, Job
    <3>2. nodes[JobOf(tasks[t].job.run, p, 0)] = "succeeded"
      BY <3>1 DEF ReadySuccessors, NodeState, RunAt
    <3> QED BY <3>1, <3>2, JobsExist DEF Order, HasSucceeded
  <2>2. /\ tasks'[t].pc = "enqueue" /\ tasks'[t].job = tasks[t].job /\ tasks'[t].todo = ready
        /\ \A u \in Task : u # t => tasks'[u] = tasks[u]
    BY <1>1, <1>2 DEF TaskState
  <2> HIDE DEF ready
  <2>3. ASSUME NEW u \in Task PROVE Established(u)'
    <3>1. CASE u = t
      BY <1>1, <2>1, <2>2, <3>1 DEF Established, HasSucceeded
    <3>2. CASE u # t
      BY <1>1, <2>2, <3>2 DEF Order, Established, HasSucceeded
    <3> QED BY <3>1, <3>2
  <2> QED BY <1>1, <2>3 DEF Order, Justified, HasSucceeded
<1>3. CASE Goto(t, "finishRun") \/ Leave(t)
  <2>1. \A u \in Task : \/ tasks'[u].pc \notin {"loop", "advance", "enqueue"}
                        \/ tasks'[u] = tasks[u]
    BY <1>1, <1>3 DEF Goto, Leave, Idle, TaskState
  <2> QED BY <1>1, <2>1, QuietStep
<1> QED BY <1>2, <1>3 DEF Advance

\* Inserting a successor that was found ready keeps the order.
LEMMA OrderEnqueue ==
  ASSUME TypeOK, Order, NEW t \in Task, EnqueueSuccessor(t) PROVE Order'
<1>1. /\ tasks \in [Task -> TaskState] /\ tasks[t] \in TaskState /\ tasks[t].job \in Job
      /\ tasks[t].pc = "enqueue" /\ UNCHANGED succeeded
  BY DEF TypeOK, EnqueueSuccessor, At
<1>2. PICK e \in tasks[t].todo :
        /\ Enqueue(JobOf(RunAt(t), e.to, 0))
        /\ IF tasks[t].todo = {e}
           THEN Leave(t)
           ELSE tasks' = [tasks EXCEPT ![t].todo = @ \ {e}]
  BY DEF EnqueueSuccessor
<1>3. JobOf(RunAt(t), e.to, 0) \in Job
  BY <1>1, DagAssumption DEF TaskState, RunAt, JobOf, Job, Iteration
<1>4. Justified(JobOf(RunAt(t), e.to, 0))
  BY <1>1 DEF Order, Established, Justified, JobOf, RunAt
<1>5. \A u \in Task :
        \/ tasks'[u].pc \notin {"loop", "advance", "enqueue"}
        \/ tasks'[u] = tasks[u]
        \/ /\ tasks[u].pc = "enqueue" /\ tasks'[u].pc = "enqueue"
           /\ tasks'[u].job = tasks[u].job
           /\ tasks'[u].todo \subseteq tasks[u].todo
  BY <1>1, <1>2 DEF Leave, Idle, TaskState
<1> QED BY <1>1, <1>2, <1>3, <1>4, <1>5, EnqueueStep

\* Every step of _handle_job keeps the order.
LEMMA OrderJobStep ==
  ASSUME TypeOK, LoopsBounded, Order, NEW t \in Task, JobStep(t) PROVE Order'
<1>1. CASE Finalize(t) \/ MarkNode(t) \/ EnqueueLoop(t) \/ Advance(t) \/ EnqueueSuccessor(t)
  BY <1>1, OrderFinalize, OrderMarkNode, OrderLoop, OrderAdvance, OrderEnqueue
<1>2. CASE \/ FetchContext(t) \/ DropRow(t) \/ ResolveAgent(t) \/ ReadKey(t) \/ MarkRun(t)
           \/ RunAgent(t) \/ FinishRun(t) \/ Revoke(t) \/ Announce(t) \/ Purge(t)
  <2> USE DEF FetchContext, DropRow, ResolveAgent, ReadKey, MarkRun, RunAgent, FinishRun,
              Revoke, Announce, Purge
  <2>1. UNCHANGED <<nodes, succeeded>>
    BY <1>2 DEF Unchanged_DB
  <2>2. tasks'[t].pc \notin {"loop", "advance", "enqueue"}
    <3>1. tasks \in [Task -> TaskState] /\ tasks[t] \in TaskState
      BY DEF TypeOK
    <3>2. CASE FetchContext(t) \/ DropRow(t) \/ MarkRun(t) \/ FinishRun(t) \/ Revoke(t)
      BY <3>1, <3>2 DEF Goto, Leave, Idle, TaskState
    <3>3. CASE Announce(t) \/ Purge(t)
      BY <3>1, <3>3 DEF Goto, Leave, Idle, TaskState
    <3>4. CASE ResolveAgent(t)
      BY <3>1, <3>4 DEF Goto, TaskState
    <3>5. CASE ReadKey(t)
      <4>1. PICK k : tasks' = [tasks EXCEPT ![t].pc = "markNode", ![t].key = k]
        BY <3>5
      <4> QED BY <3>1, <4>1 DEF TaskState
    <3>6. CASE RunAgent(t)
      <4>1. ASSUME NEW o,
                   tasks' = [tasks EXCEPT ![t].pc = "finalize", ![t].out = o,
                                          ![t].verdict = "succeeded", ![t].key = FALSE]
            PROVE  tasks'[t].pc = "finalize"
        BY <3>1, <4>1 DEF TaskState
      <4>2. ASSUME tasks' = [tasks EXCEPT ![t].pc = "finalize", ![t].verdict = "failed",
                                          ![t].key = FALSE]
            PROVE  tasks'[t].pc = "finalize"
        BY <3>1, <4>2 DEF TaskState
      <4> QED BY <3>6, <4>1, <4>2
    <3> QED BY <1>2, <3>2, <3>3, <3>4, <3>5, <3>6
  <2> QED BY <2>1, <2>2, JobStepMoves, QuietStep DEF Moves, TypeOK
<1> QED BY <1>1, <1>2 DEF JobStep

\* Submitting and cancelling keep the order: the entry needs no predecessor.
LEMMA OrderAdmin ==
  ASSUME TypeOK, Order, NEW r \in Run, Admin(r) PROVE Order'
<1>1. UNCHANGED <<tasks, succeeded>>
  BY DEF Admin, IssueKey, CommitRun, Cancel, CancelAnnounce, CancelPurge
<1>2. CASE CommitRun(r)
  <2>1. Justified(JobOf(r, Entry, 0))
    BY DEF Justified, JobOf
  <2> QED BY <1>1, <1>2, <2>1, EntryJob, EnqueueStep DEF CommitRun
<1>3. CASE ~CommitRun(r)
  <2>1. UNCHANGED nodes
    BY <1>3 DEF Admin, IssueKey, Cancel, CancelAnnounce, CancelPurge
  <2> QED BY <1>1, <2>1, QuietStep
<1> QED BY <1>2, <1>3

\* Every step of the engine keeps the order.
LEMMA OrderStep ==
  ASSUME TypeOK, LoopsBounded, Order, [Next]_vars PROVE Order'
<1>1. CASE UNCHANGED vars
  BY <1>1, QuietStep DEF vars
<1>2. ASSUME NEW t \in Task, Claim(t) \/ JobError(t) PROVE Order'
  <2>1. UNCHANGED <<nodes, succeeded>>
    BY <1>2 DEF Claim, JobError, Unchanged_ButTasksModeFaults
  <2>2. \A u \in Task : tasks'[u] = tasks[u] \/ tasks'[u].pc \in {"claimed", "idle"}
    <3>1. ASSUME NEW c, c.pc \in {"claimed", "idle"}, tasks' = [tasks EXCEPT ![t] = c],
                 NEW u \in Task
          PROVE  tasks'[u] = tasks[u] \/ tasks'[u].pc \in {"claimed", "idle"}
      BY <3>1 DEF TypeOK
    <3>2. Idle.pc = "idle" /\ \A q \in QId : JobFor(q).pc = "claimed"
      BY DEF JobFor, Idle
    <3>3. CASE Claim(t)
      BY <3>1, <3>2, <3>3 DEF Claim
    <3>4. CASE JobError(t)
      BY <3>1, <3>2, <3>4 DEF JobError, Leave
    <3> QED BY <1>2, <3>3, <3>4
  <2> QED BY <2>1, <2>2, QuietStep
<1>3. ASSUME NEW w \in Worker,
             Sweep(w) \/ Crash(w) \/ Terminate(w) \/ Drained(w) \/ Restart(w)
      PROVE  Order'
  <2>1. UNCHANGED <<nodes, succeeded>>
    BY <1>3 DEF Sweep, Crash, Terminate, Drained, Restart, Unchanged_ButTasksModeFaults
  <2>2. \A u \in Task : tasks'[u] = tasks[u] \/ tasks'[u].pc = "idle"
    BY <1>3 DEF Sweep, Crash, Terminate, Drained, Restart, Idle, TypeOK
  <2> QED BY <2>1, <2>2, QuietStep
<1>4. ASSUME NEW q \in QId, Expire(q) PROVE Order'
  BY <1>4, QuietStep DEF Expire
<1>5. ASSUME NEW r \in Run, KeyExpires(r) PROVE Order'
  BY <1>5, QuietStep DEF KeyExpires
<1> QED BY <1>1, <1>2, <1>3, <1>4, <1>5, OrderAdmin, OrderJobStep DEF Next

\* The order is an invariant of the engine.
LEMMA OrderInvariant == Spec => [](TypeOK /\ LoopsBounded /\ Order)
<1>1. Init => Order
  BY DEF Init, Order, Established, Idle
<1> QED BY <1>1, OrderStep, TypeInvariant, PTL DEF Spec

\* No node is enqueued, so none can be started, before each predecessor has
\* succeeded in the run, and no iteration before the one it follows: through
\* late leases, repeated jobs and crashes at any statement.
THEOREM NothingRunsAhead == Spec => []PredecessorsFirst
<1>1. Order => PredecessorsFirst
  BY DEF Order, Justified, HasSucceeded, PredecessorsFirst
<1> QED BY <1>1, OrderInvariant, PTL

---------------------------------------------------------------------------
(* When a run marked succeeded is complete, and what never happens to a    *)
(* run that has ended.                                                     *)

\* Every job the engine knows of has its run_nodes row.
Backed ==
    /\ \A j \in succeeded : nodes[j] # "absent"
    /\ \A q \in QId : queue[q].st # "unused" => nodes[queue[q].job] # "absent"
    /\ \A t \in Task : tasks[t].pc # "idle" => nodes[tasks[t].job] # "absent"

\* run_nodes rows are inserted and updated, never deleted.
LEMMA NodesStay ==
  ASSUME TypeOK, LoopsBounded, [Next]_vars, NEW j \in Job, nodes[j] # "absent"
  PROVE  nodes'[j] # "absent"
<1>1. ASSUME NEW k \in Job, Enqueue(k) PROVE nodes'[j] # "absent"
  BY <1>1 DEF TypeOK, Enqueue
<1>2. ASSUME NEW t \in Task, NEW s, s # "absent", UpdateNode(JobAt(t), s)
      PROVE  nodes'[j] # "absent"
  BY <1>2 DEF TypeOK, UpdateNode
<1>3. ASSUME NEW t \in Task, JobStep(t) PROVE nodes'[j] # "absent"
  <2>1. CASE Finalize(t)
    BY <1>2, <2>1 DEF Finalize, TypeOK, TaskState
  <2>2. CASE MarkNode(t)
    BY <1>2, <2>2 DEF MarkNode
  <2>3. CASE EnqueueLoop(t) \/ EnqueueSuccessor(t)
    BY <1>1, <2>3, EnqueuedJobs
  <2>4. CASE ~(Finalize(t) \/ MarkNode(t) \/ EnqueueLoop(t) \/ EnqueueSuccessor(t))
    BY <1>3, <2>4 DEF JobStep, FetchContext, DropRow, ResolveAgent, ReadKey, MarkRun,
       RunAgent, Advance, FinishRun, Revoke, Announce, Purge, Unchanged_DB
  <2> QED BY <2>1, <2>2, <2>3, <2>4
<1>4. ASSUME NEW r \in Run, Admin(r) PROVE nodes'[j] # "absent"
  <2>1. CASE CommitRun(r)
    BY <1>1, <2>1, EntryJob DEF CommitRun
  <2> QED BY <1>4, <2>1 DEF Admin, IssueKey, Cancel, CancelAnnounce, CancelPurge
<1>5. CASE ~((\E t \in Task : JobStep(t)) \/ (\E r \in Run : Admin(r)))
  BY <1>5 DEF Next, vars, Claim, Expire, KeyExpires, Sweep, JobError, Crash, Terminate, Drained,
     Restart, Unchanged_ButTasksModeFaults
<1> QED BY <1>3, <1>4, <1>5

\* What any step may do to the queue, the coroutines and the history.
LEMMA RowOrigin ==
  ASSUME TypeOK, LoopsBounded, QueueInv, [Next]_vars, NEW q \in QId,
         queue'[q].st # "unused"
  PROVE  \/ queue[q].st # "unused" /\ queue'[q].job = queue[q].job
         \/ nodes'[queue'[q].job] # "absent"
<1>1. ASSUME NEW j \in Job, Enqueue(j)
      PROVE  \/ queue[q].st # "unused" /\ queue'[q].job = queue[q].job
             \/ nodes'[queue'[q].job] # "absent"
  BY <1>1 DEF TypeOK, Enqueue
<1>2. ASSUME NEW r \in Run, Admin(r)
      PROVE  UNCHANGED queue \/ \E j \in Job : Enqueue(j)
  BY <1>2, EntryJob DEF Admin, IssueKey, CommitRun, Cancel, CancelAnnounce, CancelPurge
<1>3. ASSUME NEW t \in Task, JobStep(t)
      PROVE  UNCHANGED queue \/ DeleteRow(tasks[t].row) \/ \E j \in Job : Enqueue(j)
  BY <1>3, JobStepQueue
<1>4. ASSUME NEW p, DeleteRow(p)
      PROVE  queue[q].st # "unused" /\ queue'[q].job = queue[q].job
  BY <1>4 DEF DeleteRow, Q!Present, TypeOK, Q!Row
<1>5. ASSUME NEW t \in Task, Claim(t)
      PROVE  queue[q].st # "unused" /\ queue'[q].job = queue[q].job
  <2>1. PICK p \in QId : queue[p].st = "free"
                         /\ queue' = [queue EXCEPT ![p].st = "held", ![p].attempts = @ + 1]
    BY <1>5 DEF Claim, Claimable
  <2> QED BY <2>1 DEF TypeOK, Q!Row
<1>6. ASSUME NEW p \in QId, Expire(p)
      PROVE  queue[q].st # "unused" /\ queue'[q].job = queue[q].job
  BY <1>6 DEF Expire, TypeOK, Q!Row
<1>7. ASSUME NEW w \in Worker, Sweep(w)
      PROVE  queue[q].st # "unused" /\ queue'[q].job = queue[q].job
  BY <1>7 DEF Sweep, Stale, TypeOK, Q!Row
<1>8. CASE \/ UNCHANGED vars
           \/ \E t \in Task : JobError(t)
           \/ \E k \in Run : KeyExpires(k)
           \/ \E w \in Worker : Crash(w) \/ Terminate(w) \/ Drained(w) \/ Restart(w)
  BY <1>8 DEF vars, KeyExpires, JobError, Crash, Terminate, Drained, Restart,
     Unchanged_ButTasksModeFaults
<1> QED BY <1>1, <1>2, <1>3, <1>4, <1>5, <1>6, <1>7, <1>8 DEF Next

\* Where a coroutine comes from: it was there with the same job, or it has just
\* claimed a row.
LEMMA TaskOrigin ==
  ASSUME TypeOK, LoopsBounded, [Next]_vars, NEW t \in Task, tasks'[t].pc # "idle"
  PROVE  \/ tasks[t].pc # "idle" /\ tasks'[t].job = tasks[t].job
         \/ /\ tasks'[t].pc = "claimed" /\ tasks'[t].verdict = "failed"
            /\ \E q \in QId : queue[q].st = "free" /\ tasks'[t].job = queue[q].job
<1>1. ASSUME NEW u \in Task, JobStep(u)
      PROVE  tasks[t].pc # "idle" /\ tasks'[t].job = tasks[t].job
  BY <1>1, JobStepMoves DEF Moves, Idle, TypeOK
<1>2. ASSUME NEW u \in Task, Claim(u)
      PROVE  \/ tasks[t].pc # "idle" /\ tasks'[t].job = tasks[t].job
             \/ /\ tasks'[t].pc = "claimed" /\ tasks'[t].verdict = "failed"
                /\ \E q \in QId : queue[q].st = "free" /\ tasks'[t].job = queue[q].job
  <2>1. PICK q \in QId : queue[q].st = "free" /\ tasks' = [tasks EXCEPT ![u] = JobFor(q)]
    BY <1>2 DEF Claim, Claimable
  <2>2. JobFor(q).pc = "claimed" /\ JobFor(q).verdict = "failed" /\ JobFor(q).job = queue[q].job
    BY DEF JobFor, Idle
  <2> QED BY <2>1, <2>2 DEF TypeOK
<1>3. ASSUME \/ \E u \in Task : JobError(u)
             \/ \E w \in Worker : Crash(w) \/ Terminate(w) \/ Drained(w) \/ Restart(w)
      PROVE  tasks[t].pc # "idle" /\ tasks'[t].job = tasks[t].job
  BY <1>3 DEF JobError, Crash, Terminate, Drained, Restart, Leave, Idle, TypeOK
<1>4. CASE \/ UNCHANGED vars
           \/ \E r \in Run : Admin(r)
           \/ \E q \in QId : Expire(q)
           \/ \E k \in Run : KeyExpires(k)
           \/ \E w \in Worker : Sweep(w)
  BY <1>4 DEF vars, Admin, IssueKey, CommitRun, Cancel, CancelAnnounce, CancelPurge,
     Expire, KeyExpires, Sweep
<1> QED BY <1>1, <1>2, <1>3, <1>4 DEF Next

\* A job enters the history only through a coroutine that works on it.
LEMMA HistoryOrigin ==
  ASSUME TypeOK, [Next]_vars, NEW j \in succeeded', j \notin succeeded
  PROVE  \E t \in Task : j = tasks[t].job /\ tasks[t].pc # "idle"
<1>1. CASE \E t \in Task : Finalize(t)
  BY <1>1 DEF Finalize, JobAt, At
<1>2. CASE ~\E t \in Task : Finalize(t)
  BY <1>2 DEF Next, vars, Admin, IssueKey, CommitRun, Cancel, CancelAnnounce, CancelPurge,
     Claim, Expire, KeyExpires, Sweep, JobError, Crash, Terminate, Drained, Restart,
     Unchanged_ButTasksModeFaults, JobStep, FetchContext, DropRow, ResolveAgent, ReadKey,
     MarkNode, MarkRun, RunAgent, EnqueueLoop, Advance, EnqueueSuccessor, FinishRun,
     Revoke, Announce, Purge
<1> QED BY <1>1, <1>2

\* Whatever has succeeded, is queued or is worked on has a run_nodes row.
LEMMA BackedStep ==
  ASSUME TypeOK, LoopsBounded, QueueInv, Backed, [Next]_vars PROVE Backed'
<1>1. ASSUME NEW j \in succeeded' PROVE nodes'[j] # "absent"
  <2>1. j \in Job /\ nodes[j] # "absent"
    BY HistoryOrigin DEF Backed, TypeOK
  <2> QED BY <2>1, NodesStay
<1>2. ASSUME NEW q \in QId, queue'[q].st # "unused" PROVE nodes'[queue'[q].job] # "absent"
  <2>1. queue[q].job \in Job
    BY DEF TypeOK, Q!Row
  <2> QED BY <1>2, <2>1, RowOrigin, NodesStay DEF Backed
<1>3. ASSUME NEW t \in Task, tasks'[t].pc # "idle" PROVE nodes'[tasks'[t].job] # "absent"
  <2>1. tasks'[t].job \in Job /\ nodes[tasks'[t].job] # "absent"
    BY <1>3, TaskOrigin DEF Backed, TypeOK, Q!Row
  <2> QED BY <2>1, NodesStay
<1> QED BY <1>1, <1>2, <1>3 DEF Backed

\* The shape of DAG for which "this terminal node has finished" says that
\* everything has: every declared node lies on a path to every declared
\* terminal node.  create_workflow_version does not ask for it.
ClosedBackwards(S) == \A e \in Edges : e.to \in S /\ e.to # Entry => e.from \in S

AllPathsJoin ==
    \A n \in Declared : IsTerminal(n) =>
        \A S \in SUBSET Node : n \in S /\ ClosedBackwards(S) => Declared \subseteq S

Completed(r) == \A n \in Declared : HasSucceeded(r, n)

\* Justified without its distinction of iterations.
Grounded ==
    \A j \in Job : nodes[j] # "absent" /\ j.node # Entry =>
        \A p \in Predecessors(j.node) : HasSucceeded(j.run, p)

\* A node that has a row has predecessors that succeeded, kept by every step.
LEMMA GroundedStep ==
  ASSUME TypeOK, LoopsBounded, Order, Order', Backed, Grounded, [Next]_vars
  PROVE  Grounded'
<1> SUFFICES ASSUME NEW j \in Job, nodes'[j] # "absent", j.node # Entry,
                    NEW p \in Predecessors(j.node)
             PROVE  HasSucceeded(j.run, p)'
  BY DEF Grounded
<1>0. succeeded \subseteq succeeded'
  BY SucceededGrows
<1>1. CASE nodes[j] # "absent"
  BY <1>0, <1>1 DEF Grounded, HasSucceeded
<1>2. CASE nodes[j] = "absent" /\ j.iter = 0
  BY <1>2 DEF Order, Justified
<1>3. CASE nodes[j] = "absent" /\ j.iter # 0
  <2> DEFINE k == JobOf(j.run, j.node, j.iter - 1)
  <2>1. j.iter > 0 /\ k \in Job /\ k.node = j.node /\ k.run = j.run
    BY <1>3, DagAssumption DEF Job, Iteration, JobOf
  <2>2. k \in succeeded'
    BY <2>1 DEF Order, Justified
  <2> HIDE DEF k
  <2>3. nodes[k] # "absent"
    BY <2>2, HistoryOrigin DEF Backed
  <2> QED BY <1>0, <2>1, <2>3 DEF Grounded, HasSucceeded
<1> QED BY <1>1, <1>2, <1>3 DEF Job, Iteration

\* Once a terminal node of a joined DAG has succeeded, every node has.
LEMMA TerminalCompletes ==
  ASSUME AllPathsJoin, TypeOK, Backed, Grounded, NEW j \in succeeded,
         j.node \in Declared, IsTerminal(j.node)
  PROVE  Completed(j.run)
<1> DEFINE S == {n \in Node : HasSucceeded(j.run, n)}
<1>1. j \in Job /\ j = JobOf(j.run, j.node, j.iter)
  BY DEF TypeOK, Job, JobOf
<1>2. j.node \in S
  BY <1>1 DEF HasSucceeded, Job
<1>3. ClosedBackwards(S)
  <2> SUFFICES ASSUME NEW e \in Edges, e.to \in S, e.to # Entry PROVE e.from \in S
    BY DEF ClosedBackwards
  <2>1. PICK i \in Iteration : JobOf(j.run, e.to, i) \in succeeded
    BY DEF HasSucceeded
  <2>2. e.from \in Predecessors(e.to) /\ e.from \in Node
    BY DagAssumption DEF Predecessors
  <2>3. /\ JobOf(j.run, e.to, i) \in Job
        /\ nodes[JobOf(j.run, e.to, i)] # "absent"
        /\ JobOf(j.run, e.to, i).node = e.to /\ JobOf(j.run, e.to, i).run = j.run
    BY <2>1 DEF Backed, TypeOK, JobOf
  <2>4. HasSucceeded(j.run, e.from)
    BY <2>2, <2>3 DEF Grounded
  <2> QED BY <2>2, <2>4
<1>4. S \in SUBSET Node
  OBVIOUS
<1>5. Declared \subseteq S
  <2> HIDE DEF S
  <2> QED BY <1>2, <1>3, <1>4 DEF AllPathsJoin
<1> QED BY <1>5 DEF Completed

\* Coroutine t has found its node in the version.
Resolved(t) == \/ tasks[t].pc \in {"readKey", "markNode", "markRun", "run"}
               \/ tasks[t].verdict = "succeeded"

\* What a coroutine's verdict stands for.
Earned ==
    \A t \in Task :
        /\ Resolved(t) => tasks[t].job.node \in Declared
        /\ tasks[t].pc = "finishRun" /\ tasks[t].verdict = "succeeded" =>
              Completed(tasks[t].job.run)

\* A run in which every declared node has succeeded stays such a run.
LEMMA CompletedGrows ==
  ASSUME succeeded \subseteq succeeded', NEW r, Completed(r) PROVE Completed(r)'
  BY DEF Completed, HasSucceeded

\* The steps of _handle_job reach finishRun with "succeeded" only when earned.
LEMMA EarnedJobStep ==
  ASSUME AllPathsJoin, TypeOK, LoopsBounded, Order, Backed, Grounded, Earned,
         NEW t \in Task, JobStep(t)
  PROVE  Earned'
<1>0. tasks \in [Task -> TaskState] /\ tasks[t] \in TaskState /\ Moves(t)
  BY JobStepMoves DEF TypeOK
<1>1. succeeded \subseteq succeeded'
  BY SucceededGrows DEF Next
<1> USE DEF Resolved
<1>2. ASSUME Resolved(t)' PROVE tasks[t].job.node \in Declared
  <2>2. Resolved(t) => tasks[t].job.node \in Declared
    BY DEF Earned
  <2>3. CASE ResolveAgent(t)
    BY <1>0, <1>2, <2>2, <2>3 DEF ResolveAgent, Goto, TaskState, JobAt, At
  <2>4. CASE ReadKey(t) \/ MarkNode(t) \/ MarkRun(t) \/ RunAgent(t)
    BY <2>2, <2>4 DEF ReadKey, MarkNode, MarkRun, RunAgent, At
  <2>5. CASE FetchContext(t) \/ Finalize(t) \/ FinishRun(t) \/ Revoke(t) \/ Announce(t)
    BY <1>0, <1>2, <2>2, <2>5 DEF FetchContext, Finalize, FinishRun, Revoke, Announce, Goto,
       TaskState
  <2>6. CASE DropRow(t) \/ EnqueueLoop(t) \/ Purge(t)
    BY <1>0, <1>2, <2>6 DEF DropRow, EnqueueLoop, Purge, Leave, Idle
  <2>7. CASE Advance(t)
    <3>1. ASSUME NEW ready, tasks' = [tasks EXCEPT ![t].pc = "enqueue", ![t].todo = ready]
          PROVE  tasks[t].job.node \in Declared
      BY <1>0, <1>2, <2>2, <3>1 DEF TaskState
    <3>2. CASE Goto(t, "finishRun") \/ Leave(t)
      BY <1>0, <1>2, <2>2, <3>2 DEF Goto, Leave, Idle, TaskState
    <3> QED BY <2>7, <3>1, <3>2 DEF Advance
  <2>8. CASE EnqueueSuccessor(t)
    <3>1. ASSUME NEW e, tasks' = [tasks EXCEPT ![t].todo = @ \ {e}]
          PROVE  tasks[t].job.node \in Declared
      BY <1>0, <1>2, <2>2, <2>8, <3>1 DEF TaskState, EnqueueSuccessor, At
    <3>2. CASE Leave(t)
      BY <1>0, <1>2, <2>2, <3>2 DEF Leave, Idle
    <3> QED BY <2>8, <3>1, <3>2 DEF EnqueueSuccessor
  <2> QED BY <2>3, <2>4, <2>5, <2>6, <2>7, <2>8 DEF JobStep
<1>3. ASSUME tasks'[t].pc = "finishRun", tasks'[t].verdict = "succeeded"
      PROVE  Completed(tasks[t].job.run)
  <2>1. CASE Finalize(t)
    <3>1. CASE tasks[t].verdict = "failed"
      BY <1>0, <1>3, <2>1, <3>1 DEF Finalize, Goto, TaskState
    <3>2. CASE tasks[t].verdict = "succeeded"
      BY <1>0, <1>3, <2>1, <3>2 DEF Finalize, Goto, TaskState
    <3> QED BY <1>0, <3>1, <3>2 DEF TaskState
  <2>2. CASE Advance(t)
    <3>1. ASSUME NEW ready, tasks' = [tasks EXCEPT ![t].pc = "enqueue", ![t].todo = ready]
          PROVE  FALSE
      BY <1>0, <1>3, <3>1 DEF TaskState
    <3>2. CASE Goto(t, "finishRun") /\ IsTerminal(JobAt(t).node)
      <4>1. tasks[t].verdict = "succeeded" /\ tasks[t].job.node \in Declared
        BY <1>0, <1>3, <3>2 DEF Goto, TaskState, Earned
      <4>2. tasks[t].job \in succeeded
        BY <2>2 DEF Advance, At, Order, Established
      <4> QED BY <3>2, <4>1, <4>2, TerminalCompletes DEF JobAt
    <3>3. CASE Leave(t)
      BY <1>0, <1>3, <3>3 DEF Leave, Idle
    <3> QED BY <2>2, <3>1, <3>2, <3>3 DEF Advance
  <2>3. CASE EnqueueSuccessor(t)
    <3>1. ASSUME NEW e, tasks' = [tasks EXCEPT ![t].todo = @ \ {e}] PROVE FALSE
      BY <1>0, <1>3, <2>3, <3>1 DEF TaskState, EnqueueSuccessor, At
    <3>2. CASE Leave(t)
      BY <1>0, <1>3, <3>2 DEF Leave, Idle
    <3> QED BY <2>3, <3>1, <3>2 DEF EnqueueSuccessor
  <2>4. CASE \/ FetchContext(t) \/ DropRow(t) \/ MarkNode(t) \/ MarkRun(t) \/ EnqueueLoop(t)
             \/ FinishRun(t) \/ Revoke(t) \/ Announce(t) \/ Purge(t)
    BY <1>0, <1>3, <2>4 DEF FetchContext, DropRow, MarkNode, MarkRun, EnqueueLoop, FinishRun,
       Revoke, Announce, Purge, Goto, Leave, Idle, TaskState
  <2>5. CASE ResolveAgent(t)
    BY <1>0, <1>3, <2>5 DEF ResolveAgent, Goto, TaskState
  <2>6. CASE ReadKey(t)
    <3>1. ASSUME NEW k, tasks' = [tasks EXCEPT ![t].pc = "markNode", ![t].key = k]
          PROVE  FALSE
      BY <1>0, <1>3, <3>1 DEF TaskState
    <3> QED BY <2>6, <3>1 DEF ReadKey
  <2>7. CASE RunAgent(t)
    <3>1. ASSUME NEW o,
                 tasks' = [tasks EXCEPT ![t].pc = "finalize", ![t].out = o,
                                        ![t].verdict = "succeeded", ![t].key = FALSE]
          PROVE  FALSE
      BY <1>0, <1>3, <3>1 DEF TaskState
    <3>2. ASSUME tasks' = [tasks EXCEPT ![t].pc = "finalize", ![t].verdict = "failed",
                                        ![t].key = FALSE]
          PROVE  FALSE
      BY <1>0, <1>3, <3>2 DEF TaskState
    <3> QED BY <2>7, <3>1, <3>2 DEF RunAgent
  <2> QED BY <2>1, <2>2, <2>3, <2>4, <2>5, <2>6, <2>7 DEF JobStep
<1>4. ASSUME NEW u \in Task
      PROVE  /\ Resolved(u)' => tasks'[u].job.node \in Declared
             /\ tasks'[u].pc = "finishRun" /\ tasks'[u].verdict = "succeeded" =>
                   Completed(tasks[u].job.run)' /\ tasks'[u].job = tasks[u].job
  <2>1. CASE u = t
    BY <1>0, <1>1, <1>2, <1>3, <2>1, CompletedGrows DEF Moves, Idle
  <2>2. CASE u # t
    BY <1>0, <1>1, <2>2, CompletedGrows DEF Moves, Earned
  <2> QED BY <2>1, <2>2
<1> QED BY <1>4 DEF Earned

\* A coroutine about to mark a run succeeded has earned it, after every step.
LEMMA EarnedStep ==
  ASSUME AllPathsJoin, TypeOK, LoopsBounded, Order, Backed, Grounded, Earned, [Next]_vars
  PROVE  Earned'
<1>1. CASE \E t \in Task : JobStep(t)
  BY <1>1, EarnedJobStep
<1>2. CASE ~\E t \in Task : JobStep(t)
  <2>1. succeeded \subseteq succeeded'
    BY SucceededGrows
  <2>2. ASSUME NEW t \in Task
        PROVE  tasks'[t] = tasks[t] \/ (tasks'[t].pc \in {"claimed", "idle"} /\ tasks'[t].verdict = "failed")
    <3>1. Idle.pc = "idle" /\ Idle.verdict = "failed"
      BY DEF Idle
    <3>2. ASSUME NEW u \in Task, Claim(u)
          PROVE  tasks'[t] = tasks[t] \/ (tasks'[t].pc = "claimed" /\ tasks'[t].verdict = "failed")
      <4>1. PICK q \in QId : tasks' = [tasks EXCEPT ![u] = JobFor(q)]
        BY <3>2 DEF Claim
      <4>2. JobFor(q).pc = "claimed" /\ JobFor(q).verdict = "failed"
        BY DEF JobFor, Idle
      <4> QED BY <4>1, <4>2 DEF TypeOK
    <3>3. CASE \/ \E u \in Task : JobError(u)
               \/ \E w \in Worker : Crash(w) \/ Terminate(w) \/ Drained(w) \/ Restart(w)
      BY <3>1, <3>3 DEF JobError, Crash, Terminate, Drained, Restart, Leave, TypeOK
    <3>4. CASE \/ UNCHANGED vars
               \/ \E r \in Run : Admin(r)
               \/ \E q \in QId : Expire(q)
               \/ \E k \in Run : KeyExpires(k)
               \/ \E w \in Worker : Sweep(w)
      BY <3>4 DEF vars, Admin, IssueKey, CommitRun, Cancel, CancelAnnounce, CancelPurge,
         Expire, KeyExpires, Sweep
    <3> QED BY <1>2, <3>2, <3>3, <3>4 DEF Next
  <2>3. ASSUME NEW t \in Task
        PROVE  /\ Resolved(t)' => tasks'[t].job.node \in Declared
               /\ tasks'[t].pc = "finishRun" /\ tasks'[t].verdict = "succeeded" =>
                     Completed(tasks[t].job.run)' /\ tasks'[t].job = tasks[t].job
    BY <2>1, <2>2, CompletedGrows DEF Earned, Resolved
  <2> QED BY <2>3 DEF Earned
<1> QED BY <1>1, <1>2

SuccessCompleted == \A r \in Run : runs[r] = "succeeded" => Completed(r)

\* A run marked succeeded is complete: only FinishRun marks one.
LEMMA SuccessStep ==
  ASSUME TypeOK, LoopsBounded, Earned, SuccessCompleted, [Next]_vars
  PROVE  SuccessCompleted'
<1>1. succeeded \subseteq succeeded'
  BY SucceededGrows
<1>2. ASSUME NEW r \in Run, runs'[r] = "succeeded" PROVE Completed(r)
  <2>1. CASE runs[r] = "succeeded"
    BY <2>1 DEF SuccessCompleted
  <2>2. CASE \E t \in Task : FinishRun(t)
    <3>1. PICK t \in Task : FinishRun(t)
      BY <2>2
    <3>2. CASE r = RunAt(t)
      <4>1. tasks[t].pc = "finishRun" /\ tasks[t].verdict = "succeeded"
        BY <1>2, <3>1, <3>2 DEF FinishRun, At, TypeOK
      <4> QED BY <3>2, <4>1 DEF Earned, RunAt
    <3>3. CASE r # RunAt(t)
      BY <1>2, <3>1, <3>3 DEF FinishRun, TypeOK, SuccessCompleted
    <3> QED BY <3>2, <3>3
  <2>3. CASE ~\E t \in Task : FinishRun(t)
    <3>1. CASE \E t \in Task : MarkRun(t)
      BY <1>2, <3>1 DEF MarkRun, Started, TypeOK, SuccessCompleted
    <3>2. CASE \E q \in Run : CommitRun(q) \/ Cancel(q)
      BY <1>2, <3>2 DEF CommitRun, Cancel, TypeOK, SuccessCompleted
    <3>3. CASE ~((\E t \in Task : MarkRun(t)) \/ (\E q \in Run : CommitRun(q) \/ Cancel(q)))
      BY <1>2, <2>3, <3>3 DEF SuccessCompleted, Next, vars, Admin, IssueKey, CancelAnnounce,
         CancelPurge, Claim, Expire, KeyExpires, Sweep, JobError, Crash, Terminate, Drained, Restart,
         Unchanged_ButTasksModeFaults, JobStep, FetchContext, DropRow, ResolveAgent, ReadKey,
         MarkNode, RunAgent, Finalize, EnqueueLoop, Advance, EnqueueSuccessor, Revoke,
         Announce, Purge, Unchanged_DB
    <3> QED BY <3>1, <3>2, <3>3
  <2> QED BY <2>2, <2>3
<1> QED BY <1>1, <1>2, CompletedGrows DEF SuccessCompleted

\* A run is marked succeeded only when every declared node has succeeded,
\* provided every declared node lies on a path to every declared terminal node.
\* Without that hypothesis it is false: run FindPrematureSuccess.
THEOREM JoinedSuccessIsComplete ==
  ASSUME AllPathsJoin PROVE Spec => []SuccessIsComplete
<1> DEFINE CInv == Backed /\ Grounded /\ Earned /\ SuccessCompleted
<1>1. Init => CInv
  BY DEF Init, Backed, Grounded, Earned, Resolved, SuccessCompleted, Idle
<1>2. TypeOK /\ LoopsBounded /\ QueueInv /\ Order /\ Order' /\ CInv /\ [Next]_vars => CInv'
  BY BackedStep, GroundedStep, EarnedStep, SuccessStep
<1>3. CInv => SuccessIsComplete
  BY DEF SuccessCompleted, Completed, HasSucceeded, SuccessIsComplete
<1> HIDE DEF CInv
<1> QED BY <1>1, <1>2, <1>3, QueueInvariant, OrderInvariant, PTL DEF Spec
=============================================================================
