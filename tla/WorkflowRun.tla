---------------------------- MODULE WorkflowRun ----------------------------
(***************************************************************************)
(* The workflow engine: the admin service submits and cancels runs         *)
(* (services/admin/app/routers/workflows.py), the workflow-worker claims   *)
(* rows of work_queue, runs one agent per row and advances the DAG         *)
(* (services/workflow-worker/app/main.py).  They share Postgres            *)
(* (workflow_runs, run_nodes, work_queue, api_keys) and Redis (the         *)
(* plaintext scoped key and the run.finished event).                       *)
(*                                                                         *)
(* One action is one await of the code: a statement that commits on its    *)
(* own, or a transaction.  Between two of them every other coroutine,      *)
(* worker process or admin request may take a step, and a process may die. *)
(***************************************************************************)
EXTENDS WorkflowDag

CONSTANTS
    Run,            \* runs that may be submitted
    Cancellable,    \* runs some user may cancel
    Worker,         \* worker processes
    Slot,           \* job coroutines of a process: Concurrency + 1
    Concurrency,    \* WORKER_CONCURRENCY, the size of the semaphore
    QId,            \* ids of work_queue rows: an initial segment of 1, 2, ...
    FaultPoints,    \* program points where a job may raise or its process die
    MaxFaults,      \* bound on those faults
    MaxLate,        \* bound on leases that run out under a live job
    RedisMayFail,   \* whether single Redis commands may fail
    KeysMayExpire   \* whether a run may outlive the lifetime of its plaintext key

PC == {"idle", "claimed", "drop", "resolve", "readKey", "markNode", "markRun",
       "run", "finalize", "loop", "advance", "enqueue", "finishRun", "revoke",
       "announce", "purge"}

ASSUME RunAssumption ==
    /\ Run # {}
    /\ Cancellable \subseteq Run
    /\ Concurrency \in Nat \ {0}
    /\ QId \subseteq Nat \ {0}
    /\ FaultPoints \subseteq PC
    /\ MaxFaults \in Nat
    /\ MaxLate \in Nat
    /\ RedisMayFail \in BOOLEAN /\ KeysMayExpire \in BOOLEAN

Task == Worker \X Slot
Job == [run : Run, node : Node, iter : Iteration]
JobOf(r, n, i) == [run |-> r, node |-> n, iter |-> i]

VARIABLES
    runs,       \* workflow_runs.status
    nodes,      \* run_nodes.status by (run_id, node_id, iteration)
    queue,      \* work_queue by id
    nextId,     \* its sequence
    scopedKey,  \* api_keys row of the run
    redisKey,   \* workflow:scoped_key:{run_id} in Redis: stored, expired or not there
    announced,  \* status in the first run.finished event published
    admin,      \* the admin handler working on the run
    tasks,      \* the worker's job coroutines
    mode,       \* up, draining after SIGTERM, or down
    faults, late, \* how much of MaxFaults and MaxLate is used
    succeeded   \* history: the jobs some execution has finalised as succeeded

vars == <<runs, nodes, queue, nextId, scopedKey, redisKey, announced, admin,
          tasks, mode, faults, late, succeeded>>

Terminal == {"succeeded", "failed", "cancelled"}
RunStatus == {"absent", "pending", "running"} \cup Terminal
NodeStatus == {"absent", "pending", "running", "succeeded", "failed"}

Q == INSTANCE WorkQueue

\* A coroutine's locals.  attempt is the claim it works under (the row's
\* attempts counter when it was claimed; the code does not keep it).
TaskState == [pc : PC, row : QId \cup {0}, job : Job \cup {<<>>},
              attempt : Nat, key : BOOLEAN, out : Output,
              verdict : {"succeeded", "failed"}, todo : SUBSET Edges]
Idle == [pc |-> "idle", row |-> 0, job |-> <<>>, attempt |-> 0, key |-> FALSE,
         out |-> NoOutput, verdict |-> "failed", todo |-> {}]

\* The tables hold only statuses the schema knows, a coroutine at work has a
\* row and a job, and no job has an iteration loop.max_iterations excludes.
TypeOK ==
    /\ runs \in [Run -> RunStatus]
    /\ nodes \in [Job -> NodeStatus]
    /\ queue \in [QId -> Q!Row]
    /\ nextId \in Nat
    /\ scopedKey \in [Run -> {"none", "live", "revoked"}]
    /\ redisKey \in [Run -> {"none", "stored", "expired"}]
    /\ announced \in [Run -> Terminal \cup {"none"}]
    /\ admin \in [Run -> {"idle", "issued", "announce", "purge"}]
    /\ tasks \in [Task -> TaskState]
    /\ \A t \in Task : tasks[t].pc # "idle" =>
          tasks[t].row \in QId /\ tasks[t].job \in Job
    /\ mode \in [Worker -> {"up", "draining", "down"}]
    /\ faults \in Nat /\ late \in Nat
    /\ succeeded \subseteq Job

Init ==
    /\ runs = [r \in Run |-> "absent"]
    /\ nodes = [j \in Job |-> "absent"]
    /\ queue = [q \in QId |->
                  [st |-> "unused", job |-> CHOOSE j \in Job : TRUE, attempts |-> 0]]
    /\ nextId = 1
    /\ scopedKey = [r \in Run |-> "none"]
    /\ redisKey = [r \in Run |-> "none"]
    /\ announced = [r \in Run |-> "none"]
    /\ admin = [r \in Run |-> "idle"]
    /\ tasks = [t \in Task |-> Idle]
    /\ mode = [w \in Worker |-> "up"]
    /\ faults = 0 /\ late = 0
    /\ succeeded = {}

-----------------------------------------------------------------------------
(* Statements shared by several handlers.                                  *)

\* INSERT INTO work_queue, and INSERT INTO run_nodes ... ON CONFLICT DO NOTHING.
Enqueue(j) ==
    /\ nextId \in QId
    /\ queue' = [queue EXCEPT ![nextId] = [st |-> "free", job |-> j, attempts |-> 0]]
    /\ nextId' = nextId + 1
    /\ nodes' = [nodes EXCEPT ![j] = IF @ = "absent" THEN "pending" ELSE @]

\* DELETE FROM work_queue WHERE id = q: no matter who holds the row now.
DeleteRow(q) ==
    queue' = IF Q!Present(q)
             THEN [queue EXCEPT ![q].st = "deleted"]
             ELSE queue

\* UPDATE run_nodes SET status: no row, no effect.
UpdateNode(j, status) ==
    nodes' = [nodes EXCEPT ![j] = IF @ = "absent" THEN @ ELSE status]

\* UPDATE api_keys SET revoked_at ... AND revoked_at IS NULL.
RevokeKey_Forgotten(r) == UNCHANGED scopedKey
RevokeKey(r) ==
    scopedKey' = [scopedKey EXCEPT ![r] = IF @ = "live" THEN "revoked" ELSE @]

\* A Redis write whose exception the caller swallows.
RedisWrite(r, value) ==
    \/ redisKey' = [redisKey EXCEPT ![r] = value]
    \/ RedisMayFail /\ UNCHANGED redisKey

\* redis.delete of the plaintext key.
PurgeKey(r) == RedisWrite(r, "none")

\* Pubsub keeps nothing: a subscriber stops at the first run.finished it sees.
\* An event that cannot be published is dropped.
Publish_AlwaysSucceeded(r, status) ==
    announced' = [announced EXCEPT ![r] = IF @ = "none" THEN "succeeded" ELSE @]
Publish(r, status) ==
    \/ announced' = [announced EXCEPT ![r] = IF @ = "none" THEN status ELSE @]
    \/ RedisMayFail /\ UNCHANGED announced

-----------------------------------------------------------------------------
(* The admin service.                                                      *)

\* submit_run, up to its commit: issue_scoped_key writes the plaintext to
\* Redis (SETEX) while the api_keys row is still uncommitted.  If the process
\* dies here the plaintext is left behind without a run.
IssueKey(r) ==
    /\ runs[r] = "absent" /\ admin[r] = "idle"
    /\ RedisWrite(r, "stored")
    /\ admin' = [admin EXCEPT ![r] = "issued"]
    /\ UNCHANGED <<runs, nodes, queue, nextId, scopedKey, announced, tasks,
                   mode, faults, late, succeeded>>

\* submit_run's transaction: the key, the run, the entry row and its node.
CommitRun(r) ==
    /\ admin[r] = "issued"
    /\ scopedKey' = [scopedKey EXCEPT ![r] = "live"]
    /\ runs' = [runs EXCEPT ![r] = "pending"]
    /\ Enqueue(JobOf(r, Entry, 0))
    /\ admin' = [admin EXCEPT ![r] = "idle"]
    /\ UNCHANGED <<redisKey, announced, tasks, mode, faults, late, succeeded>>

\* cancel_run: 409 unless pending or running; status and key in one transaction.
Cancel(r) ==
    /\ r \in Cancellable
    /\ runs[r] \in {"pending", "running"}
    /\ admin[r] = "idle"
    /\ runs' = [runs EXCEPT ![r] = "cancelled"]
    /\ RevokeKey(r)
    /\ admin' = [admin EXCEPT ![r] = "announce"]
    /\ UNCHANGED <<nodes, queue, nextId, redisKey, announced, tasks, mode,
                   faults, late, succeeded>>

\* cancel_run after its commit: publish run.finished ...
CancelAnnounce(r) ==
    /\ admin[r] = "announce"
    /\ Publish(r, "cancelled")
    /\ admin' = [admin EXCEPT ![r] = "purge"]
    /\ UNCHANGED <<runs, nodes, queue, nextId, scopedKey, redisKey, tasks,
                   mode, faults, late, succeeded>>

\* ... then delete_scoped_key_from_redis.
CancelPurge(r) ==
    /\ admin[r] = "purge"
    /\ PurgeKey(r)
    /\ admin' = [admin EXCEPT ![r] = "idle"]
    /\ UNCHANGED <<runs, nodes, queue, nextId, scopedKey, announced, tasks,
                   mode, faults, late, succeeded>>

\* The 3660 s of SETEX are over, be it while the run waits in the queue or goes on:
\* nothing renews the entry.  The key itself has expired 60 s before.
KeyExpires(r) ==
    /\ KeysMayExpire
    /\ redisKey[r] = "stored"
    /\ redisKey' = [redisKey EXCEPT ![r] = "expired"]
    /\ UNCHANGED <<runs, nodes, queue, nextId, scopedKey, announced, admin, tasks,
                   mode, faults, late, succeeded>>

Admin(r) == \/ IssueKey(r) \/ CommitRun(r) \/ Cancel(r)
            \/ CancelAnnounce(r) \/ CancelPurge(r)

-----------------------------------------------------------------------------
(* The worker: the claim loop and the sweeper.                             *)

At(t, pc) == tasks[t].pc = pc
JobAt(t) == tasks[t].job
RunAt(t) == tasks[t].job.run
Goto(t, pc) == tasks' = [tasks EXCEPT ![t].pc = pc]
Leave(t) == tasks' = [tasks EXCEPT ![t] = Idle]

\* Coroutines of w that are past `async with sem`.
InSemaphore(w) == {s \in Slot : tasks[w, s].pc \notin {"idle", "claimed"}}

\* WHERE claimed_by IS NULL
Claimable_EvenIfHeld(q) == queue[q].st \in {"free", "held"}
Claimable(q) == queue[q].st = "free"

\* The coroutine created for the row just claimed.
JobFor(q) == [Idle EXCEPT !.pc = "claimed", !.row = q, !.job = queue[q].job,
                          !.attempt = queue[q].attempts + 1]

\* _main's loop looks at sem.locked() before the coroutine it just created has
\* had a chance to acquire it, so one job more than Concurrency gets claimed
\* and waits for the semaphore with its lease running.
Claim(t) ==
    \E q \in QId :
      /\ At(t, "idle")
      /\ mode[t[1]] = "up"
      /\ Cardinality(InSemaphore(t[1])) < Concurrency
      /\ Claimable(q)
      /\ queue' = [queue EXCEPT ![q].st = "held", ![q].attempts = @ + 1]
      /\ tasks' = [tasks EXCEPT ![t] = JobFor(q)]
      /\ UNCHANGED <<runs, nodes, nextId, scopedKey, redisKey, announced,
                     admin, mode, faults, late, succeeded>>

\* A coroutine that works under the row's present claim.
LiveHolder(q) == \E t \in Task : /\ ~At(t, "idle")
                                 /\ tasks[t].row = q
                                 /\ tasks[t].attempt = queue[q].attempts

\* claim_expires passes.  Nothing renews a lease, and the 300 s given to an
\* agent exceed its 120 s, so this may well happen under a live job.
Expire(q) ==
    /\ queue[q].st = "held"
    /\ queue' = [queue EXCEPT ![q].st = "expired"]
    /\ \/ ~LiveHolder(q) /\ UNCHANGED late
       \/ LiveHolder(q) /\ late < MaxLate /\ late' = late + 1
    /\ UNCHANGED <<runs, nodes, nextId, scopedKey, redisKey, announced, admin,
                   tasks, mode, faults, succeeded>>

\* WHERE claimed_by IS NOT NULL AND claim_expires < NOW()
Stale_AnyClaim(q) == queue[q].st \in {"held", "expired"}
Stale_Never(q) == FALSE
Stale(q) == queue[q].st = "expired"

StaleRows_AnyClaim == {q \in QId : queue[q].st \in {"held", "expired"}}
StaleRows == {q \in QId : Stale(q)}

\* One of the faults that may strike.
Fault == faults < MaxFaults /\ faults' = faults + 1

\* The plaintext keys the sweeper deletes from Redis: those of the runs with a
\* stale claim, save the deletions that fail.
PurgeStale ==
    \E kept \in SUBSET Run :
        /\ ~RedisMayFail => kept = {}
        /\ redisKey' = [r \in Run |->
              IF r \in {queue[q].job.run : q \in StaleRows} \ kept
              THEN "none" ELSE redisKey[r]]

\* _sweeper_loop: one transaction takes back all stale claims.  The keys are
\* deleted before it commits, so they are gone even if it does not.  A sweep
\* under way when the process is told to stop may still end while it drains;
\* the model lets a draining process sweep freely.
Sweep(w) ==
    /\ mode[w] # "down"
    /\ StaleRows # {}
    /\ PurgeStale
    /\ \/ /\ queue' = [q \in QId |-> IF Stale(q)
                                     THEN [queue[q] EXCEPT !.st = "free"]
                                     ELSE queue[q]]
          /\ UNCHANGED faults
       \/ Fault /\ UNCHANGED queue
    /\ UNCHANGED <<runs, nodes, nextId, scopedKey, announced, admin, tasks,
                   mode, late, succeeded>>

-----------------------------------------------------------------------------
(* The worker: _handle_job, one action per await.                          *)

Unchanged_DB == UNCHANGED <<runs, nodes, queue, nextId, scopedKey>>
Unchanged_Rest == UNCHANGED <<admin, mode, faults, late>>

\* Acquire the semaphore and fetch the run: only a cancelled run is skipped.
FetchContext(t) ==
    /\ At(t, "claimed")
    /\ Cardinality(InSemaphore(t[1])) < Concurrency
    /\ Goto(t, IF runs[RunAt(t)] = "cancelled" THEN "drop" ELSE "resolve")
    /\ Unchanged_DB /\ Unchanged_Rest
    /\ UNCHANGED <<redisKey, announced, succeeded>>

\* The skipped job's row is deleted; its run_nodes row stays as it is.
DropRow(t) ==
    /\ At(t, "drop")
    /\ DeleteRow(tasks[t].row)
    /\ Leave(t)
    /\ Unchanged_Rest
    /\ UNCHANGED <<runs, nodes, nextId, scopedKey, redisKey, announced, succeeded>>

\* A node the DAG does not declare, or whose agent is missing or disabled,
\* fails the run; otherwise the inputs are collected and the job goes on.
ResolveAgent(t) ==
    /\ At(t, "resolve")
    /\ \/ JobAt(t).node \in Declared /\ Goto(t, "readKey")
       \/ tasks' = [tasks EXCEPT ![t].pc = "finalize", ![t].verdict = "failed"]
    /\ Unchanged_DB /\ Unchanged_Rest
    /\ UNCHANGED <<redisKey, announced, succeeded>>

\* redis.get: a missing key, like a Redis error, becomes the empty string.
ReadKey(t) ==
    /\ At(t, "readKey")
    /\ \E k \in {redisKey[RunAt(t)] = "stored",
                 redisKey[RunAt(t)] = "stored" /\ ~RedisMayFail} :
          tasks' = [tasks EXCEPT ![t].pc = "markNode", ![t].key = k]
    /\ Unchanged_DB /\ Unchanged_Rest
    /\ UNCHANGED <<redisKey, announced, succeeded>>

\* _mark_node_running: two statements, each committed on its own.
MarkNode(t) ==
    /\ At(t, "markNode")
    /\ UpdateNode(JobAt(t), "running")
    /\ Goto(t, "markRun")
    /\ Unchanged_Rest
    /\ UNCHANGED <<runs, queue, nextId, scopedKey, redisKey, announced, succeeded>>

\* SET status = 'running' ... AND status = 'pending'
Started_Always(status) == "running"
Started(status) == IF status = "pending" THEN "running" ELSE status

MarkRun(t) ==
    /\ At(t, "markRun")
    /\ runs' = [runs EXCEPT ![RunAt(t)] = Started(@)]
    /\ Goto(t, "run")
    /\ Unchanged_Rest
    /\ UNCHANGED <<nodes, queue, nextId, scopedKey, redisKey, announced, succeeded>>

\* The agent ends with clean outputs; or it times out, the runtime raises, it
\* exits with a code other than 0, or its outputs are blocked.
RunAgent(t) ==
    /\ At(t, "run")
    /\ \/ \E o \in OutputsOf(JobAt(t).node) :
             tasks' = [tasks EXCEPT ![t].pc = "finalize", ![t].out = o,
                                    ![t].verdict = "succeeded", ![t].key = FALSE]
       \/ tasks' = [tasks EXCEPT ![t].pc = "finalize", ![t].verdict = "failed",
                                 ![t].key = FALSE]
    /\ Unchanged_DB /\ Unchanged_Rest
    /\ UNCHANGED <<redisKey, announced, succeeded>>

\* _finalize_node: the node's status and the row's deletion in one transaction.
\* What follows a success depends on the outputs alone.
Finalize(t) ==
    /\ At(t, "finalize")
    /\ UpdateNode(JobAt(t), tasks[t].verdict)
    /\ DeleteRow(tasks[t].row)
    /\ \/ /\ tasks[t].verdict = "failed"
          /\ Goto(t, "finishRun")
          /\ UNCHANGED succeeded
       \/ /\ tasks[t].verdict = "succeeded"
          /\ Goto(t, IF ShouldLoop(JobAt(t).node, tasks[t].out, JobAt(t).iter)
                     THEN "loop" ELSE "advance")
          /\ succeeded' = succeeded \cup {JobAt(t)}
    /\ Unchanged_Rest
    /\ UNCHANGED <<runs, nextId, scopedKey, redisKey, announced>>

\* _enqueue_loop_iteration; the handler returns without looking at the DAG.
EnqueueLoop(t) ==
    /\ At(t, "loop")
    /\ Enqueue([JobAt(t) EXCEPT !.iter = @ + 1])
    /\ Leave(t)
    /\ Unchanged_Rest
    /\ UNCHANGED <<runs, scopedKey, redisKey, announced, succeeded>>

\* _run_node_state: the statuses of iteration 0.
NodeState(r) == [n \in Node |-> nodes[JobOf(r, n, 0)]]

\* Every declared node that has a row has succeeded.
AllDone(state) == \A n \in Declared : state[n] \in {"absent", "succeeded"}

\* Read the state once, then enqueue successors or finish the run or leave.
Advance(t) ==
    LET state == NodeState(RunAt(t))
        ready == ReadySuccessors(JobAt(t).node, state, tasks[t].out)
    IN  /\ At(t, "advance")
        /\ \/ /\ ready # {}
              /\ tasks' = [tasks EXCEPT ![t].pc = "enqueue", ![t].todo = ready]
           \/ /\ ready = {} /\ IsTerminal(JobAt(t).node) /\ AllDone(state)
              /\ Goto(t, "finishRun")
           \/ /\ ready = {} /\ ~(IsTerminal(JobAt(t).node) /\ AllDone(state))
              /\ Leave(t)
        /\ Unchanged_DB /\ Unchanged_Rest
        /\ UNCHANGED <<redisKey, announced, succeeded>>

\* _enqueue_successor, a transaction per ready edge.
EnqueueSuccessor(t) ==
    /\ At(t, "enqueue")
    /\ \E e \in tasks[t].todo :
          /\ Enqueue(JobOf(RunAt(t), e.to, 0))
          /\ IF tasks[t].todo = {e}
             THEN Leave(t)
             ELSE tasks' = [tasks EXCEPT ![t].todo = @ \ {e}]
    /\ Unchanged_Rest
    /\ UNCHANGED <<runs, scopedKey, redisKey, announced, succeeded>>

\* _mark_run_finished: the status, whatever it was before, ...
FinishRun(t) ==
    /\ At(t, "finishRun")
    /\ runs' = [runs EXCEPT ![RunAt(t)] = tasks[t].verdict]
    /\ Goto(t, "revoke")
    /\ Unchanged_Rest
    /\ UNCHANGED <<nodes, queue, nextId, scopedKey, redisKey, announced, succeeded>>

\* ... then, in a second statement, the scoped key.
Revoke(t) ==
    /\ At(t, "revoke")
    /\ RevokeKey(RunAt(t))
    /\ Goto(t, "announce")
    /\ Unchanged_Rest
    /\ UNCHANGED <<runs, nodes, queue, nextId, redisKey, announced, succeeded>>

Announce(t) ==
    /\ At(t, "announce")
    /\ Publish(RunAt(t), tasks[t].verdict)
    /\ Goto(t, "purge")
    /\ Unchanged_DB /\ Unchanged_Rest
    /\ UNCHANGED <<redisKey, succeeded>>

\* _cleanup_run_key
Purge(t) ==
    /\ At(t, "purge")
    /\ PurgeKey(RunAt(t))
    /\ Leave(t)
    /\ Unchanged_DB /\ Unchanged_Rest
    /\ UNCHANGED <<announced, succeeded>>

JobStep(t) ==
    \/ FetchContext(t) \/ DropRow(t) \/ ResolveAgent(t) \/ ReadKey(t)
    \/ MarkNode(t) \/ MarkRun(t) \/ RunAgent(t) \/ Finalize(t)
    \/ EnqueueLoop(t) \/ Advance(t) \/ EnqueueSuccessor(t)
    \/ FinishRun(t) \/ Revoke(t) \/ Announce(t) \/ Purge(t)

-----------------------------------------------------------------------------
(* Faults and the life of a worker process.                                *)

MayFault(t) == tasks[t].pc \in FaultPoints \cup {"idle"}

Unchanged_ButTasksModeFaults ==
    UNCHANGED <<runs, nodes, queue, nextId, scopedKey, redisKey, announced,
                admin, late, succeeded>>

\* A statement raises; _worker_for logs it and the coroutine ends.  The claim
\* stays until its lease runs out.  Exceptions at the other points are caught
\* by the code itself.
Raises == {"claimed", "drop", "resolve", "markNode", "markRun", "finalize",
           "loop", "advance", "enqueue", "finishRun", "revoke"}

JobError(t) ==
    /\ tasks[t].pc \in Raises \cap FaultPoints
    /\ Fault
    /\ Leave(t)
    /\ UNCHANGED mode /\ Unchanged_ButTasksModeFaults

\* The process dies with every coroutine in it.
Crash(w) ==
    /\ mode[w] # "down"
    /\ \A s \in Slot : MayFault(<<w, s>>)
    /\ Fault
    /\ tasks' = [t \in Task |-> IF t[1] = w THEN Idle ELSE tasks[t]]
    /\ mode' = [mode EXCEPT ![w] = "down"]
    /\ Unchanged_ButTasksModeFaults

\* SIGTERM, or a claim statement that raises: _main stops claiming and waits
\* for the jobs in flight.
Terminate(w) ==
    /\ mode[w] = "up"
    /\ Fault
    /\ mode' = [mode EXCEPT ![w] = "draining"]
    /\ UNCHANGED tasks /\ Unchanged_ButTasksModeFaults

Drained(w) ==
    /\ mode[w] = "draining"
    /\ \A s \in Slot : At(<<w, s>>, "idle")
    /\ mode' = [mode EXCEPT ![w] = "down"]
    /\ UNCHANGED <<tasks, faults>> /\ Unchanged_ButTasksModeFaults

\* restart: unless-stopped
Restart(w) ==
    /\ mode[w] = "down"
    /\ mode' = [mode EXCEPT ![w] = "up"]
    /\ UNCHANGED <<tasks, faults>> /\ Unchanged_ButTasksModeFaults

Next ==
    \/ \E r \in Run : Admin(r) \/ KeyExpires(r)
    \/ \E t \in Task : Claim(t) \/ JobStep(t) \/ JobError(t)
    \/ \E q \in QId : Expire(q)
    \/ \E w \in Worker :
          Sweep(w) \/ Crash(w) \/ Terminate(w) \/ Drained(w) \/ Restart(w)

Spec == Init /\ [][Next]_vars

(***************************************************************************)
(* Fairness.  asyncio resumes every runnable coroutine, an agent is cut    *)
(* off after 300 s, the claim loop and the sweeper run forever in an up    *)
(* process, the container runtime restarts a dead one, time passes (so the *)
(* lease of a row nobody works on runs out), and a cancel request that has *)
(* committed is completed.  Nothing obliges a user to submit or cancel, a  *)
(* lease to run out under a live job, or a fault to strike.                *)
(***************************************************************************)
Fairness ==
    /\ \A t \in Task : WF_vars(JobStep(t))
    /\ \A w \in Worker : /\ WF_vars(\E s \in Slot : Claim(<<w, s>>))
                         /\ WF_vars(Sweep(w))
                         /\ WF_vars(Drained(w) \/ Restart(w))
    /\ \A q \in QId : WF_vars(~LiveHolder(q) /\ Expire(q))
    /\ \A r \in Run : WF_vars(CancelAnnounce(r) \/ CancelPurge(r))

FairSpec == Spec /\ Fairness

-----------------------------------------------------------------------------
(* What must hold.                                                         *)

\* As long as no lease has run out under a live job, a queue row has at most
\* one coroutine working for it: FOR UPDATE SKIP LOCKED, the claimed_by test,
\* the sweeper and the crashes between them never hand one job to two workers.
LeaseExclusive ==
    late = 0 => \A t, u \in Task :
        /\ ~At(t, "idle") /\ ~At(u, "idle")
        /\ tasks[t].row = tasks[u].row
        => t = u

\* No two coroutines execute the same node of the same run at once.
NoDoubleProcessing ==
    \A t, u \in Task :
        At(t, "run") /\ At(u, "run") /\ JobAt(t) = JobAt(u) => t = u

\* A node other than the entry has a row, so may be started, only after every
\* predecessor has succeeded at least once in the run, and a later iteration
\* only after the one before it: whatever crashes, stale reads and repeated
\* executions happen, nothing runs ahead of what it depends on.
PredecessorsFirst ==
    \A j \in Job : nodes[j] # "absent" =>
        /\ j.iter > 0 => JobOf(j.run, j.node, j.iter - 1) \in succeeded
        /\ j.iter = 0 /\ j.node # Entry =>
              \A p \in Predecessors(j.node) :
                  \E i \in Iteration : JobOf(j.run, p, i) \in succeeded

\* A run is marked succeeded only when every declared node has succeeded.
SuccessIsComplete ==
    \A r \in Run : runs[r] = "succeeded" =>
        \A n \in Declared : \E i \in Iteration : JobOf(r, n, i) \in succeeded

\* Coroutines at these points are on their way to what follows a result.
Following == {"loop", "advance", "enqueue", "finishRun"}

\* Somebody still owes run r a step: a row of it is in the queue, or the
\* coroutine that recorded a result of it has not yet enqueued what follows.
Underway(r) ==
    \/ \E q \in QId : Q!Present(q) /\ queue[q].job.run = r
    \/ \E t \in Task : tasks[t].pc \in Following /\ RunAt(t) = r

\* A run that is pending or running is never left with nobody to move it on:
\* each job's last look at the DAG either finds what to do next or leaves it
\* to another job, whatever raises, dies or is cancelled up to the commit of
\* _finalize_node.
RunsNeverStrand ==
    \A r \in Run : runs[r] \in {"pending", "running"} => Underway(r)

\* When a run has ended its scoped key is revoked, except while the coroutine
\* that ended it is about to do so.
FinishedRunKeyRevoked ==
    \A r \in Run : runs[r] \in Terminal /\ scopedKey[r] # "revoked" =>
        \E t \in Task : At(t, "revoke") /\ RunAt(t) = r

\* When a run has ended, the plaintext of its key is gone from Redis, except
\* while a worker or the cancel handler is still on its way to delete it.
PlaintextPurged ==
    \A r \in Run : runs[r] \in Terminal /\ redisKey[r] = "stored" =>
        \/ admin[r] \in {"announce", "purge"}
        \/ \E t \in Task : /\ tasks[t].pc \in {"revoke", "announce", "purge"}
                           /\ RunAt(t) = r

\* A claim of some job of run r has run out: its row waits to be swept, has been
\* swept, or was claimed again since.
Retried(r) ==
    \E q \in QId : /\ queue[q].job.run = r
                   /\ \/ queue[q].st \in {"free", "expired"} /\ queue[q].attempts > 0
                      \/ queue[q].attempts > 1

\* While a run goes on, the plaintext its agents need is in Redis until its 3660 s
\* are over: nobody deletes it, but the sweeper where it takes back a claim of a job
\* of the run, for it deletes the plaintext of every run with a stale claim, though
\* the job will be tried again.
PlaintextKept ==
    \A r \in Run : runs[r] \in {"pending", "running"} /\ redisKey[r] = "none" =>
        Retried(r) \/ late > 0

\* The plaintext is not deleted before the run has ended, and is once it has.
PlaintextFollowsRun == PlaintextKept /\ PlaintextPurged

\* Subscribers are told the status the run really ended with, unless they are
\* told that it was cancelled: a worker may still overwrite that.
AnnouncedIsFinal ==
    \A r \in Run : runs[r] \in Terminal =>
        \/ announced[r] \in {runs[r], "cancelled"}
        \/ admin[r] = "announce"
        \/ \E t \in Task : /\ tasks[t].pc \in {"revoke", "announce"}
                           /\ RunAt(t) = r

\* A run that has ended never becomes pending or running again, not even when
\* a job of it is executed late or twice.
NeverReopened ==
    [][\A r \in Run : runs[r] \in Terminal => runs'[r] \in Terminal]_runs

\* The status a run ended with stands.
OutcomeFinal ==
    [][\A r \in Run : runs[r] \in Terminal => runs'[r] = runs[r]]_runs

\* The queue is the at-least-once queue of WorkQueue.
ImplementsWorkQueue == Q!Spec

\* Every submitted run ends.
EveryRunEnds ==
    \A r \in Run : (runs[r] = "pending") ~> (runs[r] \in Terminal)

\* Every row put into the queue leaves it for good.
QueueDrains ==
    \A q \in QId : (queue[q].st = "free") ~> (queue[q].st = "deleted")

\* Whatever is submitted is worked off: the runs and the rows of their jobs.
WorkDrains == EveryRunEnds /\ QueueDrains
=============================================================================
