----------------------- MODULE WorkflowOutcome_proofs -----------------------
(***************************************************************************)
(* What does not happen to a run that has ended: it is not reopened, its   *)
(* scoped key does not stay valid, nor its plaintext in Redis, unless a    *)
(* worker is lost between the statements of _mark_run_finished, and the    *)
(* outcome that was announced does not change.  For the last, and for the  *)
(* nodes being executed once, what rows a run has at one time.  And what   *)
(* does not happen to a run that goes on: it is not left with nobody to    *)
(* move it, and its plaintext does not disappear under it.                 *)
(***************************************************************************)
EXTENDS WorkflowOrder_proofs

\* Rows belong to runs that have been committed, and those have a key.
Known ==
    /\ \A j \in Job : nodes[j] # "absent" => runs[j.run] # "absent"
    /\ \A r \in Run : admin[r] = "issued" => runs[r] = "absent"
    /\ \A r \in Run : runs[r] # "absent" => scopedKey[r] # "none"

\* How the status of a run may change.
LEMMA RunChange ==
  ASSUME TypeOK, LoopsBounded, [Next]_vars, NEW r \in Run, runs'[r] # runs[r]
  PROVE  \/ CommitRun(r) /\ runs'[r] = "pending"
         \/ Cancel(r) /\ runs'[r] = "cancelled" /\ runs[r] \in {"pending", "running"}
         \/ runs[r] = "pending" /\ runs'[r] = "running" /\ \E t \in Task : MarkRun(t)
         \/ \E t \in Task : FinishRun(t) /\ RunAt(t) = r /\ runs'[r] \in {"succeeded", "failed"}
<1>1. CASE \E q \in Run : CommitRun(q) \/ Cancel(q)
  BY <1>1 DEF CommitRun, Cancel, TypeOK
<1>2. CASE \E t \in Task : MarkRun(t)
  BY <1>2 DEF MarkRun, Started, TypeOK
<1>3. CASE \E t \in Task : FinishRun(t)
  <2>1. PICK t \in Task : FinishRun(t)
    BY <1>3
  <2>2. runs \in [Run -> RunStatus] /\ tasks[t].verdict \in {"succeeded", "failed"}
    BY DEF TypeOK, TaskState
  <2> QED BY <2>1, <2>2 DEF FinishRun
<1>4. CASE ~(\/ \E q \in Run : CommitRun(q) \/ Cancel(q)
             \/ \E t \in Task : MarkRun(t) \/ FinishRun(t))
  BY <1>4 DEF Next, vars, Admin, IssueKey, CancelAnnounce, CancelPurge, Claim, Expire, KeyExpires, Sweep,
     JobError, Crash, Terminate, Drained, Restart, Unchanged_ButTasksModeFaults, JobStep,
     FetchContext, DropRow, ResolveAgent, ReadKey, MarkNode, RunAgent, Finalize, EnqueueLoop,
     Advance, EnqueueSuccessor, Revoke, Announce, Purge, Unchanged_DB
<1> QED BY <1>1, <1>2, <1>3, <1>4

\* Where a run_nodes row comes from.
LEMMA NodeOrigin ==
  ASSUME TypeOK, LoopsBounded, [Next]_vars, NEW j \in Job,
         nodes[j] = "absent", nodes'[j] # "absent"
  PROVE  \/ CommitRun(j.run)
         \/ \E t \in Task : tasks[t].pc # "idle" /\ tasks[t].job.run = j.run
<1>1. ASSUME NEW k \in Job, Enqueue(k) PROVE k = j
  BY <1>1 DEF Enqueue, TypeOK
<1>2. ASSUME NEW r \in Run, Admin(r) PROVE CommitRun(j.run)
  <2>1. CommitRun(r)
    BY <1>2 DEF Admin, IssueKey, Cancel, CancelAnnounce, CancelPurge
  <2>2. JobOf(r, Entry, 0) = j
    BY <1>1, <2>1, EntryJob DEF CommitRun
  <2> QED BY <2>1, <2>2 DEF JobOf
<1>3. ASSUME NEW t \in Task, JobStep(t)
      PROVE  tasks[t].pc # "idle" /\ tasks[t].job.run = j.run
  <2>1. tasks[t].pc # "idle" /\ tasks[t] \in TaskState /\ tasks[t].job \in Job
    BY <1>3, JobStepMoves DEF Moves, TypeOK
  <2>2. CASE EnqueueLoop(t)
    <3>1. [JobAt(t) EXCEPT !.iter = @ + 1].run = JobAt(t).run
      BY <2>1 DEF JobAt, Job
    <3>2. \A k : k = [JobAt(t) EXCEPT !.iter = @ + 1] /\ Enqueue(k) => nodes'[j] = "absent" \/ k = j
      BY DEF Enqueue, TypeOK
    <3> QED BY <2>1, <2>2, <3>1, <3>2 DEF EnqueueLoop, JobAt
  <2>3. CASE EnqueueSuccessor(t)
    <3>1. PICK e \in tasks[t].todo : Enqueue(JobOf(RunAt(t), e.to, 0))
      BY <2>3 DEF EnqueueSuccessor
    <3>2. JobOf(RunAt(t), e.to, 0) \in Job
      BY <2>1, <3>1, DagAssumption DEF TaskState, RunAt, JobOf, Job, Iteration
    <3> QED BY <1>1, <2>1, <3>1, <3>2 DEF JobOf, RunAt
  <2>4. CASE Finalize(t) \/ MarkNode(t)
    BY <2>4 DEF Finalize, MarkNode, UpdateNode, TypeOK
  <2>5. CASE ~(EnqueueLoop(t) \/ EnqueueSuccessor(t) \/ Finalize(t) \/ MarkNode(t))
    BY <1>3, <2>5 DEF JobStep, FetchContext, DropRow, ResolveAgent, ReadKey, MarkRun,
       RunAgent, Advance, FinishRun, Revoke, Announce, Purge, Unchanged_DB
  <2> QED BY <2>1, <2>2, <2>3, <2>4, <2>5
<1>4. CASE ~((\E t \in Task : JobStep(t)) \/ (\E r \in Run : Admin(r)))
  BY <1>4 DEF Next, vars, Claim, Expire, KeyExpires, Sweep, JobError, Crash, Terminate, Drained,
     Restart, Unchanged_ButTasksModeFaults
<1> QED BY <1>2, <1>3, <1>4

\* A coroutine or a run_nodes row belongs to a run that was committed.
LEMMA KnownStep ==
  ASSUME TypeOK, LoopsBounded, Backed, Known, [Next]_vars PROVE Known'
<1>1. ASSUME NEW t \in Task, tasks[t].pc # "idle"
      PROVE  tasks[t].job \in Job /\ tasks[t].job.run \in Run /\ runs[tasks[t].job.run] # "absent"
  BY <1>1 DEF TypeOK, Backed, Known, Job
<1>2. ASSUME NEW r \in Run, runs[r] # "absent" PROVE runs'[r] # "absent"
  BY <1>2, RunChange
<1>3. ASSUME NEW j \in Job, nodes'[j] # "absent" PROVE runs'[j.run] # "absent"
  <2>1. j.run \in Run
    BY DEF Job
  <2>2. CASE nodes[j] # "absent"
    BY <1>2, <2>1, <2>2 DEF Known
  <2>3. CASE CommitRun(j.run)
    BY <2>1, <2>3 DEF CommitRun, TypeOK
  <2>4. CASE \E t \in Task : tasks[t].pc # "idle" /\ tasks[t].job.run = j.run
    BY <1>1, <1>2, <2>4
  <2> QED BY <1>3, <2>2, <2>3, <2>4, NodeOrigin
<1>4. ASSUME NEW r \in Run, admin'[r] = "issued" PROVE runs'[r] = "absent"
  <2>1. runs[r] = "absent" /\ ~CommitRun(r)
    <3>1. CASE \E q \in Run : Admin(q)
      <4>1. PICK q \in Run : Admin(q)
        BY <3>1
      <4>2. admin \in [Run -> {"idle", "issued", "announce", "purge"}]
        BY DEF TypeOK
      <4>3. CASE IssueKey(q)
        BY <1>4, <4>2, <4>3 DEF IssueKey, CommitRun, Known
      <4>4. CASE CommitRun(q)
        BY <1>4, <4>2, <4>4 DEF CommitRun, Known
      <4>5. CASE Cancel(q) \/ CancelAnnounce(q) \/ CancelPurge(q)
        BY <1>4, <4>2, <4>5 DEF Cancel, CancelAnnounce, CancelPurge, CommitRun, Known
      <4> QED BY <4>1, <4>3, <4>4, <4>5 DEF Admin
    <3>2. CASE ~\E q \in Run : Admin(q)
      <4>1. UNCHANGED admin
        BY <3>2 DEF Next, vars, Claim, Expire, KeyExpires, Sweep, JobError, Crash, Terminate, Drained,
           Restart, Unchanged_ButTasksModeFaults, JobStep, FetchContext, DropRow,
           ResolveAgent, ReadKey, MarkNode, MarkRun, RunAgent, Finalize, EnqueueLoop, Advance,
           EnqueueSuccessor, FinishRun, Revoke, Announce, Purge, Unchanged_Rest
      <4> QED BY <1>4, <3>2, <4>1 DEF Known, Admin
    <3> QED BY <3>1, <3>2
  <2>2. \A t \in Task : FinishRun(t) => RunAt(t) # r
    BY <1>1, <2>1 DEF FinishRun, At, RunAt
  <2> QED BY <2>1, <2>2, RunChange
<1>5. ASSUME NEW r \in Run, runs'[r] # "absent" PROVE scopedKey'[r] # "none"
  <2>1. CASE CommitRun(r)
    BY <2>1 DEF CommitRun, TypeOK
  <2>2. CASE ~CommitRun(r)
    <3>1. runs[r] # "absent"
      BY <1>1, <1>5, <2>2, RunChange DEF FinishRun, At, RunAt
    <3>2. scopedKey[r] # "none"
      BY <3>1 DEF Known
    <3>3. scopedKey'[r] \in {scopedKey[r], "live", "revoked"}
      <4>1. CASE \E q \in Run : CommitRun(q) \/ Cancel(q)
        BY <4>1 DEF CommitRun, Cancel, RevokeKey, TypeOK
      <4>2. CASE \E t \in Task : Revoke(t)
        BY <4>2 DEF Revoke, RevokeKey, TypeOK
      <4>3. CASE ~((\E q \in Run : CommitRun(q) \/ Cancel(q)) \/ (\E t \in Task : Revoke(t)))
        BY <4>3 DEF Next, vars, Admin, IssueKey, CancelAnnounce, CancelPurge, Claim, Expire, KeyExpires,
           Sweep, JobError, Crash, Terminate, Drained, Restart, Unchanged_ButTasksModeFaults,
           JobStep, FetchContext, DropRow, ResolveAgent, ReadKey, MarkNode, MarkRun, RunAgent,
           Finalize, EnqueueLoop, Advance, EnqueueSuccessor, FinishRun, Announce, Purge,
           Unchanged_DB
      <4> QED BY <4>1, <4>2, <4>3
    <3> QED BY <3>2, <3>3
  <2> QED BY <2>1, <2>2
<1> QED BY <1>3, <1>4, <1>5 DEF Known

\* No worker ever deals with a run that does not exist.
LEMMA KnownInvariant == Spec => [](TypeOK /\ LoopsBounded /\ QueueInv /\ Backed /\ Known)
<1>1. Init => Backed /\ Known
  BY DEF Init, Backed, Known, Idle
<1> QED BY <1>1, BackedStep, KnownStep, QueueInvariant, PTL DEF Spec

\* A run that has ended never becomes pending or running again: late and
\* repeated jobs of it find the guard of _mark_node_running, and a run is
\* submitted once.
THEOREM EndedRunsStayEnded == Spec => NeverReopened
<1>1. ASSUME TypeOK, LoopsBounded, Known, [Next]_vars, NEW r \in Run, runs[r] \in Terminal
      PROVE  runs'[r] \in Terminal
  <2>1. ~CommitRun(r)
    BY <1>1 DEF CommitRun, Known, Terminal
  <2> QED BY <1>1, <2>1, RunChange DEF Terminal
<1>2. TypeOK /\ LoopsBounded /\ Known /\ [Next]_vars =>
         [\A r \in Run : runs[r] \in Terminal => runs'[r] \in Terminal]_runs
  BY <1>1
<1> QED BY <1>2, KnownInvariant, PTL DEF Spec, NeverReopened

\* A step that ends a run revokes its key or is by a coroutine that will.
LEMMA KeyRevokedStep ==
  ASSUME "revoke" \notin FaultPoints, TypeOK, LoopsBounded, Known, FinishedRunKeyRevoked,
         [Next]_vars
  PROVE  FinishedRunKeyRevoked'
<1> SUFFICES ASSUME NEW r \in Run, runs'[r] \in Terminal, scopedKey'[r] # "revoked"
             PROVE  \E t \in Task : tasks'[t].pc = "revoke" /\ tasks'[t].job.run = r
  BY DEF FinishedRunKeyRevoked, At, RunAt
<1>0. tasks \in [Task -> TaskState] /\ Idle.pc = "idle" /\ \A q \in QId : JobFor(q).pc = "claimed"
  BY DEF TypeOK, JobFor, Idle
<1>1. ASSUME NEW t \in Task, FinishRun(t), RunAt(t) = r
      PROVE  tasks'[t].pc = "revoke" /\ tasks'[t].job.run = r
  BY <1>0, <1>1 DEF FinishRun, Goto, RunAt, TaskState
<1>2. ~CommitRun(r)
  BY DEF CommitRun, TypeOK, Terminal
<1>3. ~Cancel(r)
  BY DEF Cancel, RevokeKey, Known, TypeOK
<1>4. CASE runs[r] \notin Terminal
  BY <1>1, <1>2, <1>3, <1>4, RunChange DEF Terminal
<1>5. CASE runs[r] \in Terminal
  <2>1. scopedKey[r] # "revoked"
    <3>1. CASE \E q \in Run : CommitRun(q) \/ Cancel(q)
      BY <1>2, <1>3, <3>1 DEF CommitRun, Cancel, RevokeKey, TypeOK
    <3>2. CASE \E t \in Task : Revoke(t)
      BY <3>2 DEF Revoke, RevokeKey, TypeOK
    <3>3. CASE ~((\E q \in Run : CommitRun(q) \/ Cancel(q)) \/ (\E t \in Task : Revoke(t)))
      BY <3>3 DEF Next, vars, Admin, IssueKey, CancelAnnounce, CancelPurge, Claim, Expire, KeyExpires,
         Sweep, JobError, Crash, Terminate, Drained, Restart, Unchanged_ButTasksModeFaults,
         JobStep, FetchContext, DropRow, ResolveAgent, ReadKey, MarkNode, MarkRun, RunAgent,
         Finalize, EnqueueLoop, Advance, EnqueueSuccessor, FinishRun, Announce, Purge,
         Unchanged_DB
    <3> QED BY <3>1, <3>2, <3>3
  <2>2. PICK t \in Task : tasks[t].pc = "revoke" /\ tasks[t].job.run = r
    BY <1>5, <2>1 DEF FinishedRunKeyRevoked, At, RunAt
  <2>3. tasks'[t] = tasks[t]
    <3>1. ~Revoke(t)
      BY <2>1, <2>2, <1>5 DEF Revoke, RevokeKey, RunAt, Known, Terminal, TypeOK
    <3>2. ASSUME NEW u \in Task, JobStep(u) PROVE tasks'[t] = tasks[t]
      <4>1. CASE u = t
        BY <2>2, <3>1, <3>2, <4>1 DEF JobStep, At, FetchContext, DropRow, ResolveAgent, ReadKey,
           MarkNode, MarkRun, RunAgent, Finalize, EnqueueLoop, Advance, EnqueueSuccessor,
           FinishRun, Announce, Purge
      <4>2. CASE u # t
        BY <3>2, <4>2, JobStepMoves, <1>0 DEF Moves
      <4> QED BY <4>1, <4>2
    <3>3. ASSUME NEW u \in Task, Claim(u) PROVE tasks'[t] = tasks[t]
      BY <1>0, <2>2, <3>3 DEF Claim, At
    <3>4. ASSUME NEW u \in Task, JobError(u) PROVE tasks'[t] = tasks[t]
      BY <1>0, <2>2, <3>4 DEF JobError, Leave
    <3>5. ASSUME NEW w \in Worker, Crash(w) PROVE tasks'[t] = tasks[t]
      <4>1. t = <<t[1], t[2]>> /\ t[2] \in Slot
        BY DEF Task
      <4>2. t[1] # w
        BY <2>2, <3>5, <4>1 DEF Crash, MayFault
      <4> QED BY <1>0, <3>5, <4>2 DEF Crash
    <3>6. CASE \/ UNCHANGED vars
               \/ \E q \in Run : Admin(q)
               \/ \E q \in QId : Expire(q)
               \/ \E k \in Run : KeyExpires(k)
               \/ \E w \in Worker : Sweep(w) \/ Terminate(w) \/ Drained(w) \/ Restart(w)
      BY <3>6 DEF vars, Admin, IssueKey, CommitRun, Cancel, CancelAnnounce, CancelPurge,
         Expire, KeyExpires, Sweep, Terminate, Drained, Restart
    <3> QED BY <3>2, <3>3, <3>4, <3>5, <3>6 DEF Next
  <2> QED BY <2>2, <2>3
<1> QED BY <1>4, <1>5

\* The key of a run that has ended is revoked, or the coroutine that ended the
\* run is about to revoke it, provided no fault strikes between the two
\* statements of _mark_run_finished.  Without that hypothesis it is false: the
\* job's row is gone, so nobody comes back to revoke the key.
THEOREM KeysAreRevoked ==
  ASSUME "revoke" \notin FaultPoints PROVE Spec => []FinishedRunKeyRevoked
<1>1. Init => FinishedRunKeyRevoked
  BY DEF Init, FinishedRunKeyRevoked, Terminal
<1> QED BY <1>1, KeyRevokedStep, KnownInvariant, PTL DEF Spec

---------------------------------------------------------------------------
(* The plaintext key of an ended run, where no fault strikes between the   *)
(* statements of _mark_run_finished and Redis answers.                     *)

\* Where no fault can strike, a coroutine goes on or waits.
LEMMA Undisturbed ==
  ASSUME TypeOK, [Next]_vars, NEW t \in Task, tasks[t].pc \notin FaultPoints \cup {"idle"}
  PROVE  tasks'[t] = tasks[t] \/ JobStep(t)
<1>0. tasks \in [Task -> TaskState]
  BY DEF TypeOK
<1>1. ASSUME NEW u \in Task, JobStep(u) PROVE tasks'[t] = tasks[t] \/ JobStep(t)
  BY <1>0, <1>1, JobStepMoves DEF Moves
<1>2. ASSUME NEW u \in Task, Claim(u) PROVE tasks'[t] = tasks[t]
  BY <1>0, <1>2 DEF Claim, At
<1>3. ASSUME NEW u \in Task, JobError(u) PROVE tasks'[t] = tasks[t]
  BY <1>0, <1>3 DEF JobError, Leave
<1>4. ASSUME NEW w \in Worker, Crash(w) PROVE tasks'[t] = tasks[t]
  <2>1. t = <<t[1], t[2]>> /\ t[2] \in Slot
    BY DEF Task
  <2>2. t[1] # w
    BY <1>4, <2>1 DEF Crash, MayFault
  <2> QED BY <1>0, <1>4, <2>2 DEF Crash
<1>5. CASE \/ UNCHANGED vars
           \/ \E q \in Run : Admin(q)
           \/ \E q \in QId : Expire(q)
           \/ \E k \in Run : KeyExpires(k)
           \/ \E w \in Worker : Sweep(w) \/ Terminate(w) \/ Drained(w) \/ Restart(w)
  BY <1>5 DEF vars, Admin, IssueKey, CommitRun, Cancel, CancelAnnounce, CancelPurge,
     Expire, KeyExpires, Sweep, Terminate, Drained, Restart
<1> QED BY <1>1, <1>2, <1>3, <1>4, <1>5 DEF Next

\* Only submit_run puts a plaintext key into Redis.
LEMMA PlaintextOrigin ==
  ASSUME TypeOK, LoopsBounded, [Next]_vars, NEW r \in Run, redisKey'[r] = "stored"
  PROVE  redisKey[r] = "stored" \/ IssueKey(r)
<1>1. CASE \E q \in Run : IssueKey(q) \/ CancelPurge(q) \/ KeyExpires(q)
  BY <1>1 DEF IssueKey, KeyExpires, CancelPurge, PurgeKey, RedisWrite, TypeOK
<1>2. CASE \E t \in Task : Purge(t)
  BY <1>2 DEF Purge, PurgeKey, RedisWrite, TypeOK
<1>3. CASE \E w \in Worker : Sweep(w)
  BY <1>3 DEF Sweep, PurgeStale, TypeOK
<1>4. CASE ~(\/ \E q \in Run : IssueKey(q) \/ CancelPurge(q) \/ KeyExpires(q)
             \/ \E t \in Task : Purge(t)
             \/ \E w \in Worker : Sweep(w))
  BY <1>4 DEF Next, vars, Admin, CommitRun, Cancel, CancelAnnounce, Claim, Expire,
     JobError, Crash, Terminate, Drained, Restart, Unchanged_ButTasksModeFaults, JobStep,
     FetchContext, DropRow, ResolveAgent, ReadKey, MarkNode, MarkRun, RunAgent, Finalize,
     EnqueueLoop, Advance, EnqueueSuccessor, FinishRun, Revoke, Announce, Unchanged_DB
<1> QED BY <1>1, <1>2, <1>3, <1>4

\* Only the admin handlers of a run move its handler.
LEMMA HandlerMoves ==
  ASSUME TypeOK, [Next]_vars, NEW r \in Run PROVE admin'[r] = admin[r] \/ Admin(r)
<1>1. CASE \E q \in Run : Admin(q)
  <2>1. PICK q \in Run : Admin(q)
    BY <1>1
  <2>2. CASE q # r
    BY <2>1, <2>2 DEF Admin, IssueKey, CommitRun, Cancel, CancelAnnounce, CancelPurge, TypeOK
  <2> QED BY <2>1, <2>2
<1>2. CASE ~\E q \in Run : Admin(q)
  BY <1>2 DEF Next, vars, Claim, Expire, KeyExpires, Sweep, JobError, Crash, Terminate, Drained,
     Restart, Unchanged_ButTasksModeFaults, JobStep, FetchContext, DropRow,
     ResolveAgent, ReadKey, MarkNode, MarkRun, RunAgent, Finalize, EnqueueLoop, Advance,
     EnqueueSuccessor, FinishRun, Revoke, Announce, Purge, Unchanged_Rest
<1> QED BY <1>1, <1>2

\* The last steps of _handle_job come one after the other.
LEMMA LastSteps ==
  ASSUME TypeOK, NEW t \in Task, JobStep(t)
  PROVE  /\ tasks[t].pc = "revoke" => Revoke(t) /\ tasks'[t].pc = "announce"
         /\ tasks[t].pc = "announce" => Announce(t) /\ tasks'[t].pc = "purge"
         /\ tasks[t].pc = "purge" => Purge(t)
         /\ tasks[t].pc \in {"revoke", "announce"} => tasks'[t] = [tasks[t] EXCEPT !.pc = tasks'[t].pc]
<1>0. tasks \in [Task -> TaskState]
  BY DEF TypeOK
<1>1. ASSUME tasks[t].pc \in {"revoke", "announce", "purge"}
      PROVE  \/ tasks[t].pc = "revoke" /\ Revoke(t)
             \/ tasks[t].pc = "announce" /\ Announce(t)
             \/ tasks[t].pc = "purge" /\ Purge(t)
  BY <1>1 DEF JobStep, At, FetchContext, DropRow, ResolveAgent, ReadKey,
     MarkNode, MarkRun, RunAgent, Finalize, EnqueueLoop, Advance, EnqueueSuccessor,
     FinishRun, Revoke, Announce, Purge
<1>2. Revoke(t) => tasks' = [tasks EXCEPT ![t].pc = "announce"]
  BY DEF Revoke, Goto
<1>3. Announce(t) => tasks' = [tasks EXCEPT ![t].pc = "purge"]
  BY DEF Announce, Goto
<1> QED BY <1>0, <1>1, <1>2, <1>3 DEF TaskState

\* A step that ends a run deletes its plaintext key, or is by a coroutine or a
\* handler that will.
LEMMA PlaintextStep ==
  ASSUME ~RedisMayFail, FaultPoints \cap {"revoke", "announce", "purge"} = {},
         TypeOK, LoopsBounded, PlaintextPurged, [Next]_vars
  PROVE  PlaintextPurged'
<1> SUFFICES ASSUME NEW r \in Run, runs'[r] \in Terminal, redisKey'[r] = "stored"
             PROVE  \/ admin'[r] \in {"announce", "purge"}
                    \/ \E t \in Task : /\ tasks'[t].pc \in {"revoke", "announce", "purge"}
                                       /\ tasks'[t].job.run = r
  BY DEF PlaintextPurged, At, RunAt
<1>0. tasks \in [Task -> TaskState]
  BY DEF TypeOK
<1>1. ~IssueKey(r) /\ ~CommitRun(r)
  BY DEF IssueKey, CommitRun, TypeOK, Terminal
<1>2. redisKey[r] = "stored"
  BY <1>1, PlaintextOrigin
<1>3. CASE runs[r] \notin Terminal
  <2>1. CASE Cancel(r)
    BY <2>1 DEF Cancel, TypeOK
  <2>2. CASE \E t \in Task : FinishRun(t) /\ RunAt(t) = r
    <3>1. PICK t \in Task : FinishRun(t) /\ RunAt(t) = r
      BY <2>2
    <3> QED BY <1>0, <3>1 DEF FinishRun, Goto, RunAt, TaskState
  <2> QED BY <1>1, <1>3, <2>1, <2>2, RunChange DEF Terminal
<1>4. CASE runs[r] \in Terminal /\ admin[r] \in {"announce", "purge"}
  <2>1. ~CancelPurge(r)
    BY DEF CancelPurge, PurgeKey, RedisWrite, TypeOK
  <2>2. CancelAnnounce(r) => admin'[r] = "purge"
    BY DEF CancelAnnounce, TypeOK
  <2>3. ~Cancel(r)
    BY <1>4 DEF Cancel
  <2> QED BY <1>1, <1>4, <2>1, <2>2, <2>3, HandlerMoves DEF Admin
<1>5. ASSUME NEW t \in Task, tasks[t].pc \in {"revoke", "announce", "purge"},
             tasks[t].job.run = r
      PROVE  tasks'[t].pc \in {"revoke", "announce", "purge"} /\ tasks'[t].job.run = r
  <2>1. tasks'[t] = tasks[t] \/ JobStep(t)
    BY <1>5, Undisturbed
  <2>2. ~Purge(t)
    BY <1>5 DEF Purge, PurgeKey, RedisWrite, RunAt, TypeOK
  <2>3. CASE JobStep(t)
    <3>1. tasks'[t].pc \in {"announce", "purge"}
      BY <1>5, <2>2, <2>3, LastSteps
    <3>2. tasks'[t].job = tasks[t].job
      BY <2>3, <3>1, JobStepMoves DEF Moves, Idle
    <3> QED BY <1>5, <3>1, <3>2
  <2> QED BY <1>5, <2>1, <2>3
<1> QED BY <1>2, <1>3, <1>4, <1>5 DEF PlaintextPurged, RunAt

\* With a Redis that answers and no fault after the run's status is written, a
\* run that has ended has no plaintext key in Redis, but for a coroutine or a
\* cancel handler on its way to delete it: however its jobs are repeated, for
\* late leases and cancels included.
THEOREM PlaintextIsPurged ==
  ASSUME ~RedisMayFail, FaultPoints \cap {"revoke", "announce", "purge"} = {}
  PROVE  Spec => []PlaintextPurged
<1>1. Init => PlaintextPurged
  BY DEF Init, PlaintextPurged, Terminal
<1> QED BY <1>1, PlaintextStep, TypeInvariant, PTL DEF Spec

---------------------------------------------------------------------------
(* Which nodes run alone.  While no lease runs out under a live job, a job *)
(* is in the table or in the hands of a coroutine at most once if each     *)
(* node is reached along one path; the end of a chain is announced once.   *)

\* A row that is in the table, or that a coroutine still works for.
Live(q) == Q!Present(q) \/ \E t \in Task : tasks[t].pc # "idle" /\ tasks[t].row = q

AfterResult == {"loop", "advance", "enqueue", "finishRun", "revoke", "announce", "purge"}

\* A coroutine has its row's job; once the result is recorded, that row is gone;
\* it enqueues along its node's own edges.
Placed ==
    /\ late = 0
    /\ \A t \in Task : tasks[t].pc # "idle" =>
          tasks[t].job = queue[tasks[t].row].job
    /\ \A t \in Task : tasks[t].pc \in AfterResult =>
          queue[tasks[t].row].st = "deleted"
    /\ \A t \in Task : tasks[t].pc = "enqueue" =>
          tasks[t].todo \subseteq OutEdges(tasks[t].job.node)

\* Everything the proofs below build on.
Base == TypeOK /\ LoopsBounded /\ QueueInv /\ Backed /\ Known /\ Placed

\* What any step does to a row that has been used.
LEMMA UsedRowsStay ==
  ASSUME TypeOK, LoopsBounded, QueueInv, [Next]_vars, NEW q \in QId, queue[q].st # "unused"
  PROVE  /\ queue'[q].st # "unused" /\ queue'[q].job = queue[q].job
         /\ queue[q].st = "deleted" => queue'[q].st = "deleted"
<1>1. [Q!Next]_queue
  BY RefinementStep
<1>2. queue \in [QId -> Q!Row]
  BY DEF TypeOK
<1>3. CASE Q!Reclaim \/ UNCHANGED queue
  BY <1>2, <1>3 DEF Q!Reclaim, Q!Row
<1>4. ASSUME NEW p \in QId, Q!Insert(p) \/ Q!Claim(p) \/ Q!Expire(p) \/ Q!Delete(p)
      PROVE  /\ queue'[q].st # "unused" /\ queue'[q].job = queue[q].job
             /\ queue[q].st = "deleted" => queue'[q].st = "deleted"
  <2>1. CASE Q!Insert(p)
    BY <1>2, <2>1 DEF Q!Insert
  <2>2. CASE Q!Claim(p)
    BY <1>2, <2>2 DEF Q!Claim, Q!Row
  <2>3. CASE Q!Expire(p)
    BY <1>2, <2>3 DEF Q!Expire, Q!Row
  <2>4. CASE Q!Delete(p)
    BY <1>2, <2>4 DEF Q!Delete, Q!Present, Q!Row
  <2> QED BY <1>4, <2>1, <2>2, <2>3, <2>4
<1> QED BY <1>1, <1>3, <1>4 DEF Q!Next

\* Where a coroutine comes from, with its row.
LEMMA TaskRows ==
  ASSUME TypeOK, LoopsBounded, [Next]_vars, NEW t \in Task, tasks'[t].pc # "idle"
  PROVE  \/ /\ tasks[t].pc # "idle"
            /\ tasks'[t].job = tasks[t].job /\ tasks'[t].row = tasks[t].row
         \/ /\ tasks'[t].pc = "claimed" /\ tasks[t].pc = "idle"
            /\ \E q \in QId : /\ queue[q].st = "free" /\ tasks'[t].row = q
                              /\ tasks'[t].job = queue[q].job
<1>0. tasks \in [Task -> TaskState]
  BY DEF TypeOK
<1>1. ASSUME NEW u \in Task, JobStep(u)
      PROVE  /\ tasks[t].pc # "idle"
             /\ tasks'[t].job = tasks[t].job /\ tasks'[t].row = tasks[t].row
  BY <1>0, <1>1, JobStepMoves DEF Moves, Idle
<1>2. ASSUME NEW u \in Task, Claim(u)
      PROVE  \/ tasks[t].pc # "idle" /\ tasks'[t] = tasks[t]
             \/ /\ tasks'[t].pc = "claimed" /\ tasks[t].pc = "idle"
                /\ \E q \in QId : /\ queue[q].st = "free" /\ tasks'[t].row = q
                                  /\ tasks'[t].job = queue[q].job
  <2>1. PICK q \in QId : /\ queue[q].st = "free" /\ tasks[u].pc = "idle"
                         /\ tasks' = [tasks EXCEPT ![u] = JobFor(q)]
    BY <1>2 DEF Claim, Claimable, At
  <2>2. JobFor(q).pc = "claimed" /\ JobFor(q).row = q /\ JobFor(q).job = queue[q].job
    BY DEF JobFor, Idle
  <2> QED BY <1>0, <2>1, <2>2
<1>3. ASSUME \/ \E u \in Task : JobError(u)
             \/ \E w \in Worker : Crash(w) \/ Terminate(w) \/ Drained(w) \/ Restart(w)
      PROVE  tasks[t].pc # "idle" /\ tasks'[t] = tasks[t]
  BY <1>0, <1>3 DEF JobError, Crash, Terminate, Drained, Restart, Leave, Idle
<1>4. CASE \/ UNCHANGED vars
           \/ \E r \in Run : Admin(r)
           \/ \E q \in QId : Expire(q)
           \/ \E k \in Run : KeyExpires(k)
           \/ \E w \in Worker : Sweep(w)
  BY <1>4 DEF vars, Admin, IssueKey, CommitRun, Cancel, CancelAnnounce, CancelPurge,
     Expire, KeyExpires, Sweep
<1> QED BY <1>1, <1>2, <1>3, <1>4 DEF Next

\* No lease runs out under a live job.
LEMMA NoLateStep ==
  ASSUME MaxLate = 0, TypeOK, LoopsBounded, late = 0, [Next]_vars PROVE late' = 0
<1>1. ASSUME NEW q \in QId, Expire(q) PROVE late' = 0
  BY <1>1 DEF Expire
<1>2. ASSUME NEW t \in Task, JobStep(t) PROVE late' = 0
  BY <1>2, JobStepQueue
<1>3. CASE ~((\E q \in QId : Expire(q)) \/ (\E t \in Task : JobStep(t)))
  BY <1>3 DEF Next, vars, Admin, IssueKey, CommitRun, Cancel, CancelAnnounce, CancelPurge,
     KeyExpires, Claim, Sweep, JobError, Crash, Terminate, Drained, Restart, Unchanged_ButTasksModeFaults
<1> QED BY <1>1, <1>2, <1>3

\* Until its agent has ended, a coroutine is not past the result.
LEMMA EarlySteps ==
  ASSUME TypeOK, NEW t \in Task, JobStep(t), tasks[t].pc \notin AfterResult \cup {"finalize"}
  PROVE  tasks'[t].pc \notin AfterResult
<1>0. tasks \in [Task -> TaskState] /\ tasks[t] \in TaskState
  BY DEF TypeOK
<1> USE DEF AfterResult
<1>1. CASE FetchContext(t) \/ DropRow(t) \/ MarkNode(t) \/ MarkRun(t)
  BY <1>0, <1>1 DEF FetchContext, DropRow, MarkNode, MarkRun, Goto, Leave, Idle, TaskState
<1>2. CASE ResolveAgent(t)
  BY <1>0, <1>2 DEF ResolveAgent, Goto, TaskState
<1>3. CASE ReadKey(t)
  <2>1. PICK k : tasks' = [tasks EXCEPT ![t].pc = "markNode", ![t].key = k]
    BY <1>3 DEF ReadKey
  <2> QED BY <1>0, <2>1 DEF TaskState
<1>4. CASE RunAgent(t)
  <2>1. ASSUME NEW o, tasks' = [tasks EXCEPT ![t].pc = "finalize", ![t].out = o,
                                  ![t].verdict = "succeeded", ![t].key = FALSE]
        PROVE  tasks'[t].pc = "finalize"
    BY <1>0, <2>1 DEF TaskState
  <2>2. ASSUME tasks' = [tasks EXCEPT ![t].pc = "finalize", ![t].verdict = "failed",
                                      ![t].key = FALSE]
        PROVE  tasks'[t].pc = "finalize"
    BY <1>0, <2>2 DEF TaskState
  <2> QED BY <1>4, <2>1, <2>2 DEF RunAgent
<1>5. \/ FetchContext(t) \/ DropRow(t) \/ MarkNode(t) \/ MarkRun(t)
      \/ ResolveAgent(t) \/ ReadKey(t) \/ RunAgent(t)
  BY DEF JobStep, At, Finalize, EnqueueLoop, Advance, EnqueueSuccessor, FinishRun, Revoke,
         Announce, Purge
<1> QED BY <1>1, <1>2, <1>3, <1>4, <1>5

\* A coroutine comes to its edges by reading them, and then follows them.
LEMMA TodoOrigin ==
  ASSUME TypeOK, NEW t \in Task, JobStep(t), tasks'[t].pc = "enqueue"
  PROVE  \/ EnqueueSuccessor(t) /\ tasks'[t].todo \subseteq tasks[t].todo
         \/ Advance(t) /\ tasks'[t].todo \subseteq OutEdges(tasks[t].job.node)
<1>0. tasks \in [Task -> TaskState] /\ tasks[t] \in TaskState
  BY DEF TypeOK
<1>1. CASE EnqueueSuccessor(t)
  <2>1. PICK e : IF tasks[t].todo = {e} THEN Leave(t)
                 ELSE tasks' = [tasks EXCEPT ![t].todo = @ \ {e}]
    BY <1>1 DEF EnqueueSuccessor
  <2> QED BY <1>0, <1>1, <2>1 DEF Leave, Idle, TaskState
<1>2. CASE Advance(t)
  <2> DEFINE ready == ReadySuccessors(JobAt(t).node, NodeState(RunAt(t)), tasks[t].out)
  <2>1. ready \subseteq OutEdges(tasks[t].job.node)
    BY DEF ReadySuccessors, ConditionalSuccessors, JobAt
  <2> HIDE DEF ready
  <2>2. ~Leave(t) /\ ~Goto(t, "finishRun")
    BY <1>0 DEF Leave, Goto, Idle, TaskState
  <2>3. tasks' = [tasks EXCEPT ![t].pc = "enqueue", ![t].todo = ready]
    BY <1>2, <2>2 DEF Advance, ready
  <2>4. tasks'[t].todo = ready
    BY <1>0, <2>3 DEF TaskState
  <2> QED BY <1>2, <2>1, <2>4
<1>3. CASE FinishRun(t) \/ Revoke(t) \/ Announce(t) \/ Purge(t) \/ EnqueueLoop(t) \/ Finalize(t)
  BY <1>0, <1>3 DEF FinishRun, Revoke, Announce, Purge, EnqueueLoop, Finalize, Goto, Leave, Idle,
     TaskState
<1>4. tasks[t].pc \in AfterResult \cup {"finalize"}
  BY EarlySteps DEF AfterResult
<1>5. \/ EnqueueSuccessor(t) \/ Advance(t) \/ FinishRun(t) \/ Revoke(t) \/ Announce(t) \/ Purge(t)
      \/ EnqueueLoop(t) \/ Finalize(t)
  BY <1>4 DEF AfterResult, JobStep, At, FetchContext, DropRow, ResolveAgent, ReadKey, MarkNode,
     MarkRun, RunAgent
<1> QED BY <1>1, <1>2, <1>3, <1>5

\* A coroutine that does not idle moves by a step of its own, or not at all.
LEMMA OwnSteps ==
  ASSUME TypeOK, [Next]_vars, NEW t \in Task, tasks[t].pc # "idle", tasks'[t].pc # "idle"
  PROVE  tasks'[t] = tasks[t] \/ JobStep(t)
<1>0. tasks \in [Task -> TaskState]
  BY DEF TypeOK
<1>1. ASSUME NEW u \in Task, JobStep(u) PROVE tasks'[t] = tasks[t] \/ JobStep(t)
  BY <1>0, <1>1, JobStepMoves DEF Moves
<1>2. ASSUME NEW u \in Task, Claim(u) PROVE tasks'[t] = tasks[t]
  BY <1>0, <1>2 DEF Claim, At
<1>3. ASSUME \/ \E u \in Task : JobError(u)
             \/ \E w \in Worker : Crash(w) \/ Terminate(w) \/ Drained(w) \/ Restart(w)
      PROVE  tasks'[t] = tasks[t]
  BY <1>0, <1>3 DEF JobError, Crash, Terminate, Drained, Restart, Leave, Idle
<1>4. CASE \/ UNCHANGED vars
           \/ \E r \in Run : Admin(r)
           \/ \E q \in QId : Expire(q)
           \/ \E k \in Run : KeyExpires(k)
           \/ \E w \in Worker : Sweep(w)
  BY <1>4 DEF vars, Admin, IssueKey, CommitRun, Cancel, CancelAnnounce, CancelPurge,
     Expire, KeyExpires, Sweep
<1> QED BY <1>1, <1>2, <1>3, <1>4 DEF Next

\* Where coroutines are in _handle_job agrees with the queue.
LEMMA PlacedStep ==
  ASSUME MaxLate = 0, TypeOK, LoopsBounded, QueueInv, Placed, [Next]_vars PROVE Placed'
<1>0. tasks \in [Task -> TaskState] /\ queue \in [QId -> Q!Row]
      /\ \A t \in Task : tasks[t].pc # "idle" =>
            /\ tasks[t].row \in QId /\ tasks[t].job \in Job
            /\ queue[tasks[t].row].st \in {"held", "deleted"}
  BY DEF TypeOK, QueueInv, Lease, Placed
<1>1. late' = 0
  BY NoLateStep DEF Placed
<1>2. ASSUME NEW t \in Task, tasks'[t].pc # "idle"
      PROVE  tasks'[t].job = queue'[tasks'[t].row].job
  <2>1. CASE /\ tasks[t].pc # "idle"
             /\ tasks'[t].job = tasks[t].job /\ tasks'[t].row = tasks[t].row
    BY <1>0, <2>1, UsedRowsStay DEF Placed
  <2>2. CASE \E q \in QId : /\ queue[q].st = "free" /\ tasks'[t].row = q
                            /\ tasks'[t].job = queue[q].job
    BY <2>2, UsedRowsStay
  <2> QED BY <1>2, <2>1, <2>2, TaskRows
<1>3. ASSUME NEW t \in Task, tasks'[t].pc \in AfterResult
      PROVE  queue'[tasks'[t].row].st = "deleted"
  <2>1. /\ tasks[t].pc # "idle" /\ tasks'[t].row = tasks[t].row /\ tasks[t].row \in QId
        /\ tasks'[t].pc # "idle"
    BY <1>0, <1>3, TaskRows DEF AfterResult
  <2>2. CASE tasks[t].pc \in AfterResult
    BY <2>1, <2>2, UsedRowsStay DEF Placed
  <2>3. CASE tasks[t].pc \notin AfterResult
    <3>1. JobStep(t)
      BY <1>3, <2>1, <2>3, OwnSteps
    <3>2. Finalize(t)
      <4>1. tasks[t].pc = "finalize"
        BY <1>3, <2>3, <3>1, EarlySteps
      <4> QED BY <3>1, <4>1 DEF JobStep, At, FetchContext, DropRow, ResolveAgent, ReadKey,
                 MarkNode, MarkRun, RunAgent, EnqueueLoop, Advance, EnqueueSuccessor,
                 FinishRun, Revoke, Announce, Purge
    <3>3. DeleteRow(tasks[t].row)
      BY <3>2 DEF Finalize
    <3> QED BY <1>0, <2>1, <3>3 DEF DeleteRow, Q!Present, Q!Row
  <2> QED BY <2>2, <2>3
<1>4. ASSUME NEW t \in Task, tasks'[t].pc = "enqueue"
      PROVE  tasks'[t].todo \subseteq OutEdges(tasks'[t].job.node)
  <2>1. tasks[t].pc # "idle" /\ tasks'[t].job = tasks[t].job /\ tasks'[t].pc # "idle"
    BY <1>4, TaskRows
  <2>2. CASE tasks'[t] = tasks[t]
    BY <1>4, <2>2 DEF Placed
  <2>3. CASE JobStep(t)
    <3>1. EnqueueSuccessor(t) => tasks[t].todo \subseteq OutEdges(tasks[t].job.node)
      BY DEF EnqueueSuccessor, At, Placed
    <3> QED BY <1>4, <2>1, <2>3, <3>1, TodoOrigin
  <2> QED BY <2>1, <2>2, <2>3, OwnSteps
<1> QED BY <1>1, <1>2, <1>3, <1>4 DEF Placed

\* They agree always, while no lease runs out under a live job.
LEMMA BaseInvariant == ASSUME MaxLate = 0 PROVE Spec => []Base
<1>1. Init => Placed
  BY DEF Init, Placed, Idle, AfterResult
<1>2. TypeOK /\ LoopsBounded /\ QueueInv /\ Placed /\ [Next]_vars => Placed'
  BY PlacedStep
<1>3. TypeOK /\ LoopsBounded /\ QueueInv /\ Backed /\ Known /\ Placed <=> Base
  BY DEF Base
<1> QED BY <1>1, <1>2, <1>3, KnownInvariant, PTL DEF Spec

\* The steps that insert a row.
Inserts ==
    \/ \E r \in Run : CommitRun(r)
    \/ \E t \in Task : EnqueueLoop(t) \/ EnqueueSuccessor(t)

\* A step that inserts nothing makes no row live and starts no node.
LEMMA QuietRows ==
  ASSUME TypeOK, LoopsBounded, QueueInv, [Next]_vars, ~Inserts
  PROVE  /\ \A q \in QId : Q!Present(q)' => Q!Present(q)
         /\ \A j \in Job : nodes'[j] # "absent" => nodes[j] # "absent"
<1>0. queue \in [QId -> Q!Row] /\ nodes \in [Job -> NodeStatus]
  BY DEF TypeOK
<1>1. CASE \E t \in Task : JobStep(t)
  <2>1. PICK t \in Task : JobStep(t)
    BY <1>1
  <2>2. CASE Finalize(t) \/ MarkNode(t) \/ DropRow(t)
    <3>1. UNCHANGED queue \/ DeleteRow(tasks[t].row)
      BY <2>2 DEF Finalize, MarkNode, DropRow
    <3>2. \A q \in QId : Q!Present(q)' => Q!Present(q)
      BY <1>0, <3>1 DEF DeleteRow, Q!Present, Q!Row
    <3>3. UNCHANGED nodes \/ \E s : UpdateNode(JobAt(t), s)
      BY <2>2 DEF Finalize, MarkNode, DropRow
    <3>4. \A j \in Job : nodes'[j] # "absent" => nodes[j] # "absent"
      BY <1>0, <3>3 DEF UpdateNode
    <3> QED BY <3>2, <3>4
  <2>3. CASE ~(Finalize(t) \/ MarkNode(t) \/ DropRow(t))
    <3>1. UNCHANGED <<queue, nodes>>
      BY <2>1, <2>3 DEF Inserts, JobStep, FetchContext, ResolveAgent, ReadKey, MarkRun,
         RunAgent, Advance, FinishRun, Revoke, Announce, Purge, Unchanged_DB
    <3> QED BY <3>1 DEF Q!Present
  <2> QED BY <2>2, <2>3
<1>2. CASE \E t \in Task : Claim(t)
  <2>1. PICK q \in QId : /\ queue[q].st = "free"
                         /\ queue' = [queue EXCEPT ![q].st = "held", ![q].attempts = @ + 1]
                         /\ UNCHANGED nodes
    BY <1>2 DEF Claim, Claimable
  <2>2. \A p \in QId : p # q => queue'[p] = queue[p]
    BY <1>0, <2>1
  <2> QED BY <2>1, <2>2 DEF Q!Present
<1>3. CASE \E q \in QId : Expire(q)
  <2>1. PICK q \in QId : /\ queue[q].st = "held"
                         /\ queue' = [queue EXCEPT ![q].st = "expired"]
                         /\ UNCHANGED nodes
    BY <1>3 DEF Expire
  <2> QED BY <1>0, <2>1 DEF Q!Present
<1>4. CASE \E w \in Worker : Sweep(w)
  BY <1>0, <1>4 DEF Sweep, Stale, Q!Present, Q!Row
<1>5. CASE ~(\/ \E t \in Task : JobStep(t) \/ Claim(t)
             \/ \E q \in QId : Expire(q)
             \/ \E w \in Worker : Sweep(w))
  <2>1. UNCHANGED <<queue, nodes>>
    BY <1>5 DEF Inserts, Next, vars, Admin, IssueKey, KeyExpires, Cancel, CancelAnnounce, CancelPurge,
       JobError, Crash, Terminate, Drained, Restart, Unchanged_ButTasksModeFaults
  <2> QED BY <2>1 DEF Q!Present
<1> QED BY <1>1, <1>2, <1>3, <1>4, <1>5

\* An insertion adds one live row, for the job it inserts.
LEMMA InsertRows ==
  ASSUME TypeOK, QueueInv, NEW j \in Job, Enqueue(j)
  PROVE  /\ \A q \in QId : Q!Present(q)' =>
               \/ Q!Present(q)
               \/ q = nextId /\ queue'[q].job = j /\ queue[q].st = "unused"
         /\ \A k \in Job : nodes'[k] # "absent" => nodes[k] # "absent" \/ k = j
  BY DEF TypeOK, QueueInv, FreshIds, Enqueue, Q!Present

\* A live row has been used, and its job's node has a row.
LEMMA LiveRows ==
  ASSUME Base, NEW q \in QId, Live(q)
  PROVE  /\ queue[q].st # "unused" /\ queue[q].job \in Job
         /\ nodes[queue[q].job] # "absent"
  BY DEF Base, TypeOK, QueueInv, RowsClaimed, Backed, Live, Q!Present, Q!Row

\* A row that a step makes live was inserted by it.
LEMMA LiveOrigin ==
  ASSUME Base, [Next]_vars, NEW q \in QId, Live(q)', ~Live(q)
  PROVE  Q!Present(q)' /\ ~Q!Present(q) /\ Inserts
<1>1. ~Q!Present(q) /\ \A t \in Task : tasks[t].pc # "idle" => tasks[t].row # q
  BY DEF Live
<1>2. \A t \in Task : tasks'[t].pc # "idle" => tasks'[t].row # q
  BY <1>1, TaskRows DEF Base, Q!Present
<1>3. Q!Present(q)'
  BY <1>2 DEF Live
<1> QED BY <1>1, <1>3, QuietRows DEF Base

\* The row of a coroutine that leaves after the result is gone for good.
LEMMA LeavingEnds ==
  ASSUME Base, [Next]_vars, NEW t \in Task, tasks[t].pc \in AfterResult, tasks'[t].pc = "idle"
  PROVE  \E q \in QId : q = tasks[t].row /\ Live(q) /\ ~Live(q)'
<1>1. /\ tasks[t].pc # "idle" /\ tasks[t].row \in QId
      /\ queue[tasks[t].row].st = "deleted"
  BY DEF AfterResult, Base, TypeOK, Placed
<1>2. queue'[tasks[t].row].st = "deleted"
  BY <1>1, UsedRowsStay DEF Base
<1>3. \A u \in Task : tasks[u].pc # "idle" /\ tasks[u].row = tasks[t].row => u = t
  BY <1>1 DEF Base, QueueInv, Lease, Placed
<1>4. \A u \in Task : tasks'[u].pc # "idle" => tasks'[u].row # tasks[t].row
  BY <1>1, <1>3, TaskRows DEF Base
<1>5. ASSUME NEW q \in QId, q = tasks[t].row PROVE Live(q) /\ ~Live(q)'
  BY <1>1, <1>2, <1>4, <1>5 DEF Live, Q!Present
<1> QED BY <1>1, <1>5

---------------------------------------------------------------------------
(* Versions in which no node has two edges out of it.                      *)

IsChain == \A e, f \in Edges : e.from = f.from => e = f

\* A run has at most one row that is in the table or worked on.
OneAtATime ==
    \A p, q \in QId :
        Live(p) /\ Live(q) /\ queue[p].job.run = queue[q].job.run => p = q

\* The insertion by a coroutine that leaves replaces its row.
LEMMA ReplacesRow ==
  ASSUME Base, OneAtATime, [Next]_vars, NEW t \in Task, NEW j \in Job,
         tasks[t].pc \in AfterResult, tasks'[t].pc = "idle",
         Enqueue(j), j.run = RunAt(t)
  PROVE  OneAtATime'
<1>1. PICK p \in QId : p = tasks[t].row /\ Live(p) /\ ~Live(p)'
  BY LeavingEnds
<1>3. queue[p].job.run = j.run
  BY <1>1 DEF RunAt, Base, Placed, AfterResult
<1>2. ASSUME NEW q \in QId, Live(q)'
      PROVE  \/ Live(q) /\ queue'[q].job = queue[q].job /\ queue[q].job.run # j.run
             \/ q = nextId /\ queue'[q].job.run = j.run
  <2>1. CASE Live(q)
    <3>1. queue'[q].job = queue[q].job
      BY <2>1, LiveRows, UsedRowsStay DEF Base
    <3> QED BY <1>1, <1>2, <1>3, <2>1, <3>1 DEF OneAtATime
  <2>2. CASE ~Live(q)
    BY <1>2, <2>2, LiveOrigin, InsertRows DEF Base
  <2> QED BY <2>1, <2>2
<1> QED BY <1>2 DEF OneAtATime

\* In a chain every step leaves at most one live row to a run.
LEMMA OneAtATimeStep ==
  ASSUME IsChain, Base, OneAtATime, [Next]_vars PROVE OneAtATime'
<1>0. TypeOK /\ LoopsBounded /\ QueueInv /\ tasks \in [Task -> TaskState]
  BY DEF Base, TypeOK
<1>1. ASSUME ~Inserts PROVE OneAtATime'
  <2>1. \A q \in QId : Live(q)' => Live(q) /\ queue'[q].job = queue[q].job
    BY <1>0, <1>1, LiveOrigin, LiveRows, UsedRowsStay
  <2> QED BY <2>1 DEF OneAtATime
<1>2. ASSUME NEW r \in Run, CommitRun(r) PROVE OneAtATime'
  <2>1. Enqueue(JobOf(r, Entry, 0)) /\ JobOf(r, Entry, 0).run = r /\ runs[r] = "absent"
    BY <1>2 DEF CommitRun, JobOf, Base, Known
  <2>2. ASSUME NEW q \in QId, Live(q)'
        PROVE  \/ Live(q) /\ queue'[q].job = queue[q].job /\ queue[q].job.run # r
               \/ q = nextId /\ queue'[q].job.run = r
    <3>1. CASE Live(q)
      BY <1>0, <2>1, <3>1, LiveRows, UsedRowsStay DEF Base, Known
    <3>2. CASE ~Live(q)
      BY <1>0, <2>1, <2>2, <3>2, LiveOrigin, InsertRows, EntryJob
    <3> QED BY <3>1, <3>2
  <2> QED BY <2>2 DEF OneAtATime
<1>3. ASSUME NEW t \in Task, EnqueueLoop(t) PROVE OneAtATime'
  <2> DEFINE j == [JobAt(t) EXCEPT !.iter = @ + 1]
  <2>1. tasks[t].pc = "loop" /\ tasks[t].job \in Job /\ Enqueue(j) /\ tasks'[t].pc = "idle"
    BY <1>0, <1>3 DEF EnqueueLoop, At, Leave, Idle, TypeOK
  <2>2. j.run = RunAt(t) /\ j \in Job
    BY <1>0, <2>1, DagAssumption DEF RunAt, JobAt, Job, LoopsBounded, At, Iteration
  <2> HIDE DEF j
  <2> QED BY <2>1, <2>2, ReplacesRow DEF AfterResult
<1>4. ASSUME NEW t \in Task, EnqueueSuccessor(t) PROVE OneAtATime'
  <2>1. PICK e \in tasks[t].todo :
          /\ Enqueue(JobOf(RunAt(t), e.to, 0))
          /\ IF tasks[t].todo = {e} THEN Leave(t)
             ELSE tasks' = [tasks EXCEPT ![t].todo = @ \ {e}]
    BY <1>4 DEF EnqueueSuccessor
  <2>2. tasks[t].pc = "enqueue" /\ tasks[t].job \in Job /\ tasks[t].todo \subseteq Edges
    BY <1>0, <1>4 DEF EnqueueSuccessor, At, TypeOK, TaskState
  <2>3. tasks[t].todo = {e}
    BY <2>1, <2>2 DEF IsChain, Base, Placed, OutEdges
  <2>4. tasks'[t].pc = "idle"
    BY <1>0, <2>1, <2>3 DEF Leave, Idle
  <2>5. JobOf(RunAt(t), e.to, 0) \in Job /\ JobOf(RunAt(t), e.to, 0).run = RunAt(t)
    BY <2>1, <2>2, DagAssumption DEF RunAt, JobOf, Job, Iteration
  <2> QED BY <2>1, <2>2, <2>4, <2>5, ReplacesRow DEF AfterResult
<1> QED BY <1>1, <1>2, <1>3, <1>4 DEF Inserts

\* A chain has one live row to a run, always.
LEMMA ChainInvariant ==
  ASSUME MaxLate = 0, IsChain PROVE Spec => [](Base /\ OneAtATime)
<1>1. Init => OneAtATime
  BY DEF Init, OneAtATime, Live, Q!Present, Idle
<1> QED BY <1>1, OneAtATimeStep, BaseInvariant, PTL DEF Spec

\* So two coroutines never work for one run.
LEMMA SoleTask ==
  ASSUME Base, OneAtATime, NEW t \in Task, NEW u \in Task,
         tasks[t].pc # "idle", tasks[u].pc # "idle", RunAt(t) = RunAt(u)
  PROVE  t = u
<1>1. /\ tasks[t].row \in QId /\ tasks[u].row \in QId
      /\ queue[tasks[t].row].job.run = queue[tasks[u].row].job.run
  BY DEF Base, TypeOK, Placed, RunAt
<1>2. tasks[t].row = tasks[u].row
  BY <1>1 DEF OneAtATime, Live
<1> QED BY <1>2 DEF Base, QueueInv, Lease, Placed

\* The first run.finished of a run is the one its subscribers get.
LEMMA FirstEvent ==
  ASSUME TypeOK, [Next]_vars, NEW r \in Run, announced'[r] # announced[r]
  PROVE  /\ announced[r] = "none"
         /\ \/ CancelAnnounce(r) /\ announced'[r] = "cancelled"
            \/ \E t \in Task : /\ Announce(t) /\ RunAt(t) = r
                               /\ announced'[r] = tasks[t].verdict
<1>0. announced \in [Run -> Terminal \cup {"none"}]
  BY DEF TypeOK
<1>1. CASE \E q \in Run : CancelAnnounce(q)
  <2>1. PICK q \in Run : CancelAnnounce(q)
    BY <1>1
  <2> QED BY <1>0, <2>1 DEF CancelAnnounce, Publish
<1>2. CASE \E t \in Task : Announce(t)
  <2>1. PICK t \in Task : Announce(t)
    BY <1>2
  <2> QED BY <1>0, <2>1 DEF Announce, Publish
<1>3. CASE ~((\E q \in Run : CancelAnnounce(q)) \/ (\E t \in Task : Announce(t)))
  BY <1>3 DEF Next, vars, Admin, IssueKey, CommitRun, Cancel, CancelPurge, Claim, Expire, KeyExpires,
     Sweep, JobError, Crash, Terminate, Drained, Restart, Unchanged_ButTasksModeFaults,
     JobStep, FetchContext, DropRow, ResolveAgent, ReadKey, MarkNode, MarkRun, RunAgent,
     Finalize, EnqueueLoop, Advance, EnqueueSuccessor, FinishRun, Revoke, Purge
<1> QED BY <1>1, <1>2, <1>3

\* Once a worker's verdict is announced, the run has that status and nothing is
\* left of it but a coroutine about to delete its key; a coroutine about to
\* announce has the run's status as its verdict.
Told ==
    /\ \A r \in Run : announced[r] \in {"succeeded", "failed"} =>
          /\ runs[r] = announced[r]
          /\ \A t \in Task : tasks[t].pc # "idle" /\ RunAt(t) = r => tasks[t].pc = "purge"
          /\ \A q \in QId : Q!Present(q) => queue[q].job.run # r
    /\ \A t \in Task : tasks[t].pc \in {"revoke", "announce"} =>
          runs[RunAt(t)] = tasks[t].verdict

\* In a chain the status of an ended run is changed by no second job.
LEMMA VerdictStays ==
  ASSUME Base, OneAtATime, Told, [Next]_vars, NEW t \in Task,
         tasks'[t].pc \in {"revoke", "announce"}
  PROVE  runs'[tasks'[t].job.run] = tasks'[t].verdict
<1>0. tasks \in [Task -> TaskState] /\ TypeOK /\ LoopsBounded /\ tasks'[t].pc # "idle"
  BY DEF Base, TypeOK
<1>1. tasks[t].pc # "idle" /\ tasks'[t].job = tasks[t].job /\ RunAt(t) \in Run
  BY <1>0, TaskRows DEF TypeOK, RunAt, Job
<1>2. CASE FinishRun(t)
  BY <1>0, <1>1, <1>2 DEF FinishRun, Goto, RunAt, TaskState, TypeOK
<1>3. CASE ~FinishRun(t)
  <2>1. /\ tasks[t].pc \in {"revoke", "announce"}
        /\ tasks'[t].verdict = tasks[t].verdict
    <3>1. CASE tasks'[t] = tasks[t]
      BY <3>1
    <3>2. CASE JobStep(t)
      <4>1. tasks[t].pc \in AfterResult \cup {"finalize"}
        BY <1>0, <3>2, EarlySteps DEF AfterResult
      <4>2. \/ Finalize(t) \/ EnqueueLoop(t) \/ Advance(t) \/ EnqueueSuccessor(t)
            \/ Revoke(t) \/ Announce(t) \/ Purge(t)
        BY <1>3, <3>2, <4>1 DEF AfterResult, JobStep, At, FetchContext, DropRow, ResolveAgent,
           ReadKey, MarkNode, MarkRun, RunAgent
      <4>3. ~(Announce(t) \/ Purge(t) \/ Finalize(t) \/ EnqueueLoop(t))
        BY <1>0 DEF Announce, Purge, Finalize, EnqueueLoop, Goto, Leave, Idle, TaskState
      <4>4. ~Advance(t)
        <5>1. \A ready : tasks' # [tasks EXCEPT ![t].pc = "enqueue", ![t].todo = ready]
          BY <1>0 DEF TaskState
        <5> QED BY <1>0, <5>1 DEF Advance, Goto, Leave, Idle, TaskState
      <4>5. ~EnqueueSuccessor(t)
        BY <1>0 DEF EnqueueSuccessor, At, Leave, Idle, TaskState
      <4> QED BY <1>0, <4>2, <4>3, <4>4, <4>5 DEF Revoke, At, Goto, TaskState
    <3> QED BY <1>0, <1>1, <3>1, <3>2, OwnSteps
  <2>2. runs[RunAt(t)] = tasks[t].verdict /\ runs[RunAt(t)] \in {"succeeded", "failed"}
    BY <1>0, <2>1 DEF Told, TaskState
  <2>3. runs'[RunAt(t)] = runs[RunAt(t)]
    <3>1. ~CommitRun(RunAt(t))
      BY <1>1, <2>2 DEF CommitRun, Base, Known
    <3>2. \A u \in Task : FinishRun(u) => RunAt(u) # RunAt(t)
      BY <1>1, <1>3, SoleTask DEF FinishRun, At
    <3> QED BY <1>0, <1>1, <2>2, <3>1, <3>2, RunChange
  <2> QED BY <1>1, <2>1, <2>2, <2>3 DEF RunAt
<1> QED BY <1>2, <1>3

\* Of the run there is nothing left but what follows its end.
Over(r) ==
    /\ \A t \in Task : tasks[t].pc # "idle" /\ tasks[t].job.run = r =>
          tasks[t].pc \in {"revoke", "announce", "purge"}
    /\ \A q \in QId : Q!Present(q) => queue[q].job.run # r

\* Nothing comes after that, and the verdict stands.
LEMMA NothingFollows ==
  ASSUME Base, [Next]_vars, NEW r \in Run, runs[r] \in {"succeeded", "failed"}, Over(r)
  PROVE  runs'[r] = runs[r] /\ Over(r)'
<1>0. tasks \in [Task -> TaskState] /\ TypeOK /\ LoopsBounded /\ QueueInv
  BY DEF Base, TypeOK
<1>1. /\ \A t \in Task : tasks[t].pc # "idle" /\ tasks[t].job.run = r =>
            tasks[t].pc \in {"revoke", "announce", "purge"}
      /\ \A q \in QId : Q!Present(q) => queue[q].job.run # r
  BY DEF Over
<1>2. ~CommitRun(r)
  BY DEF CommitRun, Base, Known
<1>3. runs'[r] = runs[r]
  <2>1. \A u \in Task : FinishRun(u) => RunAt(u) # r
    BY <1>1 DEF FinishRun, At, RunAt
  <2> QED BY <1>0, <1>2, <2>1, RunChange
<1>4. ASSUME NEW t \in Task, tasks'[t].pc # "idle", tasks'[t].job.run = r
      PROVE  tasks'[t].pc \in {"revoke", "announce", "purge"}
  <2>1. tasks[t].pc # "idle" /\ tasks'[t].job = tasks[t].job
    BY <1>0, <1>1, <1>4, TaskRows DEF Q!Present
  <2>2. tasks[t].pc \in {"revoke", "announce", "purge"}
    BY <1>1, <1>4, <2>1
  <2>3. CASE JobStep(t)
    <3>1. Purge(t) => tasks'[t].pc = "idle"
      BY <1>0 DEF Purge, Leave, Idle
    <3> QED BY <1>0, <1>4, <2>2, <2>3, <3>1, LastSteps
  <2> QED BY <1>0, <1>4, <2>1, <2>2, <2>3, OwnSteps
<1>5. ASSUME NEW q \in QId, Q!Present(q)' PROVE queue'[q].job.run # r
  <2>1. CASE Q!Present(q)
    BY <1>0, <1>1, <2>1, UsedRowsStay DEF Q!Present
  <2>2. CASE ~Q!Present(q)
    <3>1. Inserts
      BY <1>0, <1>5, <2>2, QuietRows
    <3>2. CASE \E p \in Run : CommitRun(p)
      <4>1. PICK p \in Run : CommitRun(p)
        BY <3>2
      <4>2. Enqueue(JobOf(p, Entry, 0)) /\ p # r /\ JobOf(p, Entry, 0).run = p
        BY <1>2, <4>1 DEF CommitRun, JobOf
      <4> QED BY <1>0, <1>5, <2>2, <4>2, EntryJob, InsertRows
    <3>3. CASE \E t \in Task : EnqueueLoop(t)
      <4>1. PICK t \in Task : EnqueueLoop(t)
        BY <3>3
      <4> DEFINE j == [JobAt(t) EXCEPT !.iter = @ + 1]
      <4>2. tasks[t].pc = "loop" /\ tasks[t].job \in Job /\ Enqueue(j)
        BY <1>0, <4>1 DEF EnqueueLoop, At, TypeOK
      <4>3. j.run # r /\ j \in Job
        BY <1>0, <1>1, <4>2, DagAssumption DEF JobAt, Job, LoopsBounded, At, Iteration
      <4> HIDE DEF j
      <4> QED BY <1>0, <1>5, <2>2, <4>2, <4>3, InsertRows
    <3>4. CASE \E t \in Task : EnqueueSuccessor(t)
      <4>1. PICK t \in Task : EnqueueSuccessor(t)
        BY <3>4
      <4>2. PICK e \in tasks[t].todo : Enqueue(JobOf(RunAt(t), e.to, 0))
        BY <4>1 DEF EnqueueSuccessor
      <4>3. /\ tasks[t].pc = "enqueue" /\ tasks[t].job \in Job
            /\ tasks[t].todo \subseteq Edges
        BY <1>0, <4>1 DEF EnqueueSuccessor, At, TypeOK, TaskState
      <4>4. /\ JobOf(RunAt(t), e.to, 0) \in Job
            /\ JobOf(RunAt(t), e.to, 0).run # r
        BY <1>1, <4>2, <4>3, DagAssumption DEF RunAt, JobOf, Job, Iteration
      <4> QED BY <1>0, <1>5, <2>2, <4>2, <4>4, InsertRows
    <3> QED BY <3>1, <3>2, <3>3, <3>4 DEF Inserts
  <2> QED BY <2>1, <2>2
<1> QED BY <1>3, <1>4, <1>5 DEF Over

\* What was announced stays what the run ended with, and nothing follows it.
LEMMA ToldStays ==
  ASSUME Base, OneAtATime, Told, [Next]_vars, NEW r \in Run,
         announced[r] \in {"succeeded", "failed"}
  PROVE  /\ runs'[r] = announced[r]
         /\ \A t \in Task : tasks'[t].pc # "idle" /\ tasks'[t].job.run = r => tasks'[t].pc = "purge"
         /\ \A q \in QId : Q!Present(q)' => queue'[q].job.run # r
<1>0. tasks \in [Task -> TaskState] /\ TypeOK /\ LoopsBounded /\ QueueInv
  BY DEF Base, TypeOK
<1>1. /\ runs[r] = announced[r]
      /\ \A t \in Task : tasks[t].pc # "idle" /\ tasks[t].job.run = r => tasks[t].pc = "purge"
      /\ \A q \in QId : Q!Present(q) => queue[q].job.run # r
  BY DEF Told, RunAt
<1>2. /\ runs'[r] = runs[r]
      /\ \A q \in QId : Q!Present(q)' => queue'[q].job.run # r
  <2>1. runs'[r] = runs[r] /\ Over(r)'
    BY <1>1, NothingFollows DEF Over
  <2> QED BY <2>1 DEF Over
<1>4. ASSUME NEW t \in Task, tasks'[t].pc # "idle", tasks'[t].job.run = r
      PROVE  tasks'[t].pc = "purge"
  <2>1. tasks[t].pc # "idle" /\ tasks'[t].job = tasks[t].job
    BY <1>0, <1>1, <1>4, TaskRows DEF Q!Present
  <2>2. ~JobStep(t)
    <3>1. tasks[t].pc = "purge"
      BY <1>1, <1>4, <2>1
    <3>2. JobStep(t) => Purge(t)
      BY <1>0, <3>1, LastSteps
    <3> QED BY <1>0, <1>4, <3>2 DEF Purge, Leave, Idle
  <2> QED BY <1>0, <1>1, <1>4, <2>1, <2>2, OwnSteps
<1> QED BY <1>1, <1>2, <1>4

\* Announcing the verdict of the only job of a run establishes it.
LEMMA ToldStep ==
  ASSUME Base, OneAtATime, Told, [Next]_vars PROVE Told'
<1>0. tasks \in [Task -> TaskState] /\ TypeOK /\ LoopsBounded
  BY DEF Base, TypeOK
<1>1. ASSUME NEW r \in Run, announced'[r] \in {"succeeded", "failed"}
      PROVE  /\ runs'[r] = announced'[r]
             /\ \A t \in Task : tasks'[t].pc # "idle" /\ tasks'[t].job.run = r => tasks'[t].pc = "purge"
             /\ \A q \in QId : Q!Present(q)' => queue'[q].job.run # r
  <2>1. CASE announced'[r] = announced[r]
    BY <1>1, <2>1, ToldStays
  <2>2. CASE announced'[r] # announced[r]
    <3>1. PICK t \in Task : Announce(t) /\ RunAt(t) = r /\ announced'[r] = tasks[t].verdict
      BY <1>0, <1>1, <2>2, FirstEvent
    <3>2. /\ tasks[t].pc = "announce" /\ UNCHANGED <<runs, queue>>
          /\ tasks'[t].pc = "purge" /\ tasks'[t].job = tasks[t].job
          /\ \A u \in Task : u # t => tasks'[u] = tasks[u]
      BY <1>0, <3>1 DEF Announce, At, Goto, TaskState, Unchanged_DB
    <3>3. runs'[r] = announced'[r]
      BY <3>1, <3>2 DEF Told
    <3>4. ASSUME NEW u \in Task, tasks'[u].pc # "idle", tasks'[u].job.run = r
          PROVE  tasks'[u].pc = "purge"
      <4>1. u # t => RunAt(u) = RunAt(t) /\ tasks[u].pc # "idle"
        BY <3>1, <3>2, <3>4 DEF RunAt
      <4> QED BY <3>2, <4>1, SoleTask
    <3>5. ASSUME NEW q \in QId, Q!Present(q)' PROVE queue'[q].job.run # r
      <4>1. /\ tasks[t].row \in QId /\ queue[tasks[t].row].st = "deleted"
            /\ queue[tasks[t].row].job.run = r
        BY <1>0, <3>1, <3>2 DEF Base, Placed, AfterResult, TypeOK, RunAt
      <4>2. Q!Present(q) /\ queue' = queue
        BY <3>2, <3>5 DEF Q!Present
      <4> QED BY <3>2, <4>1, <4>2 DEF OneAtATime, Live, Q!Present
    <3> QED BY <3>3, <3>4, <3>5
  <2> QED BY <2>1, <2>2
<1>2. \A t \in Task : tasks'[t].pc \in {"revoke", "announce"} =>
         runs'[tasks'[t].job.run] = tasks'[t].verdict
  BY VerdictStays
<1> QED BY <1>1, <1>2 DEF Told, RunAt

\* Subscribers are told the truth, or that the run was cancelled.
LEMMA FinalStep ==
  ASSUME ~RedisMayFail, FaultPoints \cap {"revoke", "announce"} = {},
         Base, Told, AnnouncedIsFinal, [Next]_vars
  PROVE  AnnouncedIsFinal'
<1> SUFFICES ASSUME NEW r \in Run, runs'[r] \in Terminal
             PROVE  \/ announced'[r] \in {runs'[r], "cancelled"}
                    \/ admin'[r] = "announce"
                    \/ \E t \in Task : /\ tasks'[t].pc \in {"revoke", "announce"}
                                       /\ tasks'[t].job.run = r
  BY DEF AnnouncedIsFinal, RunAt
<1>0. tasks \in [Task -> TaskState] /\ TypeOK /\ LoopsBounded
  BY DEF Base, TypeOK
<1>1. ~CommitRun(r)
  BY <1>0 DEF CommitRun, TypeOK, Terminal
<1>2. ASSUME NEW t \in Task, FinishRun(t), RunAt(t) = r
      PROVE  tasks'[t].pc = "revoke" /\ tasks'[t].job.run = r
  BY <1>0, <1>2 DEF FinishRun, Goto, RunAt, TaskState
<1>3. CASE Cancel(r)
  BY <1>0, <1>3 DEF Cancel, TypeOK
<1>4. CASE ~Cancel(r) /\ runs'[r] # runs[r]
  BY <1>0, <1>1, <1>2, <1>4, RunChange DEF Terminal
<1>5. CASE ~Cancel(r) /\ runs'[r] = runs[r]
  <2>0. announced \in [Run -> Terminal \cup {"none"}]
    BY <1>0 DEF TypeOK
  <2>1. ASSUME announced[r] # "none" PROVE announced'[r] \in {runs'[r], "cancelled"}
    BY <1>0, <1>5, <2>0, <2>1, FirstEvent DEF Told, Terminal
  <2>2. CASE announced[r] = "none" /\ admin[r] = "announce"
    <3>1. CASE CancelAnnounce(r)
      BY <2>0, <2>2, <3>1 DEF CancelAnnounce, Publish
    <3>2. CASE ~CancelAnnounce(r)
      BY <1>0, <1>1, <1>5, <2>2, <3>2, HandlerMoves DEF Admin, IssueKey, CancelPurge
    <3> QED BY <3>1, <3>2
  <2>3. ASSUME NEW t \in Task, announced[r] = "none",
               tasks[t].pc \in {"revoke", "announce"}, RunAt(t) = r
        PROVE  \/ announced'[r] = runs'[r]
               \/ tasks'[t].pc \in {"revoke", "announce"} /\ tasks'[t].job.run = r
    <3>1. tasks'[t] = tasks[t] \/ JobStep(t)
      BY <1>0, <2>3, Undisturbed
    <3>2. CASE Announce(t)
      BY <1>5, <2>0, <2>3, <3>2 DEF Announce, Publish, Told
    <3>3. CASE Revoke(t)
      BY <1>0, <2>3, <3>3 DEF Revoke, Goto, RunAt, TaskState
    <3> QED BY <1>0, <2>3, <3>1, <3>2, <3>3, LastSteps DEF RunAt
  <2>4. runs[r] \in Terminal /\ runs[r] \notin {"none"}
    BY <1>5 DEF Terminal
  <2> QED BY <1>5, <2>1, <2>2, <2>3, <2>4 DEF AnnouncedIsFinal, At, Terminal
<1> QED BY <1>3, <1>4, <1>5

\* In a version that is a chain, with a Redis that answers and no fault after
\* the run's status is written, subscribers are told the status the run ended
\* with, or that it was cancelled: the one coroutine that can end the run
\* announces what it wrote.  A fork makes it false, for one branch may end the
\* run before the other fails.
THEOREM AnnouncementsAreFinal ==
  ASSUME IsChain, MaxLate = 0, ~RedisMayFail, FaultPoints \cap {"revoke", "announce"} = {}
  PROVE  Spec => []AnnouncedIsFinal
<1>1. Init => Told /\ AnnouncedIsFinal
  BY DEF Init, Told, AnnouncedIsFinal, Terminal, Idle
<1>2. Base /\ OneAtATime /\ Told /\ AnnouncedIsFinal /\ [Next]_vars => (Told /\ AnnouncedIsFinal)'
  BY ToldStep, FinalStep
<1> QED BY <1>1, <1>2, ChainInvariant, PTL DEF Spec

\* In a chain a run that ended with a verdict is over.
Ended == \A r \in Run : runs[r] \in {"succeeded", "failed"} => Over(r)

\* The verdict on a run is given by the only job of it there is.
LEMMA EndedStep ==
  ASSUME Base, OneAtATime, Ended, [Next]_vars PROVE Ended'
<1> SUFFICES ASSUME NEW r \in Run, runs'[r] \in {"succeeded", "failed"} PROVE Over(r)'
  BY DEF Ended
<1>0. tasks \in [Task -> TaskState] /\ TypeOK /\ LoopsBounded
  BY DEF Base, TypeOK
<1>1. CASE runs[r] \in {"succeeded", "failed"}
  BY <1>1, NothingFollows DEF Ended
<1>2. CASE runs[r] \notin {"succeeded", "failed"}
  <2>1. PICK t \in Task : FinishRun(t) /\ RunAt(t) = r
    BY <1>0, <1>2, RunChange
  <2>2. /\ tasks[t].pc = "finishRun" /\ UNCHANGED queue
        /\ tasks'[t].pc = "revoke" /\ \A u \in Task : u # t => tasks'[u] = tasks[u]
    BY <1>0, <2>1 DEF FinishRun, At, Goto, TaskState
  <2>3. ASSUME NEW u \in Task, tasks'[u].pc # "idle", tasks'[u].job.run = r
        PROVE  tasks'[u].pc \in {"revoke", "announce", "purge"}
    <3>1. u # t => RunAt(u) = RunAt(t) /\ tasks[u].pc # "idle"
      BY <2>1, <2>2, <2>3 DEF RunAt
    <3> QED BY <2>2, <3>1, SoleTask
  <2>4. ASSUME NEW q \in QId, Q!Present(q)' PROVE queue'[q].job.run # r
    <3>1. /\ tasks[t].row \in QId /\ queue[tasks[t].row].st = "deleted"
          /\ queue[tasks[t].row].job.run = r
      BY <1>0, <2>1, <2>2 DEF Base, Placed, AfterResult, TypeOK, RunAt
    <3>2. Q!Present(q) /\ queue' = queue
      BY <2>2, <2>4 DEF Q!Present
    <3> QED BY <2>2, <3>1, <3>2 DEF OneAtATime, Live, Q!Present
  <2> QED BY <2>3, <2>4 DEF Over
<1> QED BY <1>1, <1>2

\* In a chain a run that has ended with a verdict is over, always.
LEMMA EndedInvariant ==
  ASSUME IsChain, MaxLate = 0 PROVE Spec => [](Base /\ OneAtATime /\ Ended)
<1>1. Init => Ended
  BY DEF Init, Ended
<1> QED BY <1>1, EndedStep, ChainInvariant, PTL DEF Spec

\* Only the status of a cancelled run is ever overwritten.
VerdictStands ==
    [][\A r \in Run : runs[r] \in {"succeeded", "failed"} => runs'[r] = runs[r]]_runs

\* In a version that is a chain, whatever faults strike, the verdict of a worker
\* stands: a status that _mark_run_finished overwrites was put there by
\* cancel_run.  A fork makes it false, for its branches end the run one after the
\* other; so does a job that runs twice because its lease ran out.
THEOREM VerdictsStand == ASSUME IsChain, MaxLate = 0 PROVE Spec => VerdictStands
<1>1. ASSUME Base, Ended, [Next]_vars
      PROVE  [\A r \in Run : runs[r] \in {"succeeded", "failed"} => runs'[r] = runs[r]]_runs
  BY <1>1, NothingFollows DEF Ended
<1> QED BY <1>1, EndedInvariant, PTL DEF Spec, VerdictStands

\* Where moreover nobody cancels, the status a run ended with stands: cancel_run,
\* whose status _mark_run_finished overwrites, is the only way for it to change.
THEOREM OutcomesAreFinal ==
  ASSUME IsChain, MaxLate = 0, Cancellable = {} PROVE Spec => OutcomeFinal
<1> DEFINE Uncancelled == \A r \in Run : runs[r] # "cancelled"
<1>1. Init => Uncancelled
  BY DEF Init
<1>2. Base /\ Uncancelled /\ [Next]_vars => Uncancelled'
  <2> SUFFICES ASSUME Base, Uncancelled, [Next]_vars, NEW r \in Run PROVE runs'[r] # "cancelled"
    OBVIOUS
  <2>1. ~Cancel(r)
    BY DEF Cancel
  <2> QED BY <2>1, RunChange DEF Base
<1>3. ASSUME Base, Ended, Uncancelled, [Next]_vars
      PROVE  [\A r \in Run : runs[r] \in Terminal => runs'[r] = runs[r]]_runs
  BY <1>3, NothingFollows DEF Ended, Terminal
<1> HIDE DEF Uncancelled
<1> QED BY <1>1, <1>2, <1>3, EndedInvariant, PTL DEF Spec, OutcomeFinal

---------------------------------------------------------------------------
(* Versions in which no node has two edges into it, and the entry none.    *)

IsTree == /\ \A e, f \in Edges : e.to = f.to => e = f
          /\ \A e \in Edges : e.to # Entry

\* Later iterations of a node follow the first, and a node its predecessor.
RowsFollow ==
    /\ \A j \in Job : nodes[j] # "absent" => nodes[JobOf(j.run, j.node, 0)] # "absent"
    /\ \A r \in Run, e \in Edges :
          nodes[JobOf(r, e.to, 0)] # "absent" => nodes[JobOf(r, e.from, 0)] # "absent"

\* A node has at most one row that is in the table or worked on.
OneRow ==
    \A p, q \in QId :
        /\ Live(p) /\ Live(q)
        /\ queue[p].job.run = queue[q].job.run
        /\ queue[p].job.node = queue[q].job.node
        => p = q

\* Once an edge has been followed, its node is over, but for a coroutine that
\* goes on along the other edges.
Handed ==
    \A r \in Run, e \in Edges : nodes[JobOf(r, e.to, 0)] # "absent" =>
        /\ \A q \in QId : Q!Present(q) =>
              ~(queue[q].job.run = r /\ queue[q].job.node = e.from)
        /\ \A t \in Task :
              tasks[t].pc # "idle" /\ tasks[t].job.run = r /\ tasks[t].job.node = e.from =>
                 tasks[t].pc = "enqueue" /\ e \notin tasks[t].todo

TreeInv == RowsFollow /\ OneRow /\ Handed

\* Which rows of run_nodes there are after an insertion.
LEMMA InsertedNodes ==
  ASSUME TypeOK, NEW j \in Job, Enqueue(j)
  PROVE  \A k \in Job : nodes'[k] # "absent" <=> nodes[k] # "absent" \/ k = j
  BY DEF TypeOK, Enqueue

\* The first job of either end of an edge.
LEMMA EdgeJobs ==
  \A r \in Run, e \in Edges : JobOf(r, e.to, 0) \in Job /\ JobOf(r, e.from, 0) \in Job
  BY DagAssumption DEF JobOf, Job, Iteration

\* A row for a node that has no live row after the step but this one.
LEMMA OneRowInsert ==
  ASSUME Base, OneRow, [Next]_vars, NEW j \in Job, Enqueue(j),
         \A q \in QId : Live(q) /\ Live(q)' =>
            ~(queue[q].job.run = j.run /\ queue[q].job.node = j.node)
  PROVE  OneRow'
<1>1. ASSUME NEW q \in QId, Live(q)'
      PROVE  \/ /\ Live(q) /\ queue'[q].job = queue[q].job
                /\ ~(queue[q].job.run = j.run /\ queue[q].job.node = j.node)
             \/ q = nextId /\ queue'[q].job = j
  <2>1. CASE Live(q)
    BY <1>1, <2>1, LiveRows, UsedRowsStay DEF Base
  <2>2. CASE ~Live(q)
    BY <1>1, <2>2, LiveOrigin, InsertRows DEF Base
  <2> QED BY <2>1, <2>2
<1> QED BY <1>1 DEF OneRow

\* A step that inserts nothing.
LEMMA TreeQuiet ==
  ASSUME Base, TreeInv, [Next]_vars, ~Inserts PROVE TreeInv'
<1>0. TypeOK /\ LoopsBounded /\ QueueInv
  BY DEF Base
<1>1. \A j \in Job : nodes'[j] # "absent" <=> nodes[j] # "absent"
  BY <1>0, QuietRows, NodesStay
<1>2. RowsFollow'
  <2>1. \A j \in Job : JobOf(j.run, j.node, 0) \in Job
    BY DagAssumption DEF JobOf, Job, Iteration
  <2> QED BY <1>1, <2>1, EdgeJobs DEF TreeInv, RowsFollow
<1>3. OneRow'
  <2>1. \A q \in QId : Live(q)' => Live(q) /\ queue'[q].job = queue[q].job
    BY <1>0, LiveOrigin, LiveRows, UsedRowsStay
  <2> QED BY <2>1 DEF TreeInv, OneRow
<1>4. ASSUME NEW r \in Run, NEW e \in Edges, nodes'[JobOf(r, e.to, 0)] # "absent"
      PROVE  /\ \A q \in QId : Q!Present(q)' =>
                   ~(queue'[q].job.run = r /\ queue'[q].job.node = e.from)
             /\ \A t \in Task :
                   tasks'[t].pc # "idle" /\ tasks'[t].job.run = r /\ tasks'[t].job.node = e.from =>
                      tasks'[t].pc = "enqueue" /\ e \notin tasks'[t].todo
  <2>1. nodes[JobOf(r, e.to, 0)] # "absent"
    BY <1>1, <1>4, EdgeJobs
  <2>2. \A q \in QId : Q!Present(q) => ~(queue[q].job.run = r /\ queue[q].job.node = e.from)
    BY <2>1 DEF TreeInv, Handed
  <2>3. ASSUME NEW q \in QId, Q!Present(q)'
        PROVE  ~(queue'[q].job.run = r /\ queue'[q].job.node = e.from)
    BY <1>0, <2>2, <2>3, QuietRows, UsedRowsStay DEF Q!Present
  <2>4. ASSUME NEW t \in Task,
               tasks'[t].pc # "idle", tasks'[t].job.run = r, tasks'[t].job.node = e.from
        PROVE  tasks'[t].pc = "enqueue" /\ e \notin tasks'[t].todo
    <3>1. tasks[t].pc # "idle" /\ tasks'[t].job = tasks[t].job
      BY <1>0, <2>2, <2>4, TaskRows DEF Q!Present
    <3>2. tasks[t].pc = "enqueue" /\ e \notin tasks[t].todo
      BY <2>1, <2>4, <3>1 DEF TreeInv, Handed
    <3>3. ~JobStep(t)
      BY <3>2 DEF Inserts, JobStep, At, FetchContext, DropRow, ResolveAgent, ReadKey, MarkNode,
         MarkRun, RunAgent, Finalize, EnqueueLoop, Advance, FinishRun, Revoke, Announce, Purge
    <3> QED BY <1>0, <2>4, <3>1, <3>2, <3>3, OwnSteps
  <2> QED BY <2>3, <2>4
<1> QED BY <1>2, <1>3, <1>4 DEF TreeInv, Handed

\* Submitting a run starts its tree.
LEMMA TreeCommit ==
  ASSUME IsTree, Base, TreeInv, [Next]_vars, NEW r \in Run, CommitRun(r) PROVE TreeInv'
<1>0. TypeOK /\ LoopsBounded /\ QueueInv
  BY DEF Base
<1> DEFINE j == JobOf(r, Entry, 0)
<1>1. /\ j \in Job /\ j.run = r /\ j.node = Entry /\ j.iter = 0
      /\ Enqueue(j) /\ UNCHANGED tasks
  BY EntryJob DEF CommitRun, JobOf
<1>2. \A k \in Job : k.run = r => nodes[k] = "absent"
  BY DEF CommitRun, Base, Known
<1>3. \A k \in Job : nodes'[k] # "absent" <=> nodes[k] # "absent" \/ k = j
  BY <1>0, <1>1, InsertedNodes
<1>4. \A e \in Edges : \A s \in Run : nodes'[JobOf(s, e.to, 0)] # "absent" <=>
                                      nodes[JobOf(s, e.to, 0)] # "absent"
  BY <1>3, EdgeJobs DEF IsTree, JobOf
<1>5. RowsFollow'
  <2>1. \A k \in Job : JobOf(k.run, k.node, 0) \in Job
    BY DagAssumption DEF JobOf, Job, Iteration
  <2>2. JobOf(j.run, j.node, 0) = j
    BY DEF JobOf
  <2> HIDE DEF j
  <2> QED BY <1>3, <1>4, <2>1, <2>2, EdgeJobs DEF TreeInv, RowsFollow
<1>6. \A q \in QId : Live(q) => queue[q].job.run # r
  BY <1>2, LiveRows
<1>7. OneRow'
  <2> HIDE DEF j
  <2> QED BY <1>1, <1>6, OneRowInsert DEF TreeInv
<1>8. ASSUME NEW s \in Run, NEW e \in Edges, nodes'[JobOf(s, e.to, 0)] # "absent"
      PROVE  /\ \A q \in QId : Q!Present(q)' =>
                   ~(queue'[q].job.run = s /\ queue'[q].job.node = e.from)
             /\ \A t \in Task :
                   tasks'[t].pc # "idle" /\ tasks'[t].job.run = s /\ tasks'[t].job.node = e.from =>
                      tasks'[t].pc = "enqueue" /\ e \notin tasks'[t].todo
  <2> HIDE DEF j
  <2>1. nodes[JobOf(s, e.to, 0)] # "absent" /\ s # r
    <3>1. nodes[JobOf(s, e.to, 0)] # "absent"
      BY <1>4, <1>8
    <3>2. JobOf(s, e.to, 0).run = s
      BY DEF JobOf
    <3> QED BY <1>2, <3>1, <3>2, EdgeJobs
  <2>2. ASSUME NEW q \in QId, Q!Present(q)'
        PROVE  ~(queue'[q].job.run = s /\ queue'[q].job.node = e.from)
    <3>1. CASE Q!Present(q)
      BY <1>0, <2>1, <3>1, UsedRowsStay DEF TreeInv, Handed, Q!Present
    <3>2. CASE ~Q!Present(q)
      BY <1>0, <1>1, <2>1, <2>2, <3>2, InsertRows
    <3> QED BY <3>1, <3>2
  <2>3. \A t \in Task :
           tasks[t].pc # "idle" /\ tasks[t].job.run = s /\ tasks[t].job.node = e.from =>
              tasks[t].pc = "enqueue" /\ e \notin tasks[t].todo
    BY <2>1 DEF TreeInv, Handed
  <2> QED BY <1>1, <2>2, <2>3
<1> QED BY <1>5, <1>7, <1>8 DEF TreeInv, Handed

\* The next iteration of a node takes the place of the one before it.
LEMMA TreeLoop ==
  ASSUME IsTree, Base, TreeInv, [Next]_vars, NEW t \in Task, EnqueueLoop(t) PROVE TreeInv'
<1>0. TypeOK /\ LoopsBounded /\ QueueInv /\ tasks \in [Task -> TaskState]
  BY DEF Base, TypeOK
<1> DEFINE j == [JobAt(t) EXCEPT !.iter = @ + 1]
<1>1. /\ tasks[t].pc = "loop" /\ tasks[t].job \in Job /\ Enqueue(j)
      /\ tasks' = [tasks EXCEPT ![t] = Idle]
  BY <1>0 DEF EnqueueLoop, At, Leave, TypeOK
<1>2. /\ j \in Job /\ j.run = tasks[t].job.run /\ j.node = tasks[t].job.node
      /\ j.iter > 0 /\ j.run \in Run
  BY <1>0, <1>1, DagAssumption DEF JobAt, Job, LoopsBounded, At, Iteration
<1> HIDE DEF j
<1>3. \A k \in Job : nodes'[k] # "absent" <=> nodes[k] # "absent" \/ k = j
  BY <1>0, <1>1, <1>2, InsertedNodes
<1>4. \A r \in Run, n \in Node : nodes'[JobOf(r, n, 0)] # "absent" <=> nodes[JobOf(r, n, 0)] # "absent"
  <2>1. \A r \in Run, n \in Node : JobOf(r, n, 0) \in Job /\ JobOf(r, n, 0) # j
    BY <1>2, DagAssumption DEF JobOf, Job, Iteration
  <2> QED BY <1>3, <2>1
<1>5. \A k \in Job : k.run \in Run /\ k.node \in Node
  BY DEF Job
<1>6. RowsFollow'
  <2>1. nodes[JobOf(j.run, j.node, 0)] # "absent"
    BY <1>1, <1>2 DEF Base, Backed, TreeInv, RowsFollow
  <2>2. \A e \in Edges : e.to \in Node /\ e.from \in Node
    BY DagAssumption
  <2> QED BY <1>3, <1>4, <1>5, <2>1, <2>2 DEF TreeInv, RowsFollow
<1>7. OneRow'
  <2>1. PICK p \in QId : p = tasks[t].row /\ Live(p) /\ ~Live(p)'
    BY <1>0, <1>1, LeavingEnds DEF AfterResult, Idle
  <2>2. queue[p].job.run = j.run /\ queue[p].job.node = j.node
    BY <1>1, <1>2, <2>1 DEF Base, Placed
  <2> QED BY <1>1, <1>2, <2>1, <2>2, OneRowInsert DEF TreeInv, OneRow
<1>8. ASSUME NEW r \in Run, NEW e \in Edges, nodes'[JobOf(r, e.to, 0)] # "absent"
      PROVE  /\ \A q \in QId : Q!Present(q)' =>
                   ~(queue'[q].job.run = r /\ queue'[q].job.node = e.from)
             /\ \A u \in Task :
                   tasks'[u].pc # "idle" /\ tasks'[u].job.run = r /\ tasks'[u].job.node = e.from =>
                      tasks'[u].pc = "enqueue" /\ e \notin tasks'[u].todo
  <2>1. nodes[JobOf(r, e.to, 0)] # "absent"
    BY <1>4, <1>8, DagAssumption
  <2>2. ~(tasks[t].job.run = r /\ tasks[t].job.node = e.from)
    BY <1>1, <2>1 DEF TreeInv, Handed
  <2>3. ASSUME NEW q \in QId, Q!Present(q)'
        PROVE  ~(queue'[q].job.run = r /\ queue'[q].job.node = e.from)
    <3>1. CASE Q!Present(q)
      BY <1>0, <2>1, <3>1, UsedRowsStay DEF TreeInv, Handed, Q!Present
    <3>2. CASE ~Q!Present(q)
      BY <1>0, <1>1, <1>2, <2>2, <2>3, <3>2, InsertRows
    <3> QED BY <3>1, <3>2
  <2>4. \A u \in Task : tasks'[u].pc # "idle" => tasks'[u] = tasks[u]
    BY <1>0, <1>1 DEF Idle
  <2> QED BY <2>1, <2>3, <2>4 DEF TreeInv, Handed
<1> QED BY <1>6, <1>7, <1>8 DEF TreeInv, Handed

\* Following an edge ends the node it leaves and starts the node it enters.
LEMMA TreeSuccessor ==
  ASSUME IsTree, Base, TreeInv, [Next]_vars, NEW t \in Task, EnqueueSuccessor(t) PROVE TreeInv'
<1>0. TypeOK /\ LoopsBounded /\ QueueInv /\ tasks \in [Task -> TaskState]
  BY DEF Base, TypeOK
<1>1. /\ tasks[t].pc = "enqueue" /\ tasks[t].job \in Job /\ tasks[t].todo \subseteq Edges
      /\ tasks[t].row \in QId
  BY <1>0 DEF EnqueueSuccessor, At, TypeOK, TaskState
<1>2. PICK e \in tasks[t].todo :
        /\ Enqueue(JobOf(RunAt(t), e.to, 0))
        /\ IF tasks[t].todo = {e} THEN Leave(t)
           ELSE tasks' = [tasks EXCEPT ![t].todo = @ \ {e}]
  BY DEF EnqueueSuccessor
<1> DEFINE r == tasks[t].job.run
           j == JobOf(r, e.to, 0)
<1>3. /\ r \in Run /\ e \in Edges /\ e.from = tasks[t].job.node
      /\ e.to \in Node /\ e.from \in Node
      /\ j \in Job /\ Enqueue(j) /\ j.run = r /\ j.node = e.to
  BY <1>0, <1>1, <1>2, DagAssumption DEF RunAt, JobOf, Job, Iteration, Base, Placed, OutEdges
<1>4. nodes[JobOf(r, e.from, 0)] # "absent"
  BY <1>1, <1>3 DEF Base, Backed, TreeInv, RowsFollow
<1>5. \A k \in Job : k.run = r /\ k.node = e.to => nodes[k] = "absent"
  <2>1. nodes[j] = "absent"
    BY <1>1, <1>2, <1>3 DEF TreeInv, Handed
  <2> QED BY <2>1 DEF TreeInv, RowsFollow
<1>6. e.to # e.from
  BY <1>3, <1>4, <1>5
<1> HIDE DEF j
<1>7. \A k \in Job : nodes'[k] # "absent" <=> nodes[k] # "absent" \/ k = j
  BY <1>0, <1>3, InsertedNodes
<1>8. RowsFollow'
  <2>1. \A k \in Job : JobOf(k.run, k.node, 0) \in Job
    BY DagAssumption DEF JobOf, Job, Iteration
  <2>2. JobOf(j.run, j.node, 0) = j
    BY <1>3 DEF JobOf, j
  <2>3. ASSUME NEW s \in Run, NEW f \in Edges, JobOf(s, f.to, 0) = j PROVE s = r /\ f = e
    BY <1>3, <2>3 DEF IsTree, JobOf, j
  <2> QED BY <1>3, <1>4, <1>7, <2>1, <2>2, <2>3, EdgeJobs DEF TreeInv, RowsFollow
<1>9. OneRow'
  <2>1. \A q \in QId : Live(q) => ~(queue[q].job.run = j.run /\ queue[q].job.node = j.node)
    BY <1>3, <1>5, LiveRows
  <2> QED BY <1>3, <2>1, OneRowInsert DEF TreeInv
<1>10. \A u \in Task : \/ u # t /\ tasks'[u] = tasks[u]
                       \/ u = t /\ tasks'[u].pc = "idle"
                       \/ /\ u = t /\ tasks'[u].pc = "enqueue" /\ tasks'[u].job = tasks[u].job
                          /\ tasks'[u].todo = tasks[u].todo \ {e}
  BY <1>0, <1>1, <1>2 DEF Leave, Idle, TaskState
<1>11. ASSUME NEW s \in Run, NEW f \in Edges, nodes'[JobOf(s, f.to, 0)] # "absent"
       PROVE  /\ \A q \in QId : Q!Present(q)' =>
                    ~(queue'[q].job.run = s /\ queue'[q].job.node = f.from)
              /\ \A u \in Task :
                    tasks'[u].pc # "idle" /\ tasks'[u].job.run = s /\ tasks'[u].job.node = f.from =>
                       tasks'[u].pc = "enqueue" /\ f \notin tasks'[u].todo
  <2>1. CASE nodes[JobOf(s, f.to, 0)] # "absent"
    <3>1. ~(s = r /\ f.from = e.to)
      BY <1>3, <1>5, <2>1, EdgeJobs DEF TreeInv, RowsFollow, JobOf
    <3>2. ASSUME NEW q \in QId, Q!Present(q)'
          PROVE  ~(queue'[q].job.run = s /\ queue'[q].job.node = f.from)
      <4>1. CASE Q!Present(q)
        BY <1>0, <2>1, <4>1, UsedRowsStay DEF TreeInv, Handed, Q!Present
      <4>2. CASE ~Q!Present(q)
        BY <1>0, <1>3, <3>1, <3>2, <4>2, InsertRows
      <4> QED BY <4>1, <4>2
    <3>3. \A u \in Task :
             tasks[u].pc # "idle" /\ tasks[u].job.run = s /\ tasks[u].job.node = f.from =>
                tasks[u].pc = "enqueue" /\ f \notin tasks[u].todo
      BY <2>1 DEF TreeInv, Handed
    <3> QED BY <1>1, <1>10, <3>2, <3>3
  <2>2. CASE nodes[JobOf(s, f.to, 0)] = "absent"
    <3>1. s = r /\ f = e
      <4>1. JobOf(s, f.to, 0) = j
        BY <1>7, <1>11, <2>2, EdgeJobs
      <4> QED BY <1>3, <4>1 DEF IsTree, JobOf, j
    <3>2. /\ queue[tasks[t].row].st = "deleted" /\ queue[tasks[t].row].job = tasks[t].job
          /\ Live(tasks[t].row)
      BY <1>1 DEF Base, Placed, AfterResult, Live
    <3>3. ASSUME NEW q \in QId, Q!Present(q)'
          PROVE  ~(queue'[q].job.run = s /\ queue'[q].job.node = f.from)
      <4>1. CASE Q!Present(q)
        <5>1. queue'[q].job = queue[q].job
          BY <1>0, <4>1, UsedRowsStay DEF Q!Present
        <5>2. q # tasks[t].row
          BY <3>2, <4>1 DEF Q!Present
        <5> QED BY <1>1, <1>3, <3>1, <3>2, <4>1, <5>1, <5>2 DEF TreeInv, OneRow, Live
      <4>2. CASE ~Q!Present(q)
        BY <1>0, <1>3, <1>6, <3>1, <3>3, <4>2, InsertRows
      <4> QED BY <4>1, <4>2
    <3>4. ASSUME NEW u \in Task, tasks'[u].pc # "idle", tasks'[u].job.run = s,
                 tasks'[u].job.node = f.from
          PROVE  tasks'[u].pc = "enqueue" /\ f \notin tasks'[u].todo
      <4>1. u = t
        <5>1. /\ tasks[u].pc # "idle" /\ tasks[u].row \in QId
              /\ queue[tasks[u].row].job.run = r /\ queue[tasks[u].row].job.node = e.from
          BY <1>0, <1>1, <1>10, <3>1, <3>4 DEF Base, Placed, TypeOK
        <5>2. tasks[u].row = tasks[t].row
          BY <1>1, <1>3, <3>2, <5>1 DEF TreeInv, OneRow, Live
        <5> QED BY <1>1, <5>1, <5>2 DEF Base, QueueInv, Lease, Placed
      <4> QED BY <1>10, <3>1, <3>4, <4>1
    <3> QED BY <3>3, <3>4
  <2> QED BY <2>1, <2>2
<1> QED BY <1>8, <1>9, <1>11 DEF TreeInv, Handed

\* A tree is executed edge by edge, always.
LEMMA TreeInvariant ==
  ASSUME MaxLate = 0, IsTree PROVE Spec => [](Base /\ TreeInv)
<1>1. Init => TreeInv
  BY EdgeJobs DEF Init, TreeInv, RowsFollow, OneRow, Handed, Live, Q!Present, Idle
<1>2. Base /\ TreeInv /\ [Next]_vars => TreeInv'
  BY TreeQuiet, TreeCommit, TreeLoop, TreeSuccessor DEF Inserts
<1> QED BY <1>1, <1>2, BaseInvariant, PTL DEF Spec

\* With one live row to a node, coroutines that execute one job are the same.
LEMMA RowsApart ==
  ASSUME Base, OneRow PROVE NoDoubleProcessing
<1> SUFFICES ASSUME NEW t \in Task, NEW u \in Task,
                    tasks[t].pc = "run", tasks[u].pc = "run", tasks[t].job = tasks[u].job
             PROVE  t = u
  BY DEF NoDoubleProcessing, At, JobAt
<1>1. /\ tasks[t].row \in QId /\ tasks[u].row \in QId
      /\ queue[tasks[t].row].job = queue[tasks[u].row].job
  BY DEF Base, TypeOK, Placed
<1>2. tasks[t].row = tasks[u].row
  BY <1>1 DEF OneRow, Live
<1> QED BY <1>2 DEF Base, QueueInv, Lease, Placed

\* In a version that is a tree or a chain, and as long as no lease runs out
\* under a live job, no node of a run is executed by two coroutines at once,
\* through any crashes, errors, restarts and sweeps.  With a join it is false:
\* both predecessors may enqueue it.
THEOREM NodesRunAlone ==
  ASSUME MaxLate = 0, IsTree \/ IsChain PROVE Spec => []NoDoubleProcessing
<1>1. Base /\ TreeInv => NoDoubleProcessing
  BY RowsApart DEF TreeInv
<1>2. Base /\ OneAtATime => NoDoubleProcessing
  BY RowsApart DEF OneAtATime, OneRow
<1>3. CASE IsTree
  BY <1>1, <1>3, TreeInvariant, PTL
<1>4. CASE IsChain
  BY <1>2, <1>4, ChainInvariant, PTL
<1> QED BY <1>3, <1>4

---------------------------------------------------------------------------
(* Whom a run that goes on can count on: where no fault strikes between a  *)
(* result and what follows from it, no run is left with nobody to move it. *)

\* The versions whose walk cannot stall: no edge has a condition, an edge leaves
\* only a declared node, and every set of nodes has one without a predecessor
\* in it, so there is no cycle.
Unconditional == \A e \in Edges : e.cond = Always /\ e.from \in Declared
Acyclic == \A S \in SUBSET Node : S # {} => \E n \in S : Predecessors(n) \cap S = {}

Going(r) == runs[r] \in {"pending", "running"}

\* Of a run that goes on: a coroutine that has not recorded its result still has
\* its row in the queue, and none drops a job of it; the entry has been
\* enqueued; a node that has started has a row in the queue; and where a node
\* has failed a coroutine is about to fail the run.
Tracked ==
    /\ \A t \in Task : tasks[t].pc \notin AfterResult \cup {"idle"} => Q!Present(tasks[t].row)
    /\ \A t \in Task : tasks[t].pc = "drop" => ~Going(RunAt(t))
    /\ \A r \in Run : Going(r) => nodes[JobOf(r, Entry, 0)] # "absent"
    /\ \A j \in Job : Going(j.run) /\ nodes[j] \in {"pending", "running"} =>
          \E q \in QId : Q!Present(q) /\ queue[q].job = j
    /\ \A j \in Job : Going(j.run) /\ nodes[j] = "failed" =>
          \E t \in Task : tasks[t].pc = "finishRun" /\ RunAt(t) = j.run

\* Somebody is on the way to enqueue node y of run r, or to end the run.
Heading(r, y) ==
    \/ \E q \in QId : /\ Q!Present(q) /\ queue[q].job.run = r
                      /\ queue[q].job.node \in Predecessors(y)
    \/ \E t \in Task :
          /\ tasks[t].pc \in Following /\ RunAt(t) = r
          /\ \/ tasks[t].pc = "finishRun"
             \/ tasks[t].pc \in {"loop", "advance"} /\ tasks[t].job.node \in Predecessors(y)
             \/ tasks[t].pc = "enqueue" /\ \E e \in tasks[t].todo : e.to = y

\* A node whose predecessors have all succeeded has a row or will get one.
Awaited(r, y) ==
    /\ Predecessors(y) # {}
    /\ nodes[JobOf(r, y, 0)] = "absent"
    /\ \A p \in Predecessors(y) : nodes[JobOf(r, p, 0)] = "succeeded"

ReadyFollowed == \A r \in Run, y \in Node : Going(r) /\ Awaited(r, y) => Heading(r, y)

\* No fault strikes a coroutine between its result and what follows from it.
NoFaultFollowing == FaultPoints \cap Following = {}

\* How the status of a node changes.
LEMMA NodeChange ==
  ASSUME TypeOK, LoopsBounded, [Next]_vars, NEW j \in Job, nodes'[j] # nodes[j]
  PROVE  \/ Enqueue(j) /\ nodes[j] = "absent" /\ nodes'[j] = "pending"
         \/ \E t \in Task : MarkNode(t) /\ JobAt(t) = j /\ nodes'[j] = "running"
         \/ \E t \in Task : Finalize(t) /\ JobAt(t) = j /\ nodes'[j] = tasks[t].verdict
<1>0. nodes \in [Job -> NodeStatus]
  BY DEF TypeOK
<1>1. ASSUME NEW k \in Job, Enqueue(k)
      PROVE  Enqueue(j) /\ nodes[j] = "absent" /\ nodes'[j] = "pending"
  <2>1. k = j
    BY <1>0, <1>1 DEF Enqueue
  <2> QED BY <1>0, <1>1, <2>1 DEF Enqueue
<1>2. ASSUME NEW t \in Task, NEW s, UpdateNode(JobAt(t), s)
      PROVE  JobAt(t) = j /\ nodes'[j] = s
  <2>1. JobAt(t) = j
    BY <1>0, <1>2 DEF UpdateNode
  <2> QED BY <1>0, <1>2, <2>1 DEF UpdateNode
<1>3. CASE \E t \in Task : Finalize(t)
  BY <1>2, <1>3 DEF Finalize
<1>4. CASE \E t \in Task : MarkNode(t)
  BY <1>2, <1>4 DEF MarkNode
<1>5. CASE \E t \in Task : EnqueueLoop(t) \/ EnqueueSuccessor(t)
  BY <1>1, <1>5, EnqueuedJobs
<1>6. CASE \E r \in Run : CommitRun(r)
  BY <1>1, <1>6, EntryJob DEF CommitRun
<1>7. CASE ~(\/ \E t \in Task : \/ Finalize(t) \/ MarkNode(t) \/ EnqueueLoop(t)
                                \/ EnqueueSuccessor(t)
             \/ \E r \in Run : CommitRun(r))
  BY <1>7 DEF Next, vars, Admin, IssueKey, Cancel, CancelAnnounce, CancelPurge, Claim, Expire, KeyExpires,
     Sweep, JobError, Crash, Terminate, Drained, Restart, Unchanged_ButTasksModeFaults,
     JobStep, FetchContext, DropRow, ResolveAgent, ReadKey, MarkRun, RunAgent, Advance,
     FinishRun, Revoke, Announce, Purge, Unchanged_DB
<1> QED BY <1>3, <1>4, <1>5, <1>6, <1>7

\* A row leaves the queue by the hand of the coroutine that has its job.
LEMMA RowsLeave ==
  ASSUME TypeOK, LoopsBounded, QueueInv, [Next]_vars, NEW q \in QId, Q!Present(q), ~Q!Present(q)'
  PROVE  \E t \in Task : (DropRow(t) \/ Finalize(t)) /\ tasks[t].row = q
<1>0. queue \in [QId -> Q!Row]
  BY DEF TypeOK
<1>1. ASSUME NEW j \in Job, Enqueue(j) PROVE FALSE
  BY <1>0, <1>1 DEF Enqueue, Q!Present
<1>2. CASE \E t \in Task : DropRow(t) \/ Finalize(t)
  <2>1. PICK t \in Task : DropRow(t) \/ Finalize(t)
    BY <1>2
  <2>2. DeleteRow(tasks[t].row)
    BY <2>1 DEF DropRow, Finalize
  <2>3. tasks[t].row = q
    BY <1>0, <2>2 DEF DeleteRow, Q!Present
  <2> QED BY <2>1, <2>3
<1>3. CASE \E t \in Task : EnqueueLoop(t) \/ EnqueueSuccessor(t)
  BY <1>1, <1>3, EnqueuedJobs
<1>4. CASE \E r \in Run : CommitRun(r)
  BY <1>1, <1>4, EntryJob DEF CommitRun
<1>5. CASE \E t \in Task : Claim(t)
  BY <1>0, <1>5 DEF Claim, Q!Present, Q!Row
<1>6. CASE \E p \in QId : Expire(p)
  BY <1>0, <1>6 DEF Expire, Q!Present, Q!Row
<1>7. CASE \E w \in Worker : Sweep(w)
  BY <1>0, <1>7 DEF Sweep, Q!Present, Q!Row
<1>8. CASE ~(\/ \E t \in Task : \/ DropRow(t) \/ Finalize(t) \/ EnqueueLoop(t)
                                \/ EnqueueSuccessor(t) \/ Claim(t)
             \/ \E r \in Run : CommitRun(r)
             \/ \E p \in QId : Expire(p)
             \/ \E w \in Worker : Sweep(w))
  <2>1. UNCHANGED queue
    BY <1>8 DEF Next, vars, Admin, IssueKey, KeyExpires, Cancel, CancelAnnounce, CancelPurge, JobError, Crash,
     Terminate, Drained, Restart, Unchanged_ButTasksModeFaults, JobStep, FetchContext,
     ResolveAgent, ReadKey, MarkNode, MarkRun, RunAgent, Advance, FinishRun, Revoke, Announce,
     Purge, Unchanged_DB
  <2> QED BY <2>1 DEF Q!Present
<1> QED BY <1>2, <1>3, <1>4, <1>5, <1>6, <1>7, <1>8

\* A coroutine's run exists, and only submit_run starts one.
LEMMA GoingOrigin ==
  ASSUME Base, [Next]_vars, NEW r \in Run, Going(r)'
  PROVE  \/ Going(r)
         \/ CommitRun(r) /\ \A j \in Job : j.run = r => nodes[j] = "absent"
<1>1. CommitRun(r) => \A j \in Job : j.run = r => nodes[j] = "absent"
  BY DEF CommitRun, Base, Known
<1>2. CASE runs'[r] = runs[r]
  BY <1>2 DEF Going
<1>3. CASE runs'[r] # runs[r]
  BY <1>1, <1>3, RunChange DEF Going, Base
<1> QED BY <1>2, <1>3

\* What a coroutine that has recorded its result does next.
LEMMA FollowingSteps ==
  ASSUME NoFaultFollowing, TypeOK, [Next]_vars, NEW t \in Task, tasks[t].pc \in Following
  PROVE  \/ tasks'[t] = tasks[t]
         \/ tasks[t].pc = "loop" /\ EnqueueLoop(t)
         \/ tasks[t].pc = "advance" /\ Advance(t)
         \/ tasks[t].pc = "enqueue" /\ EnqueueSuccessor(t)
         \/ tasks[t].pc = "finishRun" /\ FinishRun(t)
<1>1. tasks'[t] = tasks[t] \/ JobStep(t)
  BY Undisturbed DEF NoFaultFollowing, Following
<1> QED BY <1>1 DEF Following, JobStep, At, FetchContext, DropRow, ResolveAgent, ReadKey,
           MarkNode, MarkRun, RunAgent, Finalize, EnqueueLoop, Advance, EnqueueSuccessor,
           FinishRun, Revoke, Announce, Purge

\* What a coroutine that records its result does: it keeps its job and goes on
\* to what follows.
LEMMA FinalizeFollows ==
  ASSUME TypeOK, NEW t \in Task, Finalize(t)
  PROVE  /\ tasks'[t].pc \in Following /\ tasks'[t].job = tasks[t].job
         /\ tasks[t].verdict = "failed" => tasks'[t].pc = "finishRun"
         /\ tasks[t].verdict = "succeeded" => tasks'[t].pc \in {"loop", "advance"}
         /\ tasks[t].job \in Job /\ tasks[t].verdict \in {"succeeded", "failed"}
  BY DEF TypeOK, Finalize, At, Goto, Following, TaskState

\* A coroutine about to fail or finish the run does so or waits.
LEMMA FinishComes ==
  ASSUME NoFaultFollowing, Base, [Next]_vars, NEW t \in Task, tasks[t].pc = "finishRun",
         NEW r \in Run, RunAt(t) = r, Going(r)'
  PROVE  tasks'[t] = tasks[t]
<1>1. FinishRun(t) => ~Going(r)'
  BY DEF FinishRun, Base, TypeOK, TaskState, Going
<1> QED BY <1>1, FollowingSteps DEF Following, Base

\* A coroutine that has not recorded its result keeps its row in the queue.
LEMMA HeldRows ==
  ASSUME Base, Tracked, [Next]_vars, Base', NEW t \in Task,
         tasks'[t].pc \notin AfterResult \cup {"idle"}
  PROVE  queue'[tasks'[t].row].st \in {"free", "held", "expired"}
<1>0. tasks \in [Task -> TaskState] /\ TypeOK /\ LoopsBounded /\ QueueInv /\ Lease
  BY DEF Base, TypeOK, QueueInv, Placed
<1>1. tasks'[t].row \in QId
  BY DEF Base, TypeOK
<1>2. Q!Present(tasks'[t].row)
  <2>1. CASE tasks[t].pc # "idle" /\ tasks'[t].row = tasks[t].row
    <3>1. tasks[t].pc \notin AfterResult
      <4>1. CASE tasks'[t] = tasks[t]
        BY <4>1
      <4>2. CASE JobStep(t)
        <5>1. tasks[t].pc \in AfterResult =>
                 \/ EnqueueLoop(t) \/ Advance(t) \/ EnqueueSuccessor(t)
                 \/ FinishRun(t) \/ Revoke(t) \/ Announce(t) \/ Purge(t)
          BY <4>2 DEF AfterResult, JobStep, At, FetchContext, DropRow, ResolveAgent, ReadKey,
             MarkNode, MarkRun, RunAgent, Finalize
        <5>2. CASE EnqueueSuccessor(t)
          BY <1>0, <5>2 DEF EnqueueSuccessor, At, Leave, Idle, AfterResult, TaskState
        <5>3. CASE Advance(t)
          <6>1. ASSUME NEW ready, tasks' = [tasks EXCEPT ![t].pc = "enqueue", ![t].todo = ready]
                PROVE  tasks'[t].pc = "enqueue"
            BY <1>0, <6>1 DEF TaskState
          <6> QED BY <1>0, <5>3, <6>1 DEF Advance, Goto, Leave, Idle, AfterResult, TaskState
        <5> QED BY <1>0, <5>1, <5>2, <5>3 DEF EnqueueLoop, FinishRun, Revoke, Announce, Purge,
                   Goto, Leave, Idle, AfterResult, TaskState
      <4> QED BY <1>0, <2>1, <4>1, <4>2, OwnSteps
    <3> QED BY <2>1, <3>1 DEF Tracked
  <2>2. CASE \E q \in QId : queue[q].st = "free" /\ tasks'[t].row = q
    BY <2>2 DEF Q!Present
  <2> QED BY <1>0, <2>1, <2>2, TaskRows
<1>3. ASSUME NEW u \in Task, DropRow(u) \/ Finalize(u), tasks[u].row = tasks'[t].row
      PROVE  FALSE
  <2>1. tasks[u].pc # "idle" /\ queue[tasks[u].row].st \in {"held", "deleted"}
    BY <1>0, <1>3 DEF DropRow, Finalize, At, Lease
  <2>2. tasks[t].pc # "idle" /\ tasks[t].row = tasks'[t].row
    BY <1>0, <1>3, <2>1, TaskRows
  <2>3. u = t
    BY <1>0, <1>3, <2>1, <2>2 DEF Lease
  <2>4. tasks'[u].pc \in Following \cup {"idle"}
    BY <1>0, <1>3, FinalizeFollows DEF DropRow, Leave, Idle
  <2> QED BY <2>3, <2>4 DEF Following, AfterResult
<1> QED
  <2>1. ASSUME NEW q \in QId, q = tasks'[t].row PROVE Q!Present(q)'
    BY <1>0, <1>2, <1>3, <2>1, RowsLeave
  <2> QED BY <1>1, <2>1 DEF Q!Present

\* A coroutine drops a job only of a run that has been cancelled.
LEMMA DropsEnded ==
  ASSUME Base, Tracked, [Next]_vars, NEW t \in Task, tasks'[t].pc = "drop"
  PROVE  runs'[tasks'[t].job.run] \notin {"pending", "running"}
<1>0. tasks \in [Task -> TaskState] /\ TypeOK /\ LoopsBounded
  BY DEF Base, TypeOK
<1>1. tasks[t].pc # "idle" /\ tasks'[t].job = tasks[t].job /\ tasks[t].job \in Job
  BY <1>0, TaskRows DEF TypeOK
<1>2. RunAt(t) \in Run /\ nodes[tasks[t].job] # "absent"
  BY <1>1 DEF RunAt, Job, Base, Backed
<1>3. ~Going(RunAt(t))
  <2>1. CASE tasks'[t] = tasks[t]
    BY <2>1 DEF Tracked
  <2>2. CASE JobStep(t)
    <3>1. FetchContext(t)
      <4>1. ~Advance(t)
        <5>1. \A ready : tasks' # [tasks EXCEPT ![t].pc = "enqueue", ![t].todo = ready]
          BY <1>0 DEF TaskState
        <5> QED BY <1>0, <5>1 DEF Advance, Goto, Leave, Idle, TaskState
      <4>2. ~EnqueueSuccessor(t)
        BY <1>0 DEF EnqueueSuccessor, At, Leave, Idle, TaskState
      <4>3. ~ReadKey(t)
        <5>1. \A k : tasks' # [tasks EXCEPT ![t].pc = "markNode", ![t].key = k]
          BY <1>0 DEF TaskState
        <5> QED BY <5>1 DEF ReadKey
      <4>4. ~RunAgent(t)
        <5>1. \A o, v : /\ tasks' # [tasks EXCEPT ![t].pc = "finalize", ![t].out = o,
                                                  ![t].verdict = v, ![t].key = FALSE]
                        /\ tasks' # [tasks EXCEPT ![t].pc = "finalize", ![t].verdict = v,
                                                  ![t].key = FALSE]
          BY <1>0 DEF TaskState
        <5> QED BY <5>1 DEF RunAgent
      <4>5. ~(\/ DropRow(t) \/ MarkNode(t) \/ MarkRun(t) \/ ResolveAgent(t) \/ Finalize(t)
              \/ EnqueueLoop(t) \/ FinishRun(t) \/ Revoke(t) \/ Announce(t) \/ Purge(t))
        BY <1>0 DEF DropRow, MarkNode, MarkRun, ResolveAgent, Finalize, EnqueueLoop, FinishRun,
           Revoke, Announce, Purge, Goto, Leave, Idle, TaskState
      <4> QED BY <2>2, <4>1, <4>2, <4>3, <4>4, <4>5 DEF JobStep
    <3> QED BY <1>0, <3>1 DEF FetchContext, Goto, TaskState, Going
  <2> QED BY <1>0, <1>1, <2>1, <2>2, OwnSteps
<1> QED
  <2>1. ASSUME NEW r \in Run, r = tasks[t].job.run PROVE ~Going(r)'
    BY <1>1, <1>2, <1>3, <2>1, GoingOrigin DEF RunAt
  <2> QED BY <1>1, <1>2, <2>1 DEF Going, RunAt

\* The row of a job leaves the queue, of a run that goes on, only as its result
\* is recorded.
LEMMA RowsFinish ==
  ASSUME Base, Tracked, [Next]_vars, NEW q \in QId, Q!Present(q), ~Q!Present(q)',
         Going(queue[q].job.run)
  PROVE  \E t \in Task : Finalize(t) /\ tasks[t].row = q /\ tasks[t].job = queue[q].job
<1>1. PICK t \in Task : (DropRow(t) \/ Finalize(t)) /\ tasks[t].row = q
  BY RowsLeave DEF Base
<1>2. tasks[t].job = queue[q].job
  BY <1>1 DEF DropRow, Finalize, At, Base, Placed
<1>3. ~DropRow(t)
  BY <1>2 DEF DropRow, At, RunAt, Tracked
<1> QED BY <1>1, <1>2, <1>3

\* A node that has started keeps a row in the queue.
LEMMA StartedRows ==
  ASSUME NoFaultFollowing, Base, Tracked, [Next]_vars, NEW j \in Job, Going(j.run)',
         nodes'[j] \in {"pending", "running"}
  PROVE  \E q \in QId : Q!Present(q)' /\ queue'[q].job = j
<1>0. TypeOK /\ LoopsBounded /\ QueueInv /\ j.run \in Run /\ queue \in [QId -> Q!Row]
  BY DEF Base, Job, TypeOK
<1>1. CASE Enqueue(j)
  BY <1>0, <1>1 DEF Enqueue, Q!Present
<1>2. CASE \E t \in Task : MarkNode(t) /\ JobAt(t) = j
  <2>1. PICK t \in Task : MarkNode(t) /\ JobAt(t) = j
    BY <1>2
  <2>2. tasks[t].pc = "markNode" /\ UNCHANGED queue /\ tasks[t].row \in QId
    BY <1>0, <2>1 DEF MarkNode, At, TypeOK
  <2>3. Q!Present(tasks[t].row) /\ queue[tasks[t].row].job = j
    BY <2>1, <2>2 DEF Tracked, AfterResult, Base, Placed, JobAt
  <2> QED BY <2>2, <2>3 DEF Q!Present
<1>3. CASE nodes'[j] = nodes[j]
  <2>1. Going(j.run)
    BY <1>0, <1>3, GoingOrigin
  <2>2. PICK q \in QId : Q!Present(q) /\ queue[q].job = j
    BY <1>3, <2>1 DEF Tracked
  <2>3. queue'[q].job = j
    BY <1>0, <2>2, UsedRowsStay DEF Q!Present
  <2>4. Q!Present(q)'
    <3> SUFFICES ASSUME ~Q!Present(q)' PROVE FALSE
      OBVIOUS
    <3>1. PICK t \in Task : Finalize(t) /\ tasks[t].job = j
      BY <2>1, <2>2, RowsFinish
    <3>2. nodes'[j] = tasks[t].verdict
      BY <1>0, <1>3, <3>1 DEF Finalize, UpdateNode, JobAt, TypeOK
    <3> QED BY <1>0, <1>3, <3>1, <3>2, FinalizeFollows
  <2> QED BY <2>3, <2>4
<1>4. \A t \in Task : Finalize(t) => nodes'[j] # tasks[t].verdict
  BY <1>0, FinalizeFollows
<1> QED BY <1>0, <1>1, <1>2, <1>3, <1>4, NodeChange

\* Of a failed node a coroutine is about to fail the run.
LEMMA FailuresEnd ==
  ASSUME NoFaultFollowing, Base, Tracked, [Next]_vars, NEW j \in Job, Going(j.run)',
         nodes'[j] = "failed"
  PROVE  \E t \in Task : tasks'[t].pc = "finishRun" /\ tasks'[t].job.run = j.run
<1>0. TypeOK /\ LoopsBounded /\ QueueInv /\ j.run \in Run
  BY DEF Base, Job
<1>1. CASE nodes'[j] = nodes[j]
  <2>1. Going(j.run)
    BY <1>0, <1>1, GoingOrigin
  <2>2. PICK t \in Task : tasks[t].pc = "finishRun" /\ tasks[t].job.run = j.run
    BY <1>1, <2>1 DEF Tracked, RunAt
  <2>3. tasks'[t] = tasks[t]
    BY <1>0, <2>2, FinishComes DEF RunAt
  <2> QED BY <2>2, <2>3
<1>2. CASE \E t \in Task : Finalize(t) /\ JobAt(t) = j /\ nodes'[j] = tasks[t].verdict
  BY <1>0, <1>2, FinalizeFollows DEF JobAt
<1> QED BY <1>0, <1>1, <1>2, NodeChange

\* The bookkeeping of runs that go on is kept by every step.
LEMMA TrackedStep ==
  ASSUME NoFaultFollowing, Base, Tracked, [Next]_vars, Base' PROVE Tracked'
<1>1. ASSUME NEW r \in Run, Going(r)' PROVE nodes'[JobOf(r, Entry, 0)] # "absent"
  <2>0. TypeOK /\ LoopsBounded /\ JobOf(r, Entry, 0) \in Job
    BY EntryJob DEF Base
  <2>1. CASE Going(r)
    BY <2>0, <2>1, NodesStay DEF Tracked
  <2>2. CASE CommitRun(r)
    BY <2>0, <2>2 DEF CommitRun, Enqueue, TypeOK
  <2> QED BY <1>1, <2>1, <2>2, GoingOrigin
<1>2. \A t \in Task : tasks'[t].pc \notin AfterResult \cup {"idle"} => Q!Present(tasks[t].row)'
  BY HeldRows DEF Q!Present
<1>3. \A t \in Task : tasks'[t].pc = "drop" => ~Going(RunAt(t))'
  BY DropsEnded DEF Going, RunAt
<1>4. \A j \in Job : Going(j.run)' /\ nodes'[j] \in {"pending", "running"} =>
         \E q \in QId : Q!Present(q)' /\ queue'[q].job = j
  BY StartedRows
<1>5. \A j \in Job : Going(j.run)' /\ nodes'[j] = "failed" =>
         \E t \in Task : tasks'[t].pc = "finishRun" /\ tasks'[t].job.run = j.run
  BY FailuresEnd
<1> QED BY <1>1, <1>2, <1>3, <1>4, <1>5 DEF Tracked, RunAt

\* A row of a job that leaves the queue while its run goes on leaves it to the
\* coroutine that recorded the result.
LEMMA RowsHandOn ==
  ASSUME Base, Tracked, [Next]_vars, NEW q \in QId, Q!Present(q), Going(queue[q].job.run)
  PROVE  \/ Q!Present(q)' /\ queue'[q].job = queue[q].job
         \/ \E t \in Task : /\ tasks'[t].pc \in Following /\ tasks'[t].job = queue[q].job
                            /\ tasks'[t].pc \in {"loop", "advance", "finishRun"}
<1>0. TypeOK /\ LoopsBounded /\ QueueInv
  BY DEF Base
<1>1. CASE Q!Present(q)'
  BY <1>0, <1>1, UsedRowsStay DEF Q!Present
<1>2. CASE ~Q!Present(q)'
  <2>1. PICK t \in Task : Finalize(t) /\ tasks[t].job = queue[q].job
    BY <1>2, RowsFinish
  <2> QED BY <1>0, <2>1, FinalizeFollows
<1> QED BY <1>1, <1>2

\* An insertion puts a row of its job into the queue.
LEMMA EnqueuePresent ==
  ASSUME TypeOK, NEW j \in Job, Enqueue(j) PROVE \E q \in QId : Q!Present(q)' /\ queue'[q].job = j
  BY DEF TypeOK, Enqueue, Q!Present

\* What a loop enqueues: the next iteration of its own node.
LEMMA LoopInserts ==
  ASSUME Base, NEW t \in Task, EnqueueLoop(t)
  PROVE  \E q \in QId : /\ Q!Present(q)' /\ queue'[q].job.run = RunAt(t)
                        /\ queue'[q].job.node = tasks[t].job.node
<1> DEFINE j == [JobAt(t) EXCEPT !.iter = @ + 1]
<1>1. tasks[t].pc = "loop" /\ tasks[t].job \in Job /\ Enqueue(j) /\ TypeOK
  BY DEF EnqueueLoop, At, Base, TypeOK
<1>2. j \in Job /\ j.run = RunAt(t) /\ j.node = tasks[t].job.node
  BY <1>1, DagAssumption DEF Base, LoopsBounded, At, JobAt, RunAt, Job, Iteration
<1> HIDE DEF j
<1> QED BY <1>1, <1>2, EnqueuePresent

\* What a coroutine at its edges enqueues, and what it keeps.
LEMMA SuccessorInserts ==
  ASSUME Base, NEW t \in Task, EnqueueSuccessor(t)
  PROVE  \E e \in tasks[t].todo :
            /\ e.to \in Node /\ JobOf(RunAt(t), e.to, 0) \in Job
            /\ Enqueue(JobOf(RunAt(t), e.to, 0))
            /\ \E q \in QId : Q!Present(q)' /\ queue'[q].job.run = RunAt(t)
            /\ \A f \in tasks[t].todo : f # e =>
                  /\ tasks'[t].pc = "enqueue" /\ f \in tasks'[t].todo
                  /\ tasks'[t].job = tasks[t].job
<1>0. /\ tasks \in [Task -> TaskState] /\ tasks[t] \in TaskState /\ tasks[t].job \in Job /\ TypeOK
      /\ tasks[t].pc = "enqueue"
  BY DEF EnqueueSuccessor, At, Base, TypeOK
<1>1. PICK e \in tasks[t].todo :
        /\ Enqueue(JobOf(RunAt(t), e.to, 0))
        /\ IF tasks[t].todo = {e} THEN Leave(t)
           ELSE tasks' = [tasks EXCEPT ![t].todo = @ \ {e}]
  BY DEF EnqueueSuccessor
<1>2. e.to \in Node /\ JobOf(RunAt(t), e.to, 0) \in Job /\ JobOf(RunAt(t), e.to, 0).run = RunAt(t)
  BY <1>0, <1>1, DagAssumption DEF TaskState, RunAt, JobOf, Job, Iteration
<1>3. \E q \in QId : Q!Present(q)' /\ queue'[q].job.run = RunAt(t)
  BY <1>0, <1>1, <1>2, EnqueuePresent
<1>4. ASSUME NEW f \in tasks[t].todo, f # e
      PROVE  /\ tasks'[t].pc = "enqueue" /\ f \in tasks'[t].todo
             /\ tasks'[t].job = tasks[t].job
  <2>1. tasks' = [tasks EXCEPT ![t].todo = @ \ {e}]
    BY <1>1, <1>4
  <2> QED BY <1>0, <1>4, <2>1 DEF TaskState
<1> QED BY <1>1, <1>2, <1>3, <1>4

\* What a look at the DAG leads to.
LEMMA AdvanceLeads ==
  ASSUME TypeOK, NEW t \in Task, Advance(t)
  PROVE  LET ready == ReadySuccessors(JobAt(t).node, NodeState(RunAt(t)), tasks[t].out)
         IN  /\ UNCHANGED <<runs, nodes, queue>>
             /\ \/ /\ ready # {} /\ tasks'[t].pc = "enqueue" /\ tasks'[t].todo = ready
                   /\ tasks'[t].job = tasks[t].job
                \/ /\ ready = {} /\ tasks'[t].pc = "finishRun" /\ tasks'[t].job = tasks[t].job
                \/ /\ ready = {} /\ Leave(t)
                   /\ ~(IsTerminal(JobAt(t).node) /\ AllDone(NodeState(RunAt(t))))
<1> DEFINE ready == ReadySuccessors(JobAt(t).node, NodeState(RunAt(t)), tasks[t].out)
           done == IsTerminal(JobAt(t).node) /\ AllDone(NodeState(RunAt(t)))
<1>0. tasks \in [Task -> TaskState] /\ tasks[t] \in TaskState
  BY DEF TypeOK
<1>1. /\ UNCHANGED <<runs, nodes, queue>>
      /\ \/ ready # {} /\ tasks' = [tasks EXCEPT ![t].pc = "enqueue", ![t].todo = ready]
         \/ ready = {} /\ Goto(t, "finishRun")
         \/ ready = {} /\ ~done /\ Leave(t)
  BY DEF Advance, Unchanged_DB
<1> HIDE DEF ready, done
<1>2. /\ UNCHANGED <<runs, nodes, queue>>
      /\ \/ /\ ready # {} /\ tasks'[t].pc = "enqueue" /\ tasks'[t].todo = ready
            /\ tasks'[t].job = tasks[t].job
         \/ /\ ready = {} /\ tasks'[t].pc = "finishRun" /\ tasks'[t].job = tasks[t].job
         \/ ready = {} /\ ~done /\ Leave(t)
  BY <1>0, <1>1 DEF Goto, TaskState
<1> QED BY <1>2 DEF ready, done

\* An edge from the finished node to one whose predecessors have all succeeded
\* is followed.
LEMMA EdgesFollowed ==
  ASSUME Unconditional, NEW r \in Run, NEW n \in Node, NEW y \in Node, Awaited(r, y),
         n \in Predecessors(y), NEW out
  PROVE  \E e \in ReadySuccessors(n, NodeState(r), out) : e.to = y
<1>1. PICK e \in Edges : e.from = n /\ e.to = y
  BY DEF Predecessors
<1>2. \A p \in Predecessors(e.to) : NodeState(r)[p] = "succeeded"
  BY <1>1 DEF Awaited, NodeState, Predecessors
<1>3. e \in ReadySuccessors(n, NodeState(r), out)
  BY <1>1, <1>2 DEF ReadySuccessors, ConditionalSuccessors, OutEdges, EvaluateCondition,
     Unconditional
<1> QED BY <1>1, <1>3

\* Somebody who heads for a node goes on until the node has its row.
LEMMA HeadingStays ==
  ASSUME NoFaultFollowing, Unconditional, Base, Tracked, [Next]_vars,
         NEW r \in Run, NEW y \in Node, Going(r), Going(r)', Awaited(r, y), Heading(r, y),
         nodes'[JobOf(r, y, 0)] = "absent"
  PROVE  Heading(r, y)'
<1>0. TypeOK /\ LoopsBounded /\ QueueInv
  BY DEF Base
<1>1. CASE \E q \in QId : /\ Q!Present(q) /\ queue[q].job.run = r
                          /\ queue[q].job.node \in Predecessors(y)
  BY <1>1, RowsHandOn DEF Heading, RunAt, Following
<1>2. ASSUME NEW t \in Task, tasks[t].pc = "finishRun", RunAt(t) = r PROVE Heading(r, y)'
  <2>1. tasks'[t] = tasks[t]
    BY <1>2, FinishComes
  <2> QED BY <1>2, <2>1 DEF Heading, Following, RunAt
<1>3. ASSUME NEW t \in Task, tasks[t].pc = "loop", RunAt(t) = r,
             tasks[t].job.node \in Predecessors(y)
      PROVE  Heading(r, y)'
  <2>1. CASE tasks'[t] = tasks[t]
    BY <1>3, <2>1 DEF Heading, Following, RunAt
  <2>2. CASE EnqueueLoop(t)
    BY <1>3, <2>2, LoopInserts DEF Heading
  <2> QED BY <1>0, <1>3, <2>1, <2>2, FollowingSteps DEF Following
<1>4. ASSUME NEW t \in Task, tasks[t].pc = "advance", RunAt(t) = r,
             tasks[t].job.node \in Predecessors(y)
      PROVE  Heading(r, y)'
  <2>1. CASE tasks'[t] = tasks[t]
    BY <1>4, <2>1 DEF Heading, Following, RunAt
  <2>2. CASE Advance(t)
    <3> DEFINE ready == ReadySuccessors(JobAt(t).node, NodeState(RunAt(t)), tasks[t].out)
    <3>1. PICK e \in ready : e.to = y
      BY <1>4, EdgesFollowed DEF JobAt, Predecessors
    <3>2. tasks'[t].pc = "enqueue" /\ tasks'[t].todo = ready /\ tasks'[t].job = tasks[t].job
      BY <1>0, <2>2, <3>1, AdvanceLeads
    <3> HIDE DEF ready
    <3> QED BY <1>4, <3>1, <3>2 DEF Heading, Following, RunAt
  <2> QED BY <1>0, <1>4, <2>1, <2>2, FollowingSteps DEF Following
<1>5. ASSUME NEW t \in Task, tasks[t].pc = "enqueue", RunAt(t) = r,
             NEW e \in tasks[t].todo, e.to = y
      PROVE  Heading(r, y)'
  <2>1. CASE tasks'[t] = tasks[t]
    BY <1>5, <2>1 DEF Heading, Following, RunAt
  <2>2. CASE EnqueueSuccessor(t)
    <3>1. PICK f \in tasks[t].todo :
             /\ JobOf(RunAt(t), f.to, 0) \in Job /\ Enqueue(JobOf(RunAt(t), f.to, 0))
             /\ \A g \in tasks[t].todo : g # f =>
                   /\ tasks'[t].pc = "enqueue" /\ g \in tasks'[t].todo
                   /\ tasks'[t].job = tasks[t].job
      BY <2>2, SuccessorInserts
    <3>2. nodes'[JobOf(RunAt(t), f.to, 0)] # "absent"
      BY <1>0, <3>1 DEF Enqueue, TypeOK
    <3>3. f # e
      BY <1>5, <3>2
    <3> QED BY <1>5, <3>1, <3>3 DEF Heading, Following, RunAt
  <2> QED BY <1>0, <1>5, <2>1, <2>2, FollowingSteps DEF Following
<1> QED BY <1>1, <1>2, <1>3, <1>4, <1>5 DEF Heading

\* A node whose predecessors have all succeeded is being headed for.
LEMMA ReadyStep ==
  ASSUME NoFaultFollowing, Unconditional, Base, Tracked, ReadyFollowed, [Next]_vars
  PROVE  ReadyFollowed'
<1> SUFFICES ASSUME NEW r \in Run, NEW y \in Node, Going(r)', Awaited(r, y)'
             PROVE  Heading(r, y)'
  BY DEF ReadyFollowed
<1>0. /\ TypeOK /\ LoopsBounded /\ QueueInv /\ JobOf(r, y, 0) \in Job
      /\ \A p \in Predecessors(y) : p \in Node /\ JobOf(r, p, 0) \in Job /\ JobOf(r, p, 0).run = r
                                    /\ JobOf(r, p, 0).node = p
  BY JobsExist, DagAssumption DEF Base, Iteration, Predecessors, JobOf
<1>1. /\ nodes'[JobOf(r, y, 0)] = "absent" /\ Predecessors(y) # {}
      /\ \A p \in Predecessors(y) : nodes'[JobOf(r, p, 0)] = "succeeded"
  BY DEF Awaited, Predecessors
<1>2. nodes[JobOf(r, y, 0)] = "absent"
  BY <1>0, <1>1, NodesStay
<1>3. CASE \A p \in Predecessors(y) : nodes[JobOf(r, p, 0)] = "succeeded"
  <2>1. Going(r)
    BY <1>0, <1>1, <1>3, GoingOrigin
  <2>2. Awaited(r, y)
    BY <1>1, <1>2, <1>3 DEF Awaited
  <2> QED BY <1>1, <2>1, <2>2, HeadingStays DEF ReadyFollowed
<1>4. ASSUME NEW p \in Predecessors(y), nodes[JobOf(r, p, 0)] # "succeeded"
      PROVE  Heading(r, y)'
  <2>1. PICK t \in Task : Finalize(t) /\ JobAt(t) = JobOf(r, p, 0) /\ tasks[t].verdict = "succeeded"
    BY <1>0, <1>1, <1>4, NodeChange
  <2>2. tasks'[t].pc \in {"loop", "advance"} /\ tasks'[t].job.run = r /\ tasks'[t].job.node = p
    BY <1>0, <2>1, FinalizeFollows DEF JobAt
  <2> QED BY <1>4, <2>2 DEF Heading, Following, RunAt
<1> QED BY <1>3, <1>4

\* When a coroutine finds nothing to do and the run not done, another job of the
\* run is in the queue or under way: of the declared nodes without a row one
\* has predecessors that have all succeeded, and somebody heads for it.
LEMMA OthersRemain ==
  ASSUME Unconditional, Acyclic, Base, Tracked, ReadyFollowed,
         NEW t \in Task, tasks[t].pc = "advance", NEW r \in Run, RunAt(t) = r, Going(r),
         ReadySuccessors(JobAt(t).node, NodeState(r), tasks[t].out) = {},
         ~(IsTerminal(JobAt(t).node) /\ AllDone(NodeState(r)))
  PROVE  \/ \E q \in QId : Q!Present(q) /\ queue[q].job.run = r
         \/ \E u \in Task : u # t /\ tasks[u].pc \in Following /\ RunAt(u) = r
<1> SUFFICES ASSUME ~\E q \in QId : Q!Present(q) /\ queue[q].job.run = r,
                    ~\E u \in Task : u # t /\ tasks[u].pc \in Following /\ RunAt(u) = r
             PROVE  FALSE
  OBVIOUS
<1>0. /\ nodes \in [Job -> NodeStatus] /\ tasks[t].job \in Job /\ JobAt(t).node \in Node
      /\ \A n \in Node : JobOf(r, n, 0) \in Job /\ JobOf(r, n, 0).run = r
      /\ Entry \in Declared /\ Declared \subseteq Node
  BY JobsExist, DagAssumption DEF Base, TypeOK, Iteration, JobOf, JobAt, Job, AcceptedVersion
<1>1. ASSUME NEW n \in Node PROVE nodes[JobOf(r, n, 0)] \in {"absent", "succeeded"}
  <2>1. nodes[JobOf(r, n, 0)] \notin {"pending", "running"}
    BY <1>0 DEF Tracked
  <2>2. nodes[JobOf(r, n, 0)] # "failed"
    BY <1>0 DEF Tracked, Following
  <2> QED BY <1>0, <2>1, <2>2 DEF NodeStatus
<1>2. AllDone(NodeState(r))
  BY <1>0, <1>1 DEF AllDone, NodeState
<1>3. PICK e \in Edges : e.from = JobAt(t).node
  BY <1>2 DEF IsTerminal, OutEdges
<1>4. PICK p \in Predecessors(e.to) : NodeState(r)[p] # "succeeded"
  BY <1>3 DEF ReadySuccessors, ConditionalSuccessors, OutEdges, EvaluateCondition, Unconditional
<1> DEFINE T == {n \in Declared : nodes[JobOf(r, n, 0)] = "absent"}
<1>5. p \in T
  <2>1. p \in Declared /\ p \in Node
    BY DEF Predecessors, Unconditional
  <2> QED BY <1>1, <1>4, <2>1 DEF NodeState
<1>6. PICK y \in T : Predecessors(y) \cap T = {}
  <2>1. T \subseteq Node
    BY <1>0
  <2> HIDE DEF T
  <2> QED BY <1>5, <2>1 DEF Acyclic
<1>7. y # Entry /\ y \in Declared /\ y \in Node
  BY <1>0 DEF Tracked
<1>8. Predecessors(y) # {}
  <2> SUFFICES ASSUME Predecessors(y) = {} PROVE FALSE
    OBVIOUS
  <2> DEFINE S == Node \ {y}
  <2>1. ClosedUnderEdges(S)
    BY DagAssumption DEF ClosedUnderEdges, Predecessors
  <2>2. Entry \in S /\ S \in SUBSET Node
    BY <1>0, <1>7
  <2> HIDE DEF S
  <2>3. Declared \subseteq S
    BY <2>1, <2>2, DagAssumption DEF AcceptedVersion
  <2> QED BY <1>7, <2>3 DEF S
<1>9. \A x \in Predecessors(y) : x \in Declared /\ x \in Node /\ x \notin T
  BY <1>6 DEF Predecessors, Unconditional
<1>10. Awaited(r, y)
  BY <1>1, <1>8, <1>9 DEF Awaited
<1>11. Heading(r, y)
  BY <1>7, <1>10 DEF ReadyFollowed
<1>12. tasks[t].job.node \in Predecessors(y)
  BY <1>11 DEF Heading
<1> QED BY <1>7, <1>10, <1>12, EdgesFollowed DEF JobAt, Predecessors

\* Every step leaves somebody to move on each run that goes on.
LEMMA StrandStep ==
  ASSUME NoFaultFollowing, Unconditional, Acyclic, Base, Tracked, ReadyFollowed,
         RunsNeverStrand, [Next]_vars
  PROVE  RunsNeverStrand'
<1> SUFFICES ASSUME NEW r \in Run, Going(r)' PROVE Underway(r)'
  BY DEF RunsNeverStrand, Going
<1>0. TypeOK /\ LoopsBounded /\ QueueInv
  BY DEF Base
<1>1. CASE CommitRun(r)
  <2>1. Enqueue(JobOf(r, Entry, 0)) /\ JobOf(r, Entry, 0).run = r
    BY <1>1 DEF CommitRun, JobOf
  <2> QED BY <1>0, <2>1, EntryJob, EnqueuePresent DEF Underway
<1>2. CASE Going(r)
  <2>1. ASSUME NEW q \in QId, Q!Present(q), queue[q].job.run = r PROVE Underway(r)'
    BY <1>2, <2>1, RowsHandOn DEF Underway, RunAt
  <2>2. ASSUME NEW t \in Task, tasks[t].pc \in Following, RunAt(t) = r PROVE Underway(r)'
    <3>1. CASE tasks'[t] = tasks[t]
      BY <2>2, <3>1 DEF Underway, RunAt
    <3>2. CASE EnqueueLoop(t)
      BY <2>2, <3>2, LoopInserts DEF Underway
    <3>3. CASE EnqueueSuccessor(t)
      BY <2>2, <3>3, SuccessorInserts DEF Underway
    <3>4. CASE tasks[t].pc = "advance" /\ Advance(t)
      <4> DEFINE ready == ReadySuccessors(JobAt(t).node, NodeState(r), tasks[t].out)
      <4>1. \/ tasks'[t].pc \in Following /\ tasks'[t].job = tasks[t].job
            \/ /\ ready = {} /\ Leave(t) /\ UNCHANGED queue
               /\ ~(IsTerminal(JobAt(t).node) /\ AllDone(NodeState(r)))
        BY <1>0, <2>2, <3>4, AdvanceLeads DEF Following
      <4> HIDE DEF ready
      <4>2. CASE tasks'[t].pc \in Following /\ tasks'[t].job = tasks[t].job
        BY <2>2, <4>2 DEF Underway, RunAt
      <4>3. CASE /\ ready = {} /\ Leave(t) /\ UNCHANGED queue
                 /\ ~(IsTerminal(JobAt(t).node) /\ AllDone(NodeState(r)))
        <5>1. \/ \E q \in QId : Q!Present(q) /\ queue[q].job.run = r
              \/ \E u \in Task : u # t /\ tasks[u].pc \in Following /\ RunAt(u) = r
          BY <1>2, <2>2, <3>4, <4>3, OthersRemain DEF ready
        <5>2. \A u \in Task : u # t => tasks'[u] = tasks[u]
          BY <1>0, <4>3 DEF Leave, TypeOK
        <5> QED BY <4>3, <5>1, <5>2 DEF Underway, RunAt, Q!Present
      <4> QED BY <4>1, <4>2, <4>3
    <3>5. ~FinishRun(t) \/ tasks'[t] = tasks[t]
      BY <2>2, FinishComes DEF FinishRun, At
    <3> QED BY <1>0, <2>2, <3>1, <3>2, <3>3, <3>4, <3>5, FollowingSteps
  <2> QED BY <1>2, <2>1, <2>2 DEF RunsNeverStrand, Underway, Going
<1> QED BY <1>1, <1>2, GoingOrigin

\* In a version without conditions and cycles whose edges leave declared nodes,
\* a run that is pending or running always has a row in the queue or a coroutine
\* that is about to enqueue or end something: whatever jobs raise and workers
\* die before _finalize_node commits, and whatever is cancelled, no run is left
\* with nobody to move it on.  This is the part of EveryRunEnds that is not a
\* matter of fairness.  None of the hypotheses can be dropped: a condition that
\* does not hold, a cycle, an edge from an undeclared id, a late lease and a
\* fault after the commit each strand a run.
THEOREM NoRunIsStranded ==
  ASSUME MaxLate = 0, Unconditional, Acyclic, NoFaultFollowing
  PROVE  Spec => []RunsNeverStrand
<1>1. Init => Tracked /\ ReadyFollowed /\ RunsNeverStrand
  BY DEF Init, Tracked, ReadyFollowed, RunsNeverStrand, Going, Idle, AfterResult
<1>2. /\ Base /\ Tracked /\ ReadyFollowed /\ RunsNeverStrand
      /\ [Next]_vars /\ Base'
      => Tracked' /\ ReadyFollowed' /\ RunsNeverStrand'
  BY TrackedStep, ReadyStep, StrandStep
<1> QED BY <1>1, <1>2, BaseInvariant, PTL DEF Spec
---------------------------------------------------------------------------
(* The plaintext key of a run that goes on: who deletes it and when.       *)

\* What keeps a plaintext key from being deleted under its run: rows that have
\* been claimed say so, and who deletes the key of a run has seen it end.
KeyCare ==
    /\ \A q \in QId : /\ queue[q].st = "unused" => queue[q].attempts = 0
                      /\ queue[q].st \in {"held", "expired"} => queue[q].attempts > 0
    /\ \A r \in Run : admin[r] = "issued" => redisKey[r] # "none"
    /\ \A r \in Run : admin[r] \in {"announce", "purge"} => runs[r] \in Terminal
    /\ \A t \in Task : tasks[t].pc \in {"revoke", "announce", "purge"} =>
          runs[RunAt(t)] \in Terminal

\* Rows go on saying that they have been claimed.
LEMMA ClaimsCounted ==
  ASSUME TypeOK, LoopsBounded, QueueInv, KeyCare, [Next]_vars, NEW q \in QId
  PROVE  /\ queue'[q].st = "unused" => queue'[q].attempts = 0
         /\ queue'[q].st \in {"held", "expired"} => queue'[q].attempts > 0
         /\ queue[q].attempts > 1 => queue'[q].attempts > 1
<1>0. /\ queue \in [QId -> Q!Row] /\ queue[q] \in Q!Row /\ queue[q].attempts \in Nat
      /\ queue[q].st = "unused" => queue[q].attempts = 0
      /\ queue[q].st \in {"held", "expired"} => queue[q].attempts > 0
  BY DEF TypeOK, Q!Row, KeyCare
<1>1. [Q!Next]_queue
  BY RefinementStep
<1>2. CASE Q!Reclaim \/ UNCHANGED queue
  BY <1>0, <1>2 DEF Q!Reclaim, Q!Row
<1>3. ASSUME NEW p \in QId, Q!Insert(p) \/ Q!Claim(p) \/ Q!Expire(p) \/ Q!Delete(p)
      PROVE  /\ queue'[q].st = "unused" => queue'[q].attempts = 0
             /\ queue'[q].st \in {"held", "expired"} => queue'[q].attempts > 0
             /\ queue[q].attempts > 1 => queue'[q].attempts > 1
  <2>1. CASE Q!Insert(p)
    BY <1>0, <2>1 DEF Q!Insert, Q!Row
  <2>2. CASE Q!Claim(p)
    BY <1>0, <2>2 DEF Q!Claim, Q!Row
  <2>3. CASE Q!Expire(p)
    BY <1>0, <2>3 DEF Q!Expire, Q!Row
  <2>4. CASE Q!Delete(p)
    BY <1>0, <2>4 DEF Q!Delete, Q!Present, Q!Row
  <2> QED BY <1>3, <2>1, <2>2, <2>3, <2>4
<1> QED BY <1>1, <1>2, <1>3 DEF Q!Next

\* A row whose claim has run out goes on showing it, while no lease runs out
\* under a live job: nobody is left who could delete it unclaimed.
LEMMA RetriedStays ==
  ASSUME TypeOK, LoopsBounded, QueueInv, KeyCare, [Next]_vars, NEW r \in Run, Retried(r), late = 0
  PROVE  Retried(r)'
<1>0. queue \in [QId -> Q!Row] /\ Lease
  BY DEF TypeOK, QueueInv
<1>1. PICK q \in QId : /\ queue[q].job.run = r
                       /\ \/ queue[q].st \in {"free", "expired"} /\ queue[q].attempts > 0
                          \/ queue[q].attempts > 1
  BY DEF Retried
<1>2. queue[q].attempts \in Nat /\ queue[q].st # "unused" /\ queue[q] \in Q!Row
  BY <1>0, <1>1 DEF Q!Row, KeyCare
<1>3. queue'[q].job = queue[q].job
  BY <1>2, UsedRowsStay
<1>4. CASE queue[q].attempts > 1
  BY <1>1, <1>3, <1>4, ClaimsCounted DEF Retried
<1>5. CASE queue[q].st \in {"free", "expired"} /\ queue[q].attempts > 0
  <2>1. ~\E t \in Task : (DropRow(t) \/ Finalize(t)) /\ tasks[t].row = q
    BY <1>0, <1>5 DEF Lease, DropRow, Finalize, At
  <2>2. Q!Present(q)'
    BY <1>5, <2>1, RowsLeave DEF Q!Present
  <2>3. \/ queue'[q].st \in {"free", "expired"} /\ queue'[q].attempts > 0
        \/ queue'[q].attempts > 1
    <3>1. CASE Q!Reclaim \/ UNCHANGED queue
      BY <1>0, <1>5, <3>1 DEF Q!Reclaim, Q!Row
    <3>2. ASSUME NEW p \in QId, Q!Insert(p) \/ Q!Claim(p) \/ Q!Expire(p) \/ Q!Delete(p)
          PROVE  \/ queue'[q].st \in {"free", "expired"} /\ queue'[q].attempts > 0
                 \/ queue'[q].attempts > 1
      <4>1. CASE Q!Insert(p)
        BY <1>0, <1>2, <1>5, <4>1 DEF Q!Insert
      <4>2. CASE Q!Claim(p)
        BY <1>0, <1>2, <1>5, <4>2 DEF Q!Claim, Q!Row
      <4>3. CASE Q!Expire(p)
        BY <1>0, <1>5, <4>3 DEF Q!Expire, Q!Row
      <4>4. CASE Q!Delete(p)
        BY <1>0, <1>5, <2>2, <4>4 DEF Q!Delete, Q!Present, Q!Row
      <4> QED BY <3>2, <4>1, <4>2, <4>3, <4>4
    <3> QED BY <3>1, <3>2, RefinementStep DEF Q!Next
  <2> QED BY <1>1, <1>3, <2>3 DEF Retried
<1> QED BY <1>1, <1>4, <1>5

\* Who deletes a plaintext key: a handler or a coroutine of the run, or the
\* sweeper, for a stale claim.
LEMMA PlaintextEnds ==
  ASSUME ~RedisMayFail, TypeOK, LoopsBounded, [Next]_vars, NEW r \in Run, redisKey[r] # "none", redisKey'[r] = "none"
  PROVE  \/ CancelPurge(r)
         \/ \E t \in Task : Purge(t) /\ RunAt(t) = r
         \/ \E w \in Worker : /\ Sweep(w)
                              /\ \E q \in QId : queue[q].st = "expired" /\ queue[q].job.run = r
<1>1. CASE \E q \in Run : IssueKey(q) \/ CancelPurge(q)
  BY <1>1 DEF IssueKey, CancelPurge, PurgeKey, RedisWrite, TypeOK
<1>2. CASE \E t \in Task : Purge(t)
  BY <1>2 DEF Purge, PurgeKey, RedisWrite, TypeOK
<1>3. CASE \E w \in Worker : Sweep(w)
  <2>1. PICK w \in Worker : Sweep(w)
    BY <1>3
  <2>2. \E q \in QId : queue[q].st = "expired" /\ queue[q].job.run = r
    BY <2>1 DEF Sweep, PurgeStale, StaleRows, Stale, TypeOK
  <2> QED BY <2>1, <2>2
<1>4. CASE \E q \in Run : KeyExpires(q)
  BY <1>4 DEF KeyExpires, TypeOK
<1>5. CASE ~(\/ \E q \in Run : IssueKey(q) \/ CancelPurge(q) \/ KeyExpires(q)
             \/ \E t \in Task : Purge(t)
             \/ \E w \in Worker : Sweep(w))
  BY <1>5 DEF Next, vars, Admin, CommitRun, Cancel, CancelAnnounce, Claim, Expire,
     JobError, Crash, Terminate, Drained, Restart, Unchanged_ButTasksModeFaults, JobStep,
     FetchContext, DropRow, ResolveAgent, ReadKey, MarkNode, MarkRun, RunAgent, Finalize,
     EnqueueLoop, Advance, EnqueueSuccessor, FinishRun, Revoke, Announce, Unchanged_DB
<1> QED BY <1>1, <1>2, <1>3, <1>4, <1>5

\* Only a run that has ended gets its key deleted by a handler or a coroutine.
LEMMA KeyCareStep ==
  ASSUME ~RedisMayFail, TypeOK, LoopsBounded, QueueInv, Backed, Known, KeyCare, [Next]_vars
  PROVE  KeyCare'
<1>0. tasks \in [Task -> TaskState]
  BY DEF TypeOK
<1>1. ASSUME NEW r \in Run, runs[r] \in Terminal PROVE runs'[r] \in Terminal
  <2>1. ~CommitRun(r)
    BY <1>1 DEF CommitRun, Known, Terminal
  <2> QED BY <1>1, <2>1, RunChange DEF Terminal
<1>2. ASSUME NEW r \in Run, admin'[r] = "issued" PROVE redisKey'[r] # "none"
  <2>1. CASE admin[r] = "issued"
    <3>1. redisKey[r] # "none" /\ runs[r] = "absent"
      BY <2>1 DEF KeyCare, Known
    <3>2. \A q \in QId : queue[q].st # "unused" => queue[q].job.run # r
      BY <3>1 DEF Backed, Known, TypeOK, Q!Row
    <3>3. \A t \in Task : tasks[t].pc # "idle" => RunAt(t) # r
      BY <3>1 DEF Backed, Known, TypeOK, RunAt
    <3> QED BY <2>1, <3>1, <3>2, <3>3, PlaintextEnds DEF CancelPurge, Purge, At
  <2>2. CASE admin[r] # "issued"
    <3>1. IssueKey(r)
      BY <1>2, <2>2, HandlerMoves DEF Admin, CommitRun, Cancel, CancelAnnounce, CancelPurge, TypeOK
    <3> QED BY <3>1 DEF IssueKey, RedisWrite, TypeOK
  <2> QED BY <2>1, <2>2
<1>3. ASSUME NEW r \in Run, admin'[r] \in {"announce", "purge"} PROVE runs'[r] \in Terminal
  <2>1. CASE admin'[r] = admin[r]
    BY <1>1, <1>3, <2>1 DEF KeyCare
  <2>2. CASE Admin(r)
    <3>1. CASE Cancel(r)
      BY <3>1 DEF Cancel, TypeOK, Terminal
    <3>2. CASE CancelAnnounce(r)
      BY <1>1, <3>2 DEF CancelAnnounce, KeyCare
    <3> QED BY <1>3, <2>2, <3>1, <3>2 DEF Admin, IssueKey, CommitRun, CancelPurge, TypeOK
  <2> QED BY <2>1, <2>2, HandlerMoves
<1>4. ASSUME NEW t \in Task, tasks'[t].pc \in {"revoke", "announce", "purge"}
      PROVE  runs'[tasks'[t].job.run] \in Terminal
  <2>1. tasks[t].pc # "idle" /\ tasks'[t].job = tasks[t].job /\ RunAt(t) \in Run
    BY <1>4, TaskRows DEF TypeOK, RunAt, Job
  <2>2. CASE tasks[t].pc \in {"revoke", "announce", "purge"}
    BY <1>1, <2>1, <2>2 DEF KeyCare, RunAt
  <2>3. CASE tasks[t].pc \notin {"revoke", "announce", "purge"}
    <3>1. JobStep(t)
      BY <1>4, <2>1, <2>3, OwnSteps
    <3>2. FinishRun(t)
      <4>1. tasks[t].pc \in AfterResult \cup {"finalize"}
        BY <1>4, <3>1, EarlySteps DEF AfterResult
      <4>2. \/ Finalize(t) \/ EnqueueLoop(t) \/ Advance(t) \/ EnqueueSuccessor(t) \/ FinishRun(t)
        BY <2>3, <3>1, <4>1 DEF AfterResult, JobStep, At, FetchContext, DropRow, ResolveAgent,
           ReadKey, MarkNode, MarkRun, RunAgent, Revoke, Announce, Purge
      <4>3. ~Advance(t)
        <5>1. \A ready : tasks' # [tasks EXCEPT ![t].pc = "enqueue", ![t].todo = ready]
          BY <1>0, <1>4 DEF TaskState
        <5> QED BY <1>0, <1>4, <5>1 DEF Advance, Goto, Leave, Idle, TaskState
      <4>4. ~EnqueueSuccessor(t)
        BY <1>0, <1>4 DEF EnqueueSuccessor, At, Leave, Idle, TaskState
      <4>5. ~Finalize(t) /\ ~EnqueueLoop(t)
        BY <1>0, <1>4 DEF Finalize, EnqueueLoop, Goto, Leave, Idle, TaskState
      <4> QED BY <4>2, <4>3, <4>4, <4>5
    <3> QED BY <1>0, <2>1, <3>2 DEF FinishRun, RunAt, TypeOK, TaskState, Terminal
  <2> QED BY <2>2, <2>3
<1> QED BY <1>2, <1>3, <1>4, ClaimsCounted DEF KeyCare, RunAt

\* Leases that have run out under a live job are not forgotten.
LEMMA LateGrows ==
  ASSUME TypeOK, LoopsBounded, [Next]_vars PROVE late' \in Nat /\ late' >= late
<1>0. late \in Nat
  BY DEF TypeOK
<1>1. ASSUME NEW q \in QId, Expire(q) PROVE late' \in Nat /\ late' >= late
  BY <1>0, <1>1 DEF Expire
<1>2. ASSUME NEW t \in Task, JobStep(t) PROVE late' = late
  BY <1>2, JobStepQueue
<1>3. CASE ~((\E q \in QId : Expire(q)) \/ (\E t \in Task : JobStep(t)))
  <2>1. late' = late
    BY <1>3 DEF Next, vars, Admin, IssueKey, CommitRun, Cancel, CancelAnnounce, CancelPurge,
       KeyExpires, Claim, Sweep, JobError, Crash, Terminate, Drained, Restart, Unchanged_ButTasksModeFaults
  <2> QED BY <1>0, <2>1
<1> QED BY <1>0, <1>1, <1>2, <1>3

\* A plaintext key disappears under its run only with a stale claim.
LEMMA KeptStep ==
  ASSUME ~RedisMayFail, TypeOK, LoopsBounded, QueueInv, Known, KeyCare, PlaintextKept, [Next]_vars
  PROVE  PlaintextKept'
<1> SUFFICES ASSUME NEW r \in Run, runs'[r] \in {"pending", "running"}, redisKey'[r] = "none", late' = 0
             PROVE  Retried(r)'
  BY LateGrows DEF PlaintextKept
<1>0. late = 0
  BY LateGrows DEF TypeOK
<1>1. ~CommitRun(r)
  BY DEF CommitRun, KeyCare
<1>2. runs[r] \in {"pending", "running"}
  BY <1>1, RunChange
<1>3. Retried(r)
  <2>1. CASE redisKey[r] = "none"
    BY <1>0, <1>2, <2>1 DEF PlaintextKept
  <2>2. CASE redisKey[r] # "none"
    <3>1. ~CancelPurge(r) /\ ~\E t \in Task : Purge(t) /\ RunAt(t) = r
      BY <1>2 DEF CancelPurge, Purge, At, KeyCare, Terminal
    <3>2. PICK q \in QId : queue[q].st = "expired" /\ queue[q].job.run = r
      BY <2>2, <3>1, PlaintextEnds
    <3> QED BY <3>2 DEF Retried, KeyCare
  <2> QED BY <2>1, <2>2
<1> QED BY <1>0, <1>3, RetriedStays

\* With a Redis that answers, the plaintext key of a run that goes on stays in
\* Redis until its 3660 s are over, unless a claim of a job of the run has run out
\* (or, once one has run out under a live job, unless that row is gone by now):
\* neither a cancel, a crash nor the end of another run takes it away.
THEOREM PlaintextIsKept ==
  ASSUME ~RedisMayFail PROVE Spec => []PlaintextKept
<1>1. Init => KeyCare /\ PlaintextKept
  BY DEF Init, KeyCare, PlaintextKept, Idle
<1>2. /\ TypeOK /\ LoopsBounded /\ QueueInv /\ Backed /\ Known
      /\ KeyCare /\ PlaintextKept /\ [Next]_vars
      => KeyCare' /\ PlaintextKept'
  BY KeyCareStep, KeptStep
<1> QED BY <1>1, <1>2, KnownInvariant, PTL DEF Spec

\* With a Redis that answers and no fault after the run's status is written, nobody
\* deletes a plaintext key while its run goes on, stale claims aside (its 3660 s
\* may end before), and it is gone once the run has ended, but for who is on the
\* way to delete it.
THEOREM PlaintextFollowsTheRun ==
  ASSUME ~RedisMayFail, FaultPoints \cap {"revoke", "announce", "purge"} = {}
  PROVE  Spec => []PlaintextFollowsRun
<1> QED BY PlaintextIsPurged, PlaintextIsKept, PTL DEF PlaintextFollowsRun
=============================================================================
