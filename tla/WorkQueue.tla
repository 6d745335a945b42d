----------------------------- MODULE WorkQueue -----------------------------
(***************************************************************************)
(* What the work_queue table promises, whoever uses it: an at-least-once   *)
(* queue of leased rows.  A row is inserted once, its job never changes, a *)
(* claim takes only a row nobody holds, a lease may run out and be taken   *)
(* back, and a row is deleted only after some worker has claimed it: no    *)
(* job is dropped unseen.  WorkflowRun implements this module.             *)
(***************************************************************************)
EXTENDS Integers

CONSTANTS QId, Job

VARIABLE queue

RowStates == {"unused", "free", "held", "expired", "deleted"}
Row == [st : RowStates, job : Job, attempts : Nat]

Present(q) == queue[q].st \in {"free", "held", "expired"}

Init == /\ queue \in [QId -> Row]
        /\ \A q \in QId : queue[q].st = "unused" /\ queue[q].attempts = 0

Insert(q) == /\ queue[q].st = "unused"
             /\ \E j \in Job :
                   queue' = [queue EXCEPT ![q] = [st |-> "free", job |-> j, attempts |-> 0]]

Claim(q) == /\ queue[q].st = "free"
            /\ queue' = [queue EXCEPT ![q].st = "held", ![q].attempts = @ + 1]

Expire(q) == /\ queue[q].st = "held"
             /\ queue' = [queue EXCEPT ![q].st = "expired"]

\* The sweeper takes back every lease that has run out, in one statement.
Reclaim == queue' = [q \in QId |-> IF queue[q].st = "expired"
                                   THEN [queue[q] EXCEPT !.st = "free"]
                                   ELSE queue[q]]

Delete(q) == /\ Present(q)
             /\ queue[q].attempts > 0
             /\ queue' = [queue EXCEPT ![q].st = "deleted"]

Next == \/ Reclaim
        \/ \E q \in QId : Insert(q) \/ Claim(q) \/ Expire(q) \/ Delete(q)

Spec == Init /\ [][Next]_queue
=============================================================================
