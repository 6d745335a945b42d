----------------------------- MODULE ScanJobs -----------------------------
(***************************************************************************)
(* The security scanner of one node: submissions that pass a kill switch,  *)
(* an approved target and a daily quota become rows of scan_jobs; the row  *)
(* commits before the job is pushed to a Redis list, and the worker in the *)
(* same process pops the list at most once and runs the tools of each job  *)
(* in a task of its own.  Cancelling a job updates its row.                *)
(***************************************************************************)
EXTENDS Integers, Sequences, FiniteSets

CONSTANTS
    Jobs,       \* submissions; each becomes at most one job
    Tools,      \* scanners started together (nmap, nuclei, ZAP)
    DailyLimit, \* the node's daily quota
    MaxDay,     \* bound: the last day
    MaxCrashes  \* bound: restarts of the scanner

ASSUME ScanJobsAssumption ==
    /\ IsFiniteSet(Jobs)
    /\ DailyLimit \in Nat \ {0}
    /\ MaxDay \in Nat
    /\ MaxCrashes \in Nat

VARIABLES
    day,       \* the date the quota keys carry
    disabled,  \* Redis scanner:disabled
    target,    \* status of the scan target
    quota,     \* Redis scanner:quota:{node}:{day}
    submitter, \* progress of each POST /jobs, and the day it was counted on
    job,       \* the scan_jobs row; "partial" is completed with partial_results
    pushed,    \* the Redis list of jobs
    scan,      \* the worker's task of each job
    crashes    \* restarts so far

scanVars == <<day, disabled, target, quota, submitter, job, pushed, scan, crashes>>

NoScan == [pc |-> "none", running |-> {}]

ScanTypeOK ==
    /\ day \in 0..MaxDay
    /\ disabled \in BOOLEAN
    /\ target \in {"pending", "approved", "revoked"}
    /\ quota \in [0..MaxDay -> 0..Cardinality(Jobs)]
    /\ submitter \in [Jobs -> [pc : {"idle", "allowed", "counted", "over",
                                     "accepted", "done", "refused"},
                               day : 0..MaxDay]]
    /\ job \in [Jobs -> {"absent", "queued", "cancelled", "completed", "partial",
                         "failed"}]
    /\ pushed \in Seq(Jobs) /\ Len(pushed) <= Cardinality(Jobs)
    /\ scan \in [Jobs -> [pc : {"none", "tools", "garak", "over"},
                          running : SUBSET Tools]]
    /\ crashes \in 0..MaxCrashes

ScanInit ==
    /\ day = 0
    /\ disabled = FALSE
    /\ target = "pending"
    /\ quota = [d \in 0..MaxDay |-> 0]
    /\ submitter = [j \in Jobs |-> [pc |-> "idle", day |-> 0]]
    /\ job = [j \in Jobs |-> "absent"]
    /\ pushed = <<>>
    /\ scan = [j \in Jobs |-> NoScan]
    /\ crashes = 0

Submit(j, from, to) ==
    /\ submitter[j].pc = from
    /\ submitter' = [submitter EXCEPT ![j].pc = to]

---------------------------------------------------------------------------
(* The admin service.                                                      *)

SetTarget ==
    /\ \/ target = "pending" /\ target' \in {"approved", "revoked"}
       \/ target = "approved" /\ target' = "revoked"
       \/ target = "revoked" /\ target' = "approved"
    /\ UNCHANGED <<day, disabled, quota, submitter, job, pushed, scan, crashes>>

KillSwitch ==
    /\ disabled' = ~disabled
    /\ UNCHANGED <<day, target, quota, submitter, job, pushed, scan, crashes>>

\* cancel_job of the scanner and cancel_scan_job of the admin service.  No
\* job is ever 'running': report_progress stores a worker id only.
CancelJob(j) ==
    /\ job[j] = "queued"
    /\ job' = [job EXCEPT ![j] = "cancelled"]
    /\ UNCHANGED <<day, disabled, target, quota, submitter, pushed, scan, crashes>>

---------------------------------------------------------------------------
(* POST /jobs.                                                             *)

\* Kill switch, approved target, scan types and tier, none of which has a
\* side effect; the count of running jobs is always zero.
Allow(j) ==
    /\ \/ ~disabled /\ target = "approved" /\ Submit(j, "idle", "allowed")
       \/ (disabled \/ target # "approved") /\ Submit(j, "idle", "refused")
    /\ UNCHANGED <<day, disabled, target, quota, job, pushed, scan, crashes>>

\* INCR tells each submission its own place in the day.
CountOffByOne(j) ==
    /\ submitter[j].pc = "allowed"
    /\ quota' = [quota EXCEPT ![day] = @ + 1]
    /\ submitter' = [submitter EXCEPT ![j] =
          [pc |-> IF quota[day] > DailyLimit THEN "over" ELSE "counted", day |-> day]]
    /\ UNCHANGED <<day, disabled, target, job, pushed, scan, crashes>>

CountQuota(j) ==
    /\ submitter[j].pc = "allowed"
    /\ quota' = [quota EXCEPT ![day] = @ + 1]
    /\ submitter' = [submitter EXCEPT ![j] =
          [pc |-> IF quota[day] + 1 > DailyLimit THEN "over" ELSE "counted",
           day |-> day]]
    /\ UNCHANGED <<day, disabled, target, job, pushed, scan, crashes>>

\* DECR, and 429.
GiveBack(j) ==
    /\ Submit(j, "over", "refused")
    /\ quota' = [quota EXCEPT ![submitter[j].day] = @ - 1]
    /\ UNCHANGED <<day, disabled, target, job, pushed, scan, crashes>>

\* INSERT and commit.
InsertJob(j) ==
    /\ Submit(j, "counted", "accepted")
    /\ job' = [job EXCEPT ![j] = "queued"]
    /\ UNCHANGED <<day, disabled, target, quota, pushed, scan, crashes>>

\* LPUSH.
PushJob(j) ==
    /\ Submit(j, "accepted", "done")
    /\ pushed' = Append(pushed, j)
    /\ UNCHANGED <<day, disabled, target, quota, job, scan, crashes>>

---------------------------------------------------------------------------
(* The worker.                                                             *)

\* BRPOP and create_task; the job's row is not read.
PopJob ==
    /\ pushed # <<>>
    /\ pushed' = Tail(pushed)
    /\ scan' = [scan EXCEPT ![Head(pushed)] = [NoScan EXCEPT !.pc = "tools",
                                                             !.running = Tools]]
    /\ UNCHANGED <<day, disabled, target, quota, submitter, job, crashes>>

Report(j, status) == job' = [job EXCEPT ![j] = status]

\* A tool ends; what it found is posted whatever became of the job.
ToolEnds(j, t) ==
    /\ t \in scan[j].running
    /\ scan' = [scan EXCEPT ![j].running = @ \ {t}]
    /\ UNCHANGED <<day, disabled, target, quota, submitter, job, pushed, crashes>>

\* A tool raises: gather passes the exception on, the job is over and the
\* other tools are left running.
ToolRaises(j, t, status) ==
    /\ t \in scan[j].running
    /\ scan' = [scan EXCEPT ![j].running = @ \ {t}, ![j].pc = "over"]
    /\ IF scan[j].pc = "tools" THEN Report(j, status) ELSE UNCHANGED job
    /\ UNCHANGED <<day, disabled, target, quota, submitter, pushed, crashes>>

ToolFails(j, t) == ToolRaises(j, t, "failed")

\* asyncio.TimeoutError: the job is completed with partial results, at once.
ToolTimesOut(j, t) == ToolRaises(j, t, "partial")

\* gather returns when every tool ended; garak runs last.
Gather(j) ==
    /\ scan[j].pc = "tools"
    /\ scan[j].running = {}
    /\ scan' = [scan EXCEPT ![j].pc = "garak"]
    /\ UNCHANGED <<day, disabled, target, quota, submitter, job, pushed, crashes>>

\* complete_job sets the status it is given, whatever the row says.
GarakEnds(j) ==
    /\ scan[j].pc = "garak"
    /\ scan' = [scan EXCEPT ![j].pc = "over"]
    /\ \E status \in {"completed", "partial", "failed"} : Report(j, status)
    /\ UNCHANGED <<day, disabled, target, quota, submitter, pushed, crashes>>

\* The process ends: tasks and requests in flight are gone.
Restart ==
    /\ crashes < MaxCrashes
    /\ crashes' = crashes + 1
    /\ scan' = [j \in Jobs |-> IF scan[j].pc = "none" THEN NoScan
                               ELSE [NoScan EXCEPT !.pc = "over"]]
    /\ submitter' = [j \in Jobs |-> IF submitter[j].pc = "idle" THEN submitter[j]
                                    ELSE [submitter[j] EXCEPT !.pc = "done"]]
    /\ UNCHANGED <<day, disabled, target, quota, job, pushed>>

Midnight ==
    /\ day < MaxDay
    /\ day' = day + 1
    /\ UNCHANGED <<disabled, target, quota, submitter, job, pushed, scan, crashes>>

ScanNext ==
    \/ SetTarget \/ KillSwitch \/ PopJob \/ Restart \/ Midnight
    \/ \E j \in Jobs :
          \/ CancelJob(j) \/ Allow(j) \/ CountQuota(j) \/ GiveBack(j)
          \/ InsertJob(j) \/ PushJob(j) \/ Gather(j) \/ GarakEnds(j)
          \/ \E t \in Tools : ToolEnds(j, t) \/ ToolFails(j, t) \/ ToolTimesOut(j, t)

ScanSpec == ScanInit /\ [][ScanNext]_scanVars

---------------------------------------------------------------------------
\* However submissions interleave with each other, with midnight and with
\* restarts, a day admits no more jobs than the node's quota (_check_quota).
QuotaHolds ==
    \A d \in 0..MaxDay :
        Cardinality({j \in Jobs : job[j] # "absent" /\ submitter[j].day = d}) <= DailyLimit

\* A row that says completed without partial_results has no tool at work:
\* process_job waits for all of them, and only a failure and a timeout, which
\* sets the flag, are reported while others still run.
CompletedWaitsForTools ==
    \A j \in Jobs : job[j] = "completed" => scan[j].running = {}

\* admin scanner.py: "the worker observes the status change": a cancelled
\* job stays cancelled.
CancelHolds ==
    [][\A j \in Jobs : job[j] = "cancelled" => job'[j] = "cancelled"]_scanVars

\* The two together: no more scans a day than allowed are accepted, however submissions
\* overlap (QuotaHolds), and a job is completed in full after its last tool
\* has ended (CompletedWaitsForTools).
ScansSound == QuotaHolds /\ CompletedWaitsForTools
=============================================================================
