------------------------------- MODULE Alerts -------------------------------
(***************************************************************************)
(* The two alert loops of the observability service, one of each in every  *)
(* replica.  cost_anomaly writes an audit row for a node whose spend of    *)
(* the day is a spike, once a day by a flag in Redis; budget_alert shows   *)
(* the teams over their threshold and posts to a webhook, held back by a   *)
(* flag of two hours.  Postgres may fail at any statement, the webhook at  *)
(* any call; either way the loop goes on with its next check.              *)
(***************************************************************************)
EXTENDS Integers, FiniteSets

CONSTANTS
    Units,      \* organisation nodes (the teams of budget_alert)
    Checkers,   \* replicas of the service
    MaxDays,    \* bound: the day
    MaxAlerts   \* bound: the rows of a node and day, the posts of a team

ASSUME AlertsAssumption == MaxDays \in Nat /\ MaxAlerts \in Nat

NoUnit == "none"

VARIABLES
    today,     \* the calendar day
    spiking,   \* nodes with today >= avg * multiplier and today >= floor
    over,      \* teams at or over budget_alert_pct
    webhook,   \* notification_webhook_url is set
    spikeJob,  \* the check of each replica: nodes to do, the one between two steps
    spikeFlag, \* cost_spike_sent:<node>:<day>
    spikeRows, \* audit_log rows of budget_spike_alert per node and day
    budgetJob, \* the check of each replica
    shown,     \* budget_alert:team:<id>
    sent,      \* budget_alert_sent:team:<id>:<month>
    posts      \* posts that the webhook took

alertVars == <<today, spiking, over, webhook, spikeJob, spikeFlag, spikeRows,
               budgetJob, shown, sent, posts>>
spikeVars == <<spikeJob, spikeFlag, spikeRows>>
budgetVars == <<budgetJob, shown, sent, posts>>
worldVars == <<today, spiking, over, webhook>>

Days == 0..MaxDays
NoJob == [todo |-> {}, at |-> NoUnit, pc |-> "idle", day |-> 0, hook |-> FALSE]
JobType == [todo : SUBSET Units, at : Units \cup {NoUnit},
            pc : {"idle", "found", "next", "read", "post", "posted"}, day : Days,
            hook : BOOLEAN]

AlertsTypeOK ==
    /\ today \in Days
    /\ spiking \subseteq Units
    /\ over \subseteq Units
    /\ webhook \in BOOLEAN
    /\ spikeJob \in [Checkers -> JobType]
    /\ spikeFlag \subseteq Units \X Days
    /\ spikeRows \in [Units \X Days -> 0..MaxAlerts]
    /\ budgetJob \in [Checkers -> JobType]
    /\ shown \subseteq Units
    /\ sent \subseteq Units
    /\ posts \in [Units -> 0..MaxAlerts]

AlertsInit ==
    /\ today = 0
    /\ spiking = {} /\ over = {}
    /\ webhook \in BOOLEAN
    /\ spikeJob = [c \in Checkers |-> NoJob]
    /\ spikeFlag = {}
    /\ spikeRows = [p \in Units \X Days |-> 0]
    /\ budgetJob = [c \in Checkers |-> NoJob]
    /\ shown = {} /\ sent = {}
    /\ posts = [u \in Units |-> 0]

-----------------------------------------------------------------------------
(* cost_anomaly._check_once: the query, the day, then EXISTS, INSERT and     *)
(* SETEX for each spike; an error, or the end of the process, drops what is  *)
(* left.                                                                     *)

Detect(c) ==
    /\ spikeJob[c].pc = "idle"
    /\ spiking # {}
    /\ spikeJob' = [spikeJob EXCEPT ![c] =
         [NoJob EXCEPT !.todo = spiking, !.pc = "found"]]
    /\ UNCHANGED <<spikeFlag, spikeRows, budgetVars, worldVars>>

\* the day is taken once the rows are back, maybe after midnight
TakeDay(c) ==
    /\ spikeJob[c].pc = "found"
    /\ spikeJob' = [spikeJob EXCEPT ![c].pc = "next", ![c].day = today]
    /\ UNCHANGED <<spikeFlag, spikeRows, budgetVars, worldVars>>

\* EXISTS of the flag of the next spike: skip it, or go on to the INSERT
CheckFlag(c) ==
    /\ spikeJob[c].pc = "next"
    /\ \E u \in spikeJob[c].todo :
         spikeJob' = [spikeJob EXCEPT
            ![c].todo = @ \ {u},
            ![c].at = IF <<u, spikeJob[c].day>> \in spikeFlag THEN NoUnit ELSE u,
            ![c].pc = IF <<u, spikeJob[c].day>> \in spikeFlag THEN "next" ELSE "read"]
    /\ UNCHANGED <<spikeFlag, spikeRows, budgetVars, worldVars>>

\* a Report that sets the flag first
ReportAfterFlag(c) ==
    /\ spikeJob[c].pc = "read"
    /\ spikeFlag' = spikeFlag \cup {<<spikeJob[c].at, spikeJob[c].day>>}
    /\ spikeJob' = [spikeJob EXCEPT ![c].pc = "post"]
    /\ UNCHANGED <<spikeRows, budgetVars, worldVars>>

\* the audit row of a spike
ReportAlert(c) ==
    /\ spikeJob[c].pc = "read"
    /\ spikeRows[<<spikeJob[c].at, spikeJob[c].day>>] < MaxAlerts
    /\ spikeRows' = [spikeRows EXCEPT ![<<spikeJob[c].at, spikeJob[c].day>>] = @ + 1]
    /\ spikeJob' = [spikeJob EXCEPT ![c].pc = "post"]
    /\ UNCHANGED <<spikeFlag, budgetVars, worldVars>>

FlagReported(c) ==
    /\ spikeJob[c].pc = "post"
    /\ spikeFlag' = spikeFlag \cup {<<spikeJob[c].at, spikeJob[c].day>>}
    /\ spikeJob' = [spikeJob EXCEPT ![c].pc = "next", ![c].at = NoUnit]
    /\ UNCHANGED <<spikeRows, budgetVars, worldVars>>

EndSpikeCheck(c) ==
    /\ spikeJob[c].pc # "idle"
    /\ spikeJob' = [spikeJob EXCEPT ![c] = NoJob]
    /\ UNCHANGED <<spikeFlag, spikeRows, budgetVars, worldVars>>

-----------------------------------------------------------------------------
(* budget_alert._check_once                                                  *)

LoadBudgets(c) ==
    /\ budgetJob[c].pc = "idle"
    /\ budgetJob' = [budgetJob EXCEPT ![c] =
         [NoJob EXCEPT !.todo = Units, !.pc = "next", !.hook = webhook]]
    /\ UNCHANGED <<shown, sent, posts, spikeVars, worldVars>>

\* the counter of the next team: under the threshold both keys go
ClearAlert(c) ==
    /\ budgetJob[c].pc = "next"
    /\ \E u \in budgetJob[c].todo \ over :
         /\ shown' = shown \ {u}
         /\ sent' = sent \ {u}
         /\ budgetJob' = [budgetJob EXCEPT ![c].todo = @ \ {u}]
    /\ UNCHANGED <<posts, spikeVars, worldVars>>

\* at it, the alert is shown again; the webhook is for one that isn't flagged
ShowAlert(c) ==
    /\ budgetJob[c].pc = "next"
    /\ \E u \in budgetJob[c].todo \cap over :
         /\ shown' = shown \cup {u}
         /\ budgetJob' = [budgetJob EXCEPT
              ![c].todo = @ \ {u},
              ![c].at = IF budgetJob[c].hook /\ u \notin sent THEN u ELSE NoUnit,
              ![c].pc = IF budgetJob[c].hook /\ u \notin sent THEN "post" ELSE "next"]
    /\ UNCHANGED <<sent, posts, spikeVars, worldVars>>

\* _post_webhook: an answer that isn't 2xx, or none, is only logged
PostWebhook(c) ==
    /\ budgetJob[c].pc = "post"
    /\ posts[budgetJob[c].at] < MaxAlerts
    /\ posts' \in {posts, [posts EXCEPT ![budgetJob[c].at] = @ + 1]}
    /\ budgetJob' = [budgetJob EXCEPT ![c].pc = "posted"]
    /\ UNCHANGED <<shown, sent, spikeVars, worldVars>>

MarkSent(c) ==
    /\ budgetJob[c].pc = "posted"
    /\ sent' = sent \cup {budgetJob[c].at}
    /\ budgetJob' = [budgetJob EXCEPT ![c].pc = "next", ![c].at = NoUnit]
    /\ UNCHANGED <<shown, posts, spikeVars, worldVars>>

EndBudgetCheck(c) ==
    /\ budgetJob[c].pc # "idle"
    /\ budgetJob' = [budgetJob EXCEPT ![c] = NoJob]
    /\ UNCHANGED <<shown, sent, posts, spikeVars, worldVars>>

-----------------------------------------------------------------------------
(* Spend moves, the keys of two hours end, a day passes.                     *)

Spike(u) ==
    /\ spiking' = spiking \cup {u}
    /\ UNCHANGED <<today, over, webhook, spikeVars, budgetVars>>

\* a team passes its threshold, or gets a larger budget
Spend(u) ==
    /\ over' = IF u \in over THEN over \ {u} ELSE over \cup {u}
    /\ UNCHANGED <<today, spiking, webhook, spikeVars, budgetVars>>

ExpireAlertKeys(u) ==
    /\ \/ shown' = shown \ {u} /\ UNCHANGED sent
       \/ sent' = sent \ {u} /\ UNCHANGED shown
    /\ UNCHANGED <<budgetJob, posts, spikeVars, worldVars>>

\* a flag of 24 hours outlives its day
NextDay ==
    /\ today < MaxDays
    /\ today' = today + 1
    /\ spiking' = {}
    /\ UNCHANGED <<over, webhook, spikeVars, budgetVars>>

-----------------------------------------------------------------------------
SpikeNext ==
    \/ \E c \in Checkers : \/ Detect(c) \/ TakeDay(c) \/ CheckFlag(c) \/ ReportAlert(c)
                            \/ FlagReported(c) \/ EndSpikeCheck(c)
    \/ \E u \in Units : Spike(u)
    \/ NextDay

BudgetNext ==
    \/ \E c \in Checkers : \/ LoadBudgets(c) \/ ClearAlert(c) \/ ShowAlert(c)
                            \/ PostWebhook(c) \/ MarkSent(c) \/ EndBudgetCheck(c)
    \/ \E u \in Units : Spend(u) \/ ExpireAlertKeys(u)

AlertsNext == SpikeNext \/ BudgetNext

AlertsSpec == AlertsInit /\ [][AlertsNext]_alertVars

-----------------------------------------------------------------------------
(* A spike that is held back as already reported was reported: whatever      *)
(* fails or stops between the two writes, no day's alert is lost for good.   *)
FlaggedIsReported == \A p \in spikeFlag : spikeRows[p] > 0

\* one alert per node and calendar day
OneAlertPerDay == \A p \in Units \X Days : spikeRows[p] <= 1
=============================================================================
