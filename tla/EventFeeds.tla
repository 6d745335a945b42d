----------------------------- MODULE EventFeeds -----------------------------
(***************************************************************************)
(* The two event streams the admin service offers over Redis pub/sub.      *)
(* /runs/{id}/stream sends a snapshot of a run and then what the worker    *)
(* and the admin service publish about it; here the run has one node, and  *)
(* its job is claimed by one worker at a time.  /config/stream tells each  *)
(* bump of the gateway's configuration version.  Pub/sub keeps nothing:    *)
(* what is published while nobody listens is gone.                         *)
(***************************************************************************)
EXTENDS Integers, Sequences

CONSTANTS
    Watchers,        \* SSE streams of the run
    Notifiers,       \* concurrent callers of POST /config/notify
    Listeners,       \* SSE streams of the configuration
    MaxWorkerCrashes \* bound: crashes of the worker in the middle of the job

ASSUME EventFeedsAssumption == MaxWorkerCrashes \in Nat

VARIABLES
    run,        \* workflow_runs.status
    nodeStatus, \* run_nodes.status: 0 pending, 1 running, 2 finished
    worker,     \* how far the worker is with the job
    canceller,\* how far a cancellation is
    workerCrashes,
    watch,       \* the streams of the run
    blobVersion, \* gateway:config:version
    blob,        \* the version inside gateway:config
    notify,      \* the calls of notify_config_change
    listen       \* the streams of the configuration

runVars == <<run, nodeStatus, worker, canceller, workerCrashes, watch>>
configVars == <<blobVersion, blob, notify, listen>>
feedVars == <<run, nodeStatus, worker, canceller, workerCrashes, watch,
              blobVersion, blob, notify, listen>>

Statuses == {"pending", "running", "finished", "cancelled"}
FeedEvents == {"node.started", "node.log", "node.finished", "run.finished"}
WorkerStages == {"unclaimed", "claimed", "running", "executing", "logged", "finished",
                 "told", "closed", "over", "dead"}
WatchStages == {"new", "status", "snapshot", "live", "ended"}
NewWatch == [at |-> "new", run |-> "pending", inbox |-> <<>>, shown |-> 0,
             heard |-> FALSE]

FeedsTypeOK ==
    /\ run \in Statuses /\ nodeStatus \in 0..2
    /\ worker \in WorkerStages
    /\ canceller \in {"none", "cancelled", "told"}
    /\ workerCrashes \in 0..MaxWorkerCrashes
    /\ watch \in [Watchers -> [at : WatchStages, run : Statuses, inbox : Seq(FeedEvents),
                               shown : 0..2, heard : BOOLEAN]]
    /\ blobVersion \in Nat /\ blob \in Nat
    /\ notify \in [Notifiers -> [at : {"new", "bumped", "read", "written", "over"}, mine : Nat]]
    /\ listen \in [Listeners -> [at : {"new", "version", "live"}, told : Nat,
                                 inbox : Seq(Nat)]]

FeedsInit ==
    /\ run = "pending" /\ nodeStatus = 0 /\ worker = "unclaimed"
    /\ canceller = "none" /\ workerCrashes = 0
    /\ watch = [w \in Watchers |-> NewWatch]
    /\ blobVersion = 0 /\ blob = 0
    /\ notify = [n \in Notifiers |-> [at |-> "new", mine |-> 0]]
    /\ listen = [l \in Listeners |-> [at |-> "new", told |-> 0, inbox |-> <<>>]]

-----------------------------------------------------------------------------
(* The producers.  publish() reaches who is subscribed, or fails silently.   *)

Announced(e) ==
    [w \in Watchers |-> IF watch[w].at = "live"
                        THEN [watch[w] EXCEPT !.inbox = Append(@, e)] ELSE watch[w]]
PublishEvent(e) == watch' \in {watch, Announced(e)}

\* a claimed job; a job of a cancelled run is dropped
FetchRun ==
    /\ worker = "unclaimed"
    /\ worker' = IF run = "cancelled" THEN "over" ELSE "claimed"
    /\ UNCHANGED <<run, nodeStatus, canceller, workerCrashes, watch>>

\* the node is marked whatever has become of the run meanwhile
MarkNodeRunning ==
    /\ worker = "claimed"
    /\ worker' = "running"
    /\ nodeStatus' = 1
    /\ run' = IF run = "pending" THEN "running" ELSE run
    /\ UNCHANGED <<canceller, workerCrashes, watch>>

NodeStarted ==
    /\ worker = "running"
    /\ worker' = "executing"
    /\ PublishEvent("node.started")
    /\ UNCHANGED <<run, nodeStatus, canceller, workerCrashes>>

\* one line of the agent's output stands for all
NodeLog ==
    /\ worker = "executing"
    /\ worker' = "logged"
    /\ PublishEvent("node.log")
    /\ UNCHANGED <<run, nodeStatus, canceller, workerCrashes>>

FinalizeNode ==
    /\ worker \in {"executing", "logged"}
    /\ worker' = "finished"
    /\ nodeStatus' = 2
    /\ UNCHANGED <<run, canceller, workerCrashes, watch>>

NodeFinished ==
    /\ worker = "finished"
    /\ worker' = "told"
    /\ PublishEvent("node.finished")
    /\ UNCHANGED <<run, nodeStatus, canceller, workerCrashes>>

\* whatever the status was
MarkRunFinished ==
    /\ worker = "told"
    /\ worker' = "closed"
    /\ run' = "finished"
    /\ UNCHANGED <<nodeStatus, canceller, workerCrashes, watch>>

RunFinished ==
    /\ worker = "closed"
    /\ worker' = "over"
    /\ PublishEvent("run.finished")
    /\ UNCHANGED <<run, nodeStatus, canceller, workerCrashes>>

\* the lease expires and the job is claimed again, unless the node is finished
\* and its row deleted: then nobody goes on
WorkerCrash ==
    /\ worker \notin {"unclaimed", "over", "dead"} /\ workerCrashes < MaxWorkerCrashes
    /\ worker' = IF worker \in {"claimed", "running", "executing", "logged"}
                 THEN "unclaimed" ELSE "dead"
    /\ workerCrashes' = workerCrashes + 1
    /\ UNCHANGED <<run, nodeStatus, canceller, watch>>

CancelRun ==
    /\ run \in {"pending", "running"} /\ canceller = "none"
    /\ run' = "cancelled"
    /\ canceller' = "cancelled"
    /\ UNCHANGED <<nodeStatus, worker, workerCrashes, watch>>

AnnounceCancel ==
    /\ canceller = "cancelled"
    /\ canceller' = "told"
    /\ PublishEvent("run.finished")
    /\ UNCHANGED <<run, nodeStatus, worker, workerCrashes>>

-----------------------------------------------------------------------------
(* A stream of the run: status, nodes, snapshot, and only then subscribe.    *)

WatchStep(w, new) ==
    /\ watch' = [watch EXCEPT ![w] = new]
    /\ UNCHANGED <<run, nodeStatus, worker, canceller, workerCrashes>>

ReadStatus(w) ==
    /\ watch[w].at = "new"
    /\ WatchStep(w, [watch[w] EXCEPT !.at = "status", !.run = run])

\* a stream that subscribes before it reads, so as to miss nothing
SendSnapshot_Subscribed(w) ==
    /\ watch[w].at \in {"status", "live"} /\ ~watch[w].heard
    /\ WatchStep(w, IF watch[w].at = "status" THEN [watch[w] EXCEPT !.at = "live"]
                    ELSE [watch[w] EXCEPT !.shown = nodeStatus, !.heard = TRUE])

SendSnapshot(w) ==
    /\ watch[w].at = "status"
    /\ WatchStep(w, [watch[w] EXCEPT !.at = "snapshot", !.shown = nodeStatus, !.heard = TRUE])

SubscribeRun(w) ==
    /\ watch[w].at = "snapshot"
    /\ WatchStep(w, [watch[w] EXCEPT !.at = "live"])

Shows(e, rank) == IF e = "node.started" THEN 1 ELSE IF e = "node.finished" THEN 2 ELSE rank

\* the stream stops once it has passed run.finished on
ForwardEvent(w) ==
    /\ watch[w].at = "live" /\ watch[w].heard /\ watch[w].inbox # <<>>
    /\ LET e == Head(watch[w].inbox)
       IN  WatchStep(w, [watch[w] EXCEPT !.inbox = Tail(@), !.shown = Shows(e, @),
                                         !.at = IF e = "run.finished" THEN "ended" ELSE @])

Hangup(w) ==
    /\ watch[w].at = "live"
    /\ WatchStep(w, [NewWatch EXCEPT !.at = "ended"])

-----------------------------------------------------------------------------
(* notify_config_change: INCR, then the version is written into the blob     *)
(* with a GET and a SET, then published.  An error is logged and ends it.    *)

Notify(n, from, to) == notify[n].at = from /\ notify' = [notify EXCEPT ![n].at = to]

BumpVersion(n) ==
    /\ notify[n].at = "new"
    /\ blobVersion' = blobVersion + 1
    /\ notify' = [notify EXCEPT ![n] = [at |-> "bumped", mine |-> blobVersion + 1]]
    /\ UNCHANGED <<blob, listen>>

ReadBlob(n) == Notify(n, "bumped", "read") /\ UNCHANGED <<blobVersion, blob, listen>>

WriteBlob(n) ==
    /\ Notify(n, "read", "written")
    /\ blob' = notify[n].mine
    /\ UNCHANGED <<blobVersion, listen>>

PublishVersion(n) ==
    /\ Notify(n, "written", "over")
    /\ listen' = [l \in Listeners |->
                    IF listen[l].at = "live"
                    THEN [listen[l] EXCEPT !.inbox = Append(@, notify[n].mine)]
                    ELSE listen[l]]
    /\ UNCHANGED <<blobVersion, blob>>

NotifyFails(n) ==
    /\ notify[n].at \notin {"new", "over"}
    /\ Notify(n, notify[n].at, "over")
    /\ UNCHANGED <<blobVersion, blob, listen>>

\* `connected`, with the version read before the subscription
Connect(l) ==
    /\ listen[l].at = "new"
    /\ listen' = [listen EXCEPT ![l].at = "version", ![l].told = blobVersion]
    /\ UNCHANGED <<blobVersion, blob, notify>>

SubscribeConfig(l) ==
    /\ listen[l].at = "version"
    /\ listen' = [listen EXCEPT ![l].at = "live"]
    /\ UNCHANGED <<blobVersion, blob, notify>>

ForwardVersion(l) ==
    /\ listen[l].at = "live" /\ listen[l].inbox # <<>>
    /\ listen' = [listen EXCEPT ![l].told = Head(listen[l].inbox),
                                ![l].inbox = Tail(listen[l].inbox)]
    /\ UNCHANGED <<blobVersion, blob, notify>>

-----------------------------------------------------------------------------
RunFeedNext ==
    /\ \/ FetchRun \/ MarkNodeRunning \/ NodeStarted \/ NodeLog
       \/ FinalizeNode \/ NodeFinished \/ MarkRunFinished \/ RunFinished
       \/ WorkerCrash \/ CancelRun \/ AnnounceCancel
       \/ \E w \in Watchers : \/ ReadStatus(w) \/ SendSnapshot(w) \/ SubscribeRun(w)
                              \/ ForwardEvent(w) \/ Hangup(w)
    /\ UNCHANGED configVars

ConfigFeedNext ==
    /\ \/ \E n \in Notifiers : \/ BumpVersion(n) \/ ReadBlob(n) \/ WriteBlob(n)
                               \/ PublishVersion(n) \/ NotifyFails(n)
       \/ \E l \in Listeners : Connect(l) \/ SubscribeConfig(l) \/ ForwardVersion(l)
    /\ UNCHANGED runVars

FeedsNext == RunFeedNext \/ ConfigFeedNext

\* The worker and every stream go on; nobody has to crash, cancel or hang up.
FeedsSpec ==
    /\ FeedsInit /\ [][FeedsNext]_feedVars
    /\ WF_feedVars(FetchRun /\ UNCHANGED configVars)
    /\ WF_feedVars((MarkNodeRunning \/ NodeStarted \/ FinalizeNode \/ NodeFinished \/ MarkRunFinished
                      \/ RunFinished \/ AnnounceCancel) /\ UNCHANGED configVars)
    /\ \A w \in Watchers :
         WF_feedVars((ReadStatus(w) \/ SendSnapshot(w) \/ SubscribeRun(w)
                        \/ ForwardEvent(w)) /\ UNCHANGED configVars)

-----------------------------------------------------------------------------
(* What a stream shows of the node never goes backwards: no event that is    *)
(* older than the snapshot is passed on after it.                            *)
NeverBackwards ==
    [][\A w \in Watchers :
         watch[w].heard /\ watch'[w].heard => watch'[w].shown >= watch[w].shown]_feedVars

\* the stream of a run that ends, ends with run.finished
EveryStreamEnds ==
    \A w \in Watchers : (watch[w].at = "live" /\ worker = "over") ~> (watch[w].at = "ended")

\* notify_config_change may be called concurrently
BlobIsCurrent ==
    (\A n \in Notifiers : notify[n].at \in {"new", "over"}) => blob = blobVersion
=============================================================================
