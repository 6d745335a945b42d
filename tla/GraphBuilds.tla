---------------------------- MODULE GraphBuilds ----------------------------
(***************************************************************************)
(* Knowledge-graph builds of one repository name: registering it, queueing *)
(* builds, the workers that claim them, and removal.  A row is known by    *)
(* its uuid, a new one each time the name is registered; what is on the    *)
(* shared volume is known by the name alone.                               *)
(***************************************************************************)
EXTENDS Integers

CONSTANTS
    Urls,       \* GitHub addresses the name is registered with
    Builds,     \* rows of graph_builds, each queued at most once
    Builders,   \* worker processes
    MaxRows,    \* bound: times the name is registered
    MaxDeaths   \* bound: workers killed (a build can exhaust the memory)

ASSUME GraphBuildsAssumption == MaxRows \in Nat /\ MaxDeaths \in Nat

VARIABLES
    repo,     \* graph_repos: the row of the name; id counts registrations
    build,    \* graph_builds; a cascade deletes those of a removed row
    queueing, \* a build inserted whose repository is not yet 'building'
    removing, \* a row was deleted, its directory not yet
    volume,   \* the clone and the graph in the directory of the name
    builder,  \* what each worker is doing
    deaths    \* workers killed so far

graphVars == <<repo, build, queueing, removing, volume, builder, deaths>>

None == "none"
NoBuild == [id |-> 0, status |-> "absent"]
IdleBuilder(b) == [pc |-> "idle", build |-> b, id |-> 0, url |-> None]

GraphTypeOK ==
    /\ repo \in [alive : BOOLEAN, id : 0..MaxRows, url : Urls \cup {None},
                 status : {"registered", "building", "ready", "failed"}]
    /\ build \in [Builds -> [id : 0..MaxRows,
                     status : {"absent", "queued", "running", "succeeded", "failed", "gone"}]]
    /\ queueing \in 0..MaxRows
    /\ removing \in BOOLEAN
    /\ volume \in [src : Urls \cup {None}, graph : Urls \cup {None}]
    /\ builder \in [Builders -> [pc : {"idle", "clone", "extract", "good", "bad"},
                                 build : Builds, id : 0..MaxRows, url : Urls \cup {None}]]
    /\ deaths \in 0..MaxDeaths

GraphInit ==
    /\ repo = [alive |-> FALSE, id |-> 0, url |-> None, status |-> "registered"]
    /\ build = [b \in Builds |-> NoBuild]
    /\ queueing = 0
    /\ removing = FALSE
    /\ volume = [src |-> None, graph |-> None]
    /\ \E b \in Builds : builder = [w \in Builders |-> IdleBuilder(b)]
    /\ deaths = 0

---------------------------------------------------------------------------
(* The API.                                                                *)

\* queue_build: INSERT, in a transaction of its own.
Queue(id) ==
    \E b \in Builds :
        /\ build[b] = NoBuild
        /\ build' = [build EXCEPT ![b] = [id |-> id, status |-> "queued"]]

\* create_repo: the name is free, the row is inserted, a build is queued.
CreateRepo ==
    /\ ~repo.alive
    /\ queueing = 0
    /\ repo.id < MaxRows
    /\ \E u \in Urls : repo' = [alive |-> TRUE, id |-> repo.id + 1, url |-> u,
                                status |-> "registered"]
    /\ Queue(repo.id + 1)
    /\ queueing' = repo.id + 1
    /\ UNCHANGED <<removing, volume, builder, deaths>>

RebuildRepo ==
    /\ repo.alive
    /\ queueing = 0
    /\ Queue(repo.id)
    /\ queueing' = repo.id
    /\ UNCHANGED <<repo, removing, volume, builder, deaths>>

\* queue_build: UPDATE graph_repos SET status = 'building' WHERE id = the row.
MarkBuilding ==
    /\ queueing # 0
    /\ repo' = IF repo.alive /\ repo.id = queueing
               THEN [repo EXCEPT !.status = "building"] ELSE repo
    /\ queueing' = 0
    /\ UNCHANGED <<build, removing, volume, builder, deaths>>

\* remove_repo: DELETE, which cascades to the builds; then the directory.
DeleteRepo ==
    /\ repo.alive
    /\ ~removing
    /\ repo' = [repo EXCEPT !.alive = FALSE, !.status = "registered"]
    /\ build' = [b \in Builds |-> IF build[b].id = repo.id
                                  THEN [build[b] EXCEPT !.status = "gone"] ELSE build[b]]
    /\ removing' = TRUE
    /\ UNCHANGED <<queueing, volume, builder, deaths>>

\* rmtree(ignore_errors=True).
RemoveTree ==
    /\ removing
    /\ removing' = FALSE
    /\ \/ volume' = [src |-> None, graph |-> None]
       \/ UNCHANGED volume
    /\ UNCHANGED <<repo, build, queueing, builder, deaths>>

---------------------------------------------------------------------------
(* A worker.                                                               *)

At(w, pc) == builder[w].pc = pc
Goes(w, pc) == builder' = [builder EXCEPT ![w].pc = pc]

\* claim_next_build: one transaction, FOR UPDATE SKIP LOCKED.
ClaimBuild(w) ==
    /\ At(w, "idle")
    /\ \E b \in Builds :
          /\ build[b].status = "queued"
          /\ build' = [build EXCEPT ![b].status = "running"]
          /\ builder' = [builder EXCEPT ![w] = [pc |-> "clone", build |-> b,
                                                id |-> build[b].id, url |-> repo.url]]
    /\ UNCHANGED <<repo, queueing, removing, volume, deaths>>

\* _clone_or_pull: a clone that is there is fetched from its own origin.
Clone(w) ==
    /\ At(w, "clone")
    /\ \/ /\ volume' = [volume EXCEPT !.src = IF @ = None THEN builder[w].url ELSE @]
          /\ Goes(w, "extract")
       \/ Goes(w, "bad") /\ UNCHANGED volume
    /\ UNCHANGED <<repo, build, queueing, removing, deaths>>

\* graphify extract: it fails when the clone was removed under it, and for
\* reasons of its own.
Extract(w) ==
    /\ At(w, "extract")
    /\ \/ /\ volume.src # None
          /\ volume' = [volume EXCEPT !.graph = volume.src]
          /\ Goes(w, "good")
       \/ Goes(w, "bad") /\ UNCHANGED volume
    /\ UNCHANGED <<repo, build, queueing, removing, deaths>>

\* finish_build: both rows by id, in one transaction.
FinishByName(w) ==
    LET outcome == IF At(w, "good") THEN "succeeded" ELSE "failed" IN
    /\ At(w, "good") \/ At(w, "bad")
    /\ build' = [build EXCEPT ![builder[w].build].status = IF @ = "gone" THEN @ ELSE outcome]
    /\ repo' = IF repo.alive
               THEN [repo EXCEPT !.status = IF At(w, "good") THEN "ready" ELSE "failed"]
               ELSE repo
    /\ builder' = [builder EXCEPT ![w] = IdleBuilder(builder[w].build)]
    /\ UNCHANGED <<queueing, removing, volume, deaths>>

FinishBuild(w) ==
    LET outcome == IF At(w, "good") THEN "succeeded" ELSE "failed" IN
    /\ At(w, "good") \/ At(w, "bad")
    /\ build' = [build EXCEPT ![builder[w].build].status = IF @ = "gone" THEN @ ELSE outcome]
    /\ repo' = IF repo.alive /\ repo.id = builder[w].id
               THEN [repo EXCEPT !.status = IF At(w, "good") THEN "ready" ELSE "failed"]
               ELSE repo
    /\ builder' = [builder EXCEPT ![w] = IdleBuilder(builder[w].build)]
    /\ UNCHANGED <<queueing, removing, volume, deaths>>

\* The container is killed; its build stays 'running' for good.
Die(w) ==
    /\ ~At(w, "idle")
    /\ deaths < MaxDeaths
    /\ deaths' = deaths + 1
    /\ builder' = [builder EXCEPT ![w] = IdleBuilder(builder[w].build)]
    /\ UNCHANGED <<repo, build, queueing, removing, volume>>

GraphNext ==
    \/ CreateRepo \/ RebuildRepo \/ MarkBuilding \/ DeleteRepo \/ RemoveTree
    \/ \E w \in Builders : \/ ClaimBuild(w) \/ Clone(w) \/ Extract(w)
                           \/ FinishBuild(w) \/ Die(w)

GraphSpec == GraphInit /\ [][GraphNext]_graphVars

---------------------------------------------------------------------------
\* A repository is shown ready only after a build of its own row succeeded:
\* a build of a removed namesake that ends late touches nothing, and no two
\* workers run one build (claim_next_build, finish_build).
ReadyWasBuilt ==
    /\ repo.alive /\ repo.status = "ready"
          => \E b \in Builds : build[b] = [id |-> repo.id, status |-> "succeeded"]
    /\ \A v, w \in Builders :
          v # w /\ ~At(v, "idle") /\ ~At(w, "idle") => builder[v].build # builder[w].build

\* What a repository shown ready answers is the graph of its own address.
ReadyIsItsOwnGraph ==
    repo.alive /\ repo.status = "ready" /\ ~removing => volume.graph = repo.url

\* A repository is shown building only while a build of it is under way.
BuildingHasBuild ==
    repo.alive /\ repo.status = "building"
        => \E b \in Builds : build[b].id = repo.id /\ build[b].status \in {"queued", "running"}
=============================================================================
