------------------------- MODULE WorkflowAuthoring -------------------------
(***************************************************************************)
(* What workflows are made of, before they run: the registry of agent      *)
(* images, the workflows and their immutable versions, the validation a    *)
(* DAG passes before it becomes a version, and the lookup that a submitted *)
(* run makes of them.  Statements of different calls interleave; a version *)
(* is numbered and written in one transaction.                             *)
(***************************************************************************)
EXTENDS Integers, Sequences, FiniteSets

CONSTANTS
    Workflows,
    Authors,     \* calls that append a version
    Submitters,  \* calls that submit a run
    Dags,        \* submitted DAGs: [nodes, edges (pairs), entry]
    AgentSlugs,  \* slugs of agents
    RunLimit,    \* runs of the team in a window
    MaxImages,   \* bound: images registered under a slug
    Unnumbered   \* no workflow, no version, no DAG

ASSUME AuthoringAssumption ==
    /\ RunLimit \in Nat /\ MaxImages \in Nat
    /\ IsFiniteSet(Authors) /\ \A d \in Dags : IsFiniteSet(d.edges)

VARIABLES
    images,   \* agents: per slug, which registered image it has; 0 for none
    versions, \* the committed workflow_versions of each workflow, in order;
              \* latest_version is their number
    author,   \* the calls of create_workflow_version
    submit,   \* the calls of submit_run
    counted   \* workflow_runs:rate of the team

authoringVars == <<images, versions, author, submit, counted>>

-----------------------------------------------------------------------------
(* Validation: the entry is one of the nodes and the loop over the edges,    *)
(* run until nothing changes, reaches every node.  It asks neither that the  *)
(* graph is acyclic nor that an edge ends in a node of the DAG.              *)

Spread(d, S) == S \cup {e[2] : e \in {f \in d.edges : f[1] \in S}}

Reached(d) ==
    LET passes[k \in 0..(Cardinality(d.edges))] ==
          IF k = 0 THEN {d.entry} ELSE Spread(d, passes[k - 1])
    IN  passes[Cardinality(d.edges)]

Valid(d) == d.entry \in d.nodes /\ d.nodes \subseteq Reached(d)

\* reachable, by definition: in every set that holds the entry and is closed
Reachable(d, n) ==
    \A S \in SUBSET (d.nodes \cup {e[2] : e \in d.edges}) :
      d.entry \in S /\ (\A e \in d.edges : e[1] \in S => e[2] \in S) => n \in S

-----------------------------------------------------------------------------
CallTypeOK ==
    /\ author \in [Authors -> [at : {"new", "numbered", "written", "done", "refused"},
                               of : Workflows \cup {Unnumbered},
                               dag : Dags \cup {Unnumbered}]]
    /\ submit \in [Submitters -> [at : {"new", "counted", "pinned", "run", "refused"},
                                  of : Workflows \cup {Unnumbered}, version : Nat,
                                  dag : Dags \cup {Unnumbered}]]

AuthoringTypeOK ==
    /\ images \in [AgentSlugs -> 0..MaxImages]
    /\ CallTypeOK
    /\ counted \in Nat
    /\ \A w \in Workflows :
         versions[w] # Unnumbered =>
           /\ versions[w] \in Seq(Dags)
           /\ \A v \in DOMAIN versions[w] :
                /\ versions[w][v].entry \in versions[w][v].nodes
                /\ \A n \in versions[w][v].nodes : Reachable(versions[w][v], n)

AuthoringInit ==
    /\ images = [a \in AgentSlugs |-> 0]
    /\ versions = [w \in Workflows |-> Unnumbered]
    /\ author = [c \in Authors |-> [at |-> "new", of |-> Unnumbered, dag |-> Unnumbered]]
    /\ submit = [c \in Submitters |->
                   [at |-> "new", of |-> Unnumbered, version |-> 0, dag |-> Unnumbered]]
    /\ counted = 0

\* POST /agents: INSERT ... ON CONFLICT DO UPDATE of everything but `enabled`
CreateAgent(a) ==
    /\ \E i \in 1..MaxImages : images' = [images EXCEPT ![a] = i]
    /\ UNCHANGED <<versions, author, submit, counted>>

CreateWorkflow(w) ==
    /\ versions[w] = Unnumbered
    /\ versions' = [versions EXCEPT ![w] = <<>>]
    /\ UNCHANGED <<images, author, submit, counted>>

-----------------------------------------------------------------------------
(* create_workflow_version.  latest_version + 1 locks the workflow's row     *)
(* until the commit, so that nobody numbers another version meanwhile.       *)

NumberVersion(c, w, d) ==
    /\ author[c].at = "new"
    /\ \A b \in Authors : ~(author[b].of = w /\ author[b].at \in {"numbered", "written"})
    /\ author' = [author EXCEPT ![c] =
                    [at |-> IF Valid(d) /\ versions[w] # Unnumbered THEN "numbered" ELSE "refused",
                     of |-> w, dag |-> d]]
    /\ UNCHANGED <<images, versions, submit, counted>>

WriteVersion(c) ==
    /\ author[c].at = "numbered"
    /\ author' = [author EXCEPT ![c].at = "written"]
    /\ UNCHANGED <<images, versions, submit, counted>>

CommitVersion(c) ==
    /\ author[c].at = "written"
    /\ author' = [author EXCEPT ![c].at = "done"]
    /\ versions' = [versions EXCEPT ![author[c].of] = Append(@, author[c].dag)]
    /\ UNCHANGED <<images, submit, counted>>

\* the INSERT raises, or the call ends before its commit: the number goes back
RollbackVersion(c) ==
    /\ author[c].at \in {"numbered", "written"}
    /\ author' = [author EXCEPT ![c].at = "refused"]
    /\ UNCHANGED <<images, versions, submit, counted>>

-----------------------------------------------------------------------------
(* submit_run, up to the DAG it pins: the counter of the team first, which   *)
(* a Redis error skips, then latest_version unless the caller names a        *)
(* version, then that version's row.                                         *)

CountRun(c) ==
    /\ submit[c].at = "new"
    /\ \E redisFails \in BOOLEAN :
         /\ counted' = IF redisFails THEN counted ELSE counted + 1
         /\ submit' = [submit EXCEPT ![c].at =
                         IF ~redisFails /\ counted + 1 > RunLimit THEN "refused" ELSE "counted"]
    /\ UNCHANGED <<images, versions, author>>

\* the window of the counter closes
ExpireCounter ==
    /\ counted > 0 /\ counted' = 0
    /\ UNCHANGED <<images, versions, author, submit>>

PinVersion(c, w) ==
    /\ submit[c].at = "counted"
    /\ \/ /\ versions[w] # Unnumbered
          /\ submit' = [submit EXCEPT ![c].at = "pinned", ![c].of = w,
                                      ![c].version = Len(versions[w])]
       \/ \E v \in 1..Cardinality(Authors) :
            submit' = [submit EXCEPT ![c].at = "pinned", ![c].of = w, ![c].version = v]
       \/ /\ versions[w] = Unnumbered
          /\ submit' = [submit EXCEPT ![c].at = "refused"]
    /\ UNCHANGED <<images, versions, author, counted>>

ReadDag(c) ==
    /\ submit[c].at = "pinned"
    /\ LET w == submit[c].of
           v == submit[c].version
           found == versions[w] # Unnumbered /\ v \in DOMAIN versions[w]
       IN  submit' = [submit EXCEPT ![c].at = IF found THEN "run" ELSE "refused",
                                    ![c].dag = IF found THEN versions[w][v] ELSE Unnumbered]
    /\ UNCHANGED <<images, versions, author, counted>>

-----------------------------------------------------------------------------
AuthoringNext ==
    \/ \E a \in AgentSlugs : CreateAgent(a)
    \/ \E w \in Workflows :
         \/ CreateWorkflow(w)
         \/ \E c \in Authors, d \in Dags : NumberVersion(c, w, d)
         \/ \E c \in Submitters : PinVersion(c, w)
    \/ \E c \in Authors : WriteVersion(c) \/ CommitVersion(c) \/ RollbackVersion(c)
    \/ \E c \in Submitters : CountRun(c) \/ ReadDag(c)
    \/ ExpireCounter

AuthoringSpec == AuthoringInit /\ [][AuthoringNext]_authoringVars
=============================================================================
