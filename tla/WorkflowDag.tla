---------------------------- MODULE WorkflowDag ----------------------------
(***************************************************************************)
(* One accepted workflow version and the pure functions that walk it       *)
(* (services/workflow-worker/app/dag.py).  An edge is a record, so two     *)
(* edges with the same ends and different conditions stay two edges, as in *)
(* the JSON list.  An agent's outputs are abstracted to what the worker    *)
(* reads of them: the set of edge conditions they satisfy and the          *)
(* _loop_continue flag.                                                    *)
(***************************************************************************)
EXTENDS Integers, FiniteSets

CONSTANTS
    Node,           \* every node id the version mentions
    Declared,       \* the ids listed under "nodes"; an edge may name another
    Entry,          \* entry_node
    Edges,          \* records [from, to, cond]
    Cond, Always,   \* edge conditions, and the missing condition
    LoopNodes,      \* nodes with loop.enabled
    MaxIterations   \* loop.max_iterations

(***************************************************************************)
(* What create_workflow_version accepts: the entry is declared and every   *)
(* declared node is reachable from it.  Its fixpoint is the least set that *)
(* holds the entry and is closed under the edges.  Neither acyclicity nor  *)
(* that an edge ends in a declared node is asked.                          *)
(***************************************************************************)
ClosedUnderEdges(S) == \A e \in Edges : e.from \in S => e.to \in S

AcceptedVersion ==
    /\ Entry \in Declared
    /\ \A S \in SUBSET Node :
          Entry \in S /\ ClosedUnderEdges(S) => Declared \subseteq S

ASSUME DagAssumption ==
    /\ Declared \subseteq Node
    /\ Always \notin Cond
    /\ Edges \subseteq [from : Node, to : Node, cond : Cond \cup {Always}]
    /\ LoopNodes \subseteq Declared
    /\ MaxIterations \in Nat \ {0}
    /\ AcceptedVersion

Iteration == 0 .. MaxIterations - 1

\* What the worker reads of an agent's outputs.json.
Output == [holds : SUBSET Cond, again : BOOLEAN]
NoOutput == [holds |-> {}, again |-> FALSE]

\* The outputs of node n that its edges and its loop can tell apart.
OutputsOf(n) == {o \in Output :
                    /\ o.holds \subseteq {e.cond : e \in {d \in Edges : d.from = n}}
                    /\ o.again => n \in LoopNodes}

EvaluateCondition(cond, out) == cond = Always \/ cond \in out.holds

OutEdges(n) == {e \in Edges : e.from = n}

IsTerminal(n) == OutEdges(n) = {}

ConditionalSuccessors(n, out) ==
    {e \in OutEdges(n) : EvaluateCondition(e.cond, out)}

Predecessors(n) == {p \in Node : \E e \in Edges : e.from = p /\ e.to = n}

\* The out-edges to follow once n has finished with output out, when state
\* gives the status of every node's iteration 0.
ReadySuccessors_AnyPredecessor(n, state, out) ==
    {e \in ConditionalSuccessors(n, out) :
        \E p \in Predecessors(e.to) : state[p] = "succeeded"}
ReadySuccessors(n, state, out) ==
    {e \in ConditionalSuccessors(n, out) :
        \A p \in Predecessors(e.to) : state[p] = "succeeded"}

ShouldLoop_OffByOne(n, out, iteration) ==
    /\ n \in LoopNodes
    /\ iteration < MaxIterations
    /\ out.again
ShouldLoop(n, out, iteration) ==
    /\ n \in LoopNodes
    /\ iteration < MaxIterations - 1
    /\ out.again
=============================================================================
