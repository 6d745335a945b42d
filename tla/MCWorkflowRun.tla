--------------------------- MODULE MCWorkflowRun ---------------------------
(* Workflow versions and constants for TLC. *)
EXTENDS WorkflowRun, TLC

Arrow(a, b, c) == [from |-> a, to |-> b, cond |-> c]

\* a -> b
PairEdges == {Arrow("a", "b", "always")}
\* a -> b -> c
ChainEdges == {Arrow("a", "b", "always"), Arrow("b", "c", "always")}
\* a -> b, a -> c, b -> d, c -> d
DiamondEdges == {Arrow("a", "b", "always"), Arrow("a", "c", "always"),
                 Arrow("b", "d", "always"), Arrow("c", "d", "always")}
\* a -> b, a -> c
ForkEdges == {Arrow("a", "b", "always"), Arrow("a", "c", "always")}
\* a -> b under a condition, a -> c, b -> c, and c -> an id the version does
\* not declare
ShortcutEdges == {Arrow("a", "b", "x"), Arrow("a", "c", "always"),
                  Arrow("b", "c", "always"), Arrow("c", "ghost", "always")}

SlotSymmetry == Permutations(Slot)
WorkerSymmetry == Permutations(Slot) \cup Permutations(Worker)

\* The program points up to the commit of _finalize_node.
BeforeFinalize == {"claimed", "drop", "resolve", "readKey", "markNode",
                   "markRun", "run", "finalize"}
=============================================================================
