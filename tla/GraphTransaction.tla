-------------------------- MODULE GraphTransaction --------------------------
(***************************************************************************)
(* What SyncSolverBase is promised when it tries a change of the event-id   *)
(* graph: between pushActionNone and clearActionStack or undoActions the    *)
(* graph may change in any way, but what is kept in the end either fits the *)
(* event ids there are, or is the graph of before.  Between two attempts    *)
(* the ids may be renumbered; nodes, edges and pairs stay as they are.      *)
(***************************************************************************)
EXTENDS Integers

CONSTANTS
    Empty,         \* the graph of a new solver
    Structure(_),  \* all of a graph but the numbering of its nodes
    Weight(_)      \* how many ids a graph uses

VARIABLES
    graph,   \* the graph as it is
    saved,   \* the graph the attempt started from; the graph itself outside one
    open,    \* an attempt is under way
    limit    \* the ids there are

vars == <<graph, saved, open, limit>>

Init == graph = Empty /\ saved = Empty /\ open = FALSE /\ limit \in Nat

Begin ==
    /\ ~open /\ open'
    /\ saved' = graph
    /\ UNCHANGED <<graph, limit>>

Change == open /\ open' /\ UNCHANGED <<saved, limit>>

Commit ==
    /\ open /\ ~open'
    /\ Weight(graph) <= limit
    /\ saved' = graph
    /\ UNCHANGED <<graph, limit>>

Rollback ==
    /\ open /\ ~open'
    /\ graph' = saved
    /\ UNCHANGED <<saved, limit>>

Renumber ==
    /\ ~open /\ ~open'
    /\ Structure(graph') = Structure(graph)
    /\ saved' = graph'

Next == Begin \/ Change \/ Commit \/ Rollback \/ Renumber

Spec == Init /\ [][Next]_vars
=============================================================================
