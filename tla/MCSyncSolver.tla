---------------------------- MODULE MCSyncSolver ----------------------------
(* Every small nest of two or three operations, and functions that need    *)
(* more event ids than there are, are solved by both versions.             *)
EXTENDS SyncSolverV2, SyncOrders, SmallPrograms

Ops == {Load, Loads, Adds}

(* Operations of which some load and some add.                              *)
Mixed(n) == {t \in [1 .. n -> Ops] : {t[i].pipe : i \in 1 .. n} = {"L", "V"}}

SolvedPrograms ==
    UNION {Nests(t[1], t[2], t[3]) : t \in Mixed(3)} \cup UNION {Pairs(t[1], t[2]) : t \in Mixed(2)}
    \cup Crowded(LoadTo, AddFrom, 3) \cup Crowded(LoadTo, AddFrom, 4)
    \cup Crowded(LoadsTo, AddsFrom, 2) \cup Crowded(LoadsTo, AddsFrom, 3)
    \cup Deep(LoadTo, AddFrom) \cup Deep(LoadsTo, AddsFrom)

SolvedFunctions == {Translated(f) : f \in SolvedPrograms}
=============================================================================
