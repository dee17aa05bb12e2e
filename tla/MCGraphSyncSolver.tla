------------------------- MODULE MCGraphSyncSolver -------------------------
(* Functions that are solved by both versions and then run.                *)
EXTENDS GraphSyncSolver, SyncOrders, SmallPrograms

(* With a third pipe, with buffers of a pair, or with functions whose ids   *)
(* run out; but not the one that can be run in by far the most ways.        *)
Winding(x, y) == <<For(<<While(<<x>>, <<If(<<y>>, <<>>)>>)>>)>>

RunPrograms ==
    Nests(Load, Adds, Loads) \cup Nests(Load, Add, Store)
    \cup (Pairs(Loads, Add) \ {Winding(Loads, Add)})
    \cup (Pairs(Loads, Adds) \ {Winding(Loads, Adds)})
    \cup Crowded(LoadTo, AddFrom, 3)

RunFunctions == {Translated(f) : f \in RunPrograms}

(* Two buffers loaded in one condition and used in the next.               *)
SiblingIfs ==
    {Translated(<<For(<<If(<<LoadTo(1), LoadTo(2)>>, <<>>), If(<<AddFrom(1), AddFrom(2)>>, <<>>)>>)>>)}
=============================================================================
