--------------------------- MODULE SmallPrograms ---------------------------
(* Functions to try the sync solver on: a few operations on three pipes in *)
(* every small nest of loops and conditions, and functions with so many    *)
(* operations that the event ids do not suffice.                            *)
EXTENDS SyncIr

(* Load, compute and store, on plain buffers and on buffers of a pair.      *)
Load   == Rw("L", <<9>>, <<1>>)
Loads  == Rw("L", <<9>>, <<1, 3>>)
Add    == Rw("V", <<1>>, <<2>>)
Adds   == Rw("V", <<1, 3>>, <<2, 4>>)
Store  == Rw("S", <<2>>, <<8>>)
Stores == Rw("S", <<2, 4>>, <<8>>)

(* Every nest of up to two blocks around the statements.                    *)
Nests(x, y, z) ==
    {<<x, y, z>>,
     <<For(<<x, y, z>>)>>,
     <<x, For(<<y, z>>)>>,
     <<For(<<x, y>>), z>>,
     <<For(<<x, For(<<y, z>>)>>)>>,
     <<For(<<For(<<x, y>>), z>>)>>,
     <<For(<<For(<<x>>), For(<<y, z>>)>>)>>,
     <<For(<<If(<<x>>, <<y>>), z>>)>>,
     <<For(<<If(<<x, y>>, <<>>), z>>)>>,
     <<For(<<x, If(<<y>>, <<z>>)>>)>>,
     <<For(<<If(<<x>>, <<>>), If(<<y>>, <<z>>)>>)>>,
     <<For(<<If(<<For(<<x, y>>)>>, <<z>>)>>)>>,
     <<For(<<Unlikely(<<x>>, <<>>), y, z>>)>>,
     <<For(<<x, Unlikely(<<y>>, <<z>>)>>)>>,
     <<While(<<x>>, <<y, z>>)>>,
     <<For(<<While(<<x, y>>, <<z>>)>>)>>,
     <<ParallelFor(<<x, y, z>>)>>,
     <<For(<<ParallelFor(<<x, y>>), z>>)>>}

(* Two operations, and the blocks between them.                             *)
Pairs(x, y) ==
    {<<x, For(<<y>>)>>,
     <<For(<<x, y>>)>>,
     <<For(<<For(<<x, y>>)>>)>>,
     <<For(<<For(<<x>>), y>>)>>,
     <<For(<<For(<<x>>), For(<<y>>)>>)>>,
     <<If(<<For(<<x>>)>>, <<>>), y>>,
     <<For(<<If(<<x>>, <<y>>)>>)>>,
     <<For(<<If(<<x>>, <<>>), y>>)>>,
     <<For(<<If(<<x>>, <<>>), If(<<y>>, <<>>)>>)>>,
     <<For(<<If(<<For(<<x>>)>>, <<For(<<y>>)>>)>>)>>,
     <<For(<<If(<<If(<<x>>, <<>>)>>, <<y>>)>>)>>,
     <<For(<<If(<<>>, <<For(<<x, y>>)>>)>>)>>,
     <<For(<<If(<<For(<<x, y>>)>>, <<For(<<x, y>>)>>)>>)>>,
     <<For(<<Unlikely(<<x>>, <<>>), y>>)>>,
     <<For(<<Unlikely(<<x>>, <<y>>)>>)>>,
     <<For(<<x>>), Unlikely(<<For(<<y>>)>>, <<>>)>>,
     <<While(<<x>>, <<y>>)>>,
     <<For(<<While(<<x>>, <<If(<<y>>, <<>>)>>)>>)>>,
     <<While(<<If(<<x>>, <<>>)>>, <<y>>)>>,
     <<For(<<ParallelFor(<<x>>), y>>)>>}

(* Several buffers, all loaded before the first is used, or one by one.     *)
LoadTo(b)   == Rw("L", <<9>>, <<b>>)
LoadsTo(b)  == Rw("L", <<9>>, <<b, b + 10>>)
AddFrom(b)  == Rw("V", <<b>>, <<b + 20>>)
AddsFrom(b) == Rw("V", <<b, b + 10>>, <<b + 20, b + 30>>)

Crowded(load(_), use(_), n) ==
    LET all == [b \in 1 .. n |-> load(b)] \o [b \in 1 .. n |-> use(b)]
    IN  {all, <<For(all)>>,
         <<For([b \in 1 .. n |-> load(b)]), For([b \in 1 .. n |-> use(b)])>>,
         <<For(all \o <<use(1)>>)>>,
         <<For(<<use(1), Unlikely(<<load(2)>>, <<>>)>> \o all)>>}

(* Pairs of loops inside one another cannot stand for each other.           *)
Deep(load(_), use(_)) ==
    {<<For(<<For(<<load(1), load(2), load(3), use(1), use(2), use(3)>>)>>)>>,
     <<For(<<use(1), load(1), For(<<use(2), load(2), For(<<use(3), load(3)>>)>>)>>)>>,
     <<For(<<use(1), load(1), For(<<use(2), load(2)>>), For(<<use(3), load(3)>>)>>)>>}
=============================================================================
