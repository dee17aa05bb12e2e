------------------------------- MODULE SyncIr -------------------------------
(***************************************************************************)
(* How the trees of SyncTree are built, and the order in which the solver  *)
(* looks for conflicts: for each pair of occurrences that ProcessingOrders *)
(* lists.                                                                  *)
(*                                                                         *)
(* A function is given as a sequence of statements: an operation on memory *)
(* (`pipe' it runs on, `rd' and `wr' the buffers it reads and writes, as   *)
(* sequences that are cycled through when an operand is multi-buffered), a *)
(* loop, or a condition.                                                   *)
(***************************************************************************)
EXTENDS SyncTree

Rw(p, r, w)     == [kind |-> "rw", pipe |-> p, rd |-> r, wr |-> w]
Block(k, bs, f) == [kind |-> k, bodies |-> bs, flag |-> f]
For(b)          == Block("loop", <<b>>, FALSE)
ParallelFor(b)  == Block("loop", <<b>>, TRUE)
While(b, c)     == Block("loop", <<b, c>>, FALSE)
If(b, e)        == Block("if", <<b, e>>, FALSE)
Unlikely(b, e)  == Block("if", <<b, e>>, TRUE)

NoRw == Rw("none", <<>>, <<>>)

(* `of' is the loop or scope a placeholder belongs to, `flag' marks a       *)
(* parallel loop or an unlikely condition.                                  *)
Node(k, par, up, of, flag, s) ==
    [kind |-> k, parent |-> par, up |-> up, of |-> of, flag |-> flag,
     pipe |-> s.pipe, rd |-> s.rd, wr |-> s.wr]

Plain(k, par, up)           == Node(k, par, up, 0, FALSE, NoRw)
Placeholder(k, par, up, of) == Node(k, par, up, of, FALSE, NoRw)

RECURSIVE Emit(_, _, _, _)

(* The part of the tree that starts with record number `at': here a scope,  *)
(* its statements between a begin and an end placeholder.                   *)
EmitScope(k, par, up, at, body) ==
    LET inner == up \cup {at}
    IN  <<Plain(k, par, up), Placeholder("begin", at, inner, at)>>
        \o FoldLeft(LAMBDA ns, s : ns \o Emit(at, inner, at + 2 + Len(ns), s), <<>>, body)
        \o <<Placeholder("end", at, inner, at)>>

(* A loop or a condition with one scope for each of its bodies.             *)
EmitBlock(par, up, at, s) ==
    <<Node(s.kind, par, up, 0, s.flag, NoRw)>>
    \o FoldLeft(LAMBDA ns, b : ns \o EmitScope("scope", at, up \cup {at}, at + 1 + Len(ns), b),
                <<>>, s.bodies)

Emit(par, up, at, s) ==
    CASE s.kind = "rw"   -> <<Node("rw", par, up, 0, FALSE, s)>>
      [] s.kind = "loop" -> <<Placeholder("before", par, up, at + 1)>>
                            \o EmitBlock(par, up, at + 1, s)
                            \o <<Placeholder("after", par, up, at + 1)>>
      [] s.kind = "if"   -> EmitBlock(par, up, at, s)

(* Function, its scope, and the function block that holds the statements.   *)
BuildOps(stmts) ==
    <<Plain("function", Top, {}), Plain("scope", 1, {1})>>
    \o EmitScope("block", 2, {1, 2}, 3, stmts)

RECURSIVE Visit(_, _, _, _, _)

(* syncIrBuilder: `start' and `end' are ticks of one clock that advances    *)
(* with every occurrence entered and left, `last' is the index after the    *)
(* subtree and `split' where a loop's second visit begins.                  *)
Visit(ops, x, par, up, at) ==
    LET inner      == up \cup {at}
        Once(from) == FoldLeft(LAMBDA os, c : os \o Visit(ops, c, at, inner, from + Len(os)),
                               <<>>, ChildrenOf(ops, x))
        isLoop     == ops[x].kind = "loop"
        once       == Once(at + 1)
        inside     == IF isLoop THEN once \o Once(at + 1 + Len(once)) ELSE once
        start      == 2 * (at - 1) - Cardinality(up)
    IN  <<[op |-> x, parent |-> par, up |-> up,
           start |-> start, end |-> start + 2 * Len(inside) + 1,
           last |-> at + 1 + Len(inside),
           split |-> IF isLoop THEN at + 1 + Len(once) ELSE 0]>> \o inside

BuildIrOf(ops) == [op |-> ops, occ |-> Visit(ops, 1, Top, {}, 1)]
BuildIr(stmts) == BuildIrOf(BuildOps(stmts))
-----------------------------------------------------------------------------
(* Of a loop that holds only one of the two, the nearest visit is enough.   *)
SkipLaterIterations(ir, a, b) ==
    \E x \in {a, b} :
        LET par == ir.occ[x].parent
        IN  /\ par # Top /\ ir.op[ir.occ[par].op].kind = "loop"
            /\ a < ir.occ[par].split /\ ir.occ[par].split <= b

RECURSIVE OrdersOf(_, _, _, _)

(* generateProcessingOrders of two lists: the second forwards, the first    *)
(* backwards, so that the nearest pairs come first.                         *)
OrdersAcross(ir, s1, s2, useless) ==
    FlattenSeq([j \in 1 .. Len(s2) |->
        FlattenSeq([i \in 1 .. Len(s1) |->
            OrdersOf(ir, s1[Len(s1) + 1 - i], s2[j], useless)])])

OrdersOf(ir, a, b, useless) ==
    LET opA == ir.occ[a].op
        opB == ir.occ[b].op
        Parts(x, op) == IF IsScope(ir.op, op) THEN ChildrenOf(ir.occ, x) ELSE <<x>>
        leaf(op) == IsRw(ir.op, op)
        Node2(op) == IsScope(ir.op, op) \/ IsRw(ir.op, op)
    IN  CASE SkipLaterIterations(ir, a, b) -> <<>>
          [] ~(Node2(opA) /\ Node2(opB)) -> <<>>
          [] leaf(opA) /\ leaf(opB) -> <<[a |-> a, b |-> b, useless |-> useless]>>
          [] OTHER -> OrdersAcross(ir, Parts(a, opA), Parts(b, opB), useless)

OrdersWithin(ir, s, useless) ==
    FlattenSeq([i \in 1 .. Len(s) |->
        FlattenSeq([j \in 1 .. (i - 1) |-> OrdersOf(ir, s[i - j], s[i], useless)])])

(* generateProcessingOrders of a loop: each visit, then one against the other.*)
OrdersOfLoop(ir, k, useless) ==
    LET c == ChildrenOf(ir.occ, k)
        first  == SubSeq(c, 1, Len(c) \div 2)
        second == SubSeq(c, Len(c) \div 2 + 1, Len(c))
    IN  OrdersWithin(ir, first, useless) \o OrdersWithin(ir, second, TRUE) \o
        FlattenSeq([j \in 1 .. Len(second) |->
            FlattenSeq([i \in 1 .. Len(first) |->
                OrdersAcross(ir, ChildrenOf(ir.occ, first[Len(first) + 1 - i]),
                                 ChildrenOf(ir.occ, second[j]), useless)])])

RECURSIVE OrdersUnder(_, _, _)

(* buildOfflineProcessingOrders: inner scopes first.                        *)
OrdersUnder(ir, k, useless) ==
    LET c == ChildrenOf(ir.occ, k)
        loop == ir.op[ir.occ[k].op].kind = "loop"
        inner == FlattenSeq([i \in 1 .. Len(c) |->
                    OrdersUnder(ir, c[i], useless \/ (loop /\ i > Len(c) \div 2))])
    IN  IF loop THEN inner \o OrdersOfLoop(ir, k, useless)
        ELSE inner \o OrdersWithin(ir, c, useless)

ProcessingOrders(ir) == OrdersUnder(ir, 1, FALSE)
=============================================================================
