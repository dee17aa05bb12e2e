----------------------------- MODULE SyncOrders -----------------------------
(***************************************************************************)
(* The order in which the second version of the sync solver looks at pairs *)
(* of occurrences.  It goes by groups: for a scope and one of its children,*)
(* or for the two visits of a loop, all accesses of one part against those *)
(* of the other, from a priority queue.  The queue only ever yields later  *)
(* elements than the one it is fed by, so a group is a sorted sequence;    *)
(* what SyncSolverV2 decides on the way is which elements it passes over.  *)
(***************************************************************************)
EXTENDS SyncIr

(* memInfoTree1 and memInfoTree2: the accesses under k, in the visit of     *)
(* each loop that is nearest to what comes later, or earlier.               *)
Accesses(ir, k, second) ==
    {r \in k .. ir.occ[k].last - 1 :
        /\ IsRw(ir.op, ir.occ[r].op)
        /\ \A l \in {x \in ir.occ[r].up : x >= k /\ KindOf(ir, x) = "loop"} :
              (r >= ir.occ[l].split) = second}

FirstVisit(ir, k)  == LET c == ChildrenOf(ir.occ, k) IN SubSeq(c, 1, Len(c) \div 2)
SecondVisit(ir, k) == LET c == ChildrenOf(ir.occ, k) IN SubSeq(c, Len(c) \div 2 + 1, Len(c))

Lexicographic(s, t) ==
    \E i \in DOMAIN s : s[i] < t[i] /\ \A j \in 1 .. i - 1 : s[j] = t[j]

(* The child of l that holds k, or l itself.                                *)
PartOf(ir, l, k) == IF l \in ir.occ[k].up THEN Toward(ir.occ, l, k) ELSE l

(* queueElementCmp: the nearest first; a side that is a whole occurrence is *)
(* not divided any further.                                                 *)
Rank(ir, l1, l2, whole1, whole2, e) ==
    (IF whole2 THEN <<>> ELSE <<PartOf(ir, l2, e.b)>>)
    \o (IF whole1 THEN <<>> ELSE <<-PartOf(ir, l1, e.a)>>)
    \o (IF whole1 \/ ~whole2 THEN <<e.b, -e.a>> ELSE <<-e.a, e.b>>)
    \o <<e.i>>

(* One element for each combination of operands that conflicts.             *)
Elements(ir, A, B) ==
    LET x(a) == ir.op[ir.occ[a].op]
        Meet(a, b, i) ==
            LET c == <<<<x(a).rd, x(b).wr>>, <<x(a).wr, x(b).rd>>, <<x(a).wr, x(b).wr>>>>[i]
            IN  ToSet(c[1]) \cap ToSet(c[2]) # {}
    IN  {e \in [a : A, b : B, i : 1 .. 3] : Meet(e.a, e.b, e.i)}

(* generateProcessingOrders of two runs of siblings.                        *)
Group(ir, lca1, lca2, s1, s2, useless, isLca1, isLca2) ==
    IF s1 = <<>> \/ s2 = <<>> THEN <<>>
    ELSE LET whole1 == isLca1 \/ Len(s1) = 1
             whole2 == isLca2 \/ Len(s2) = 1
             l1 == IF Len(s1) = 1 THEN s1[1] ELSE lca1
             l2 == IF Len(s2) = 1 THEN s2[1] ELSE lca2
             In(s) == s[1] .. ir.occ[Last(s)].last - 1
             es == Elements(ir, Accesses(ir, l1, TRUE) \cap In(s1),
                                Accesses(ir, l2, FALSE) \cap In(s2))
             Sooner(e, f) == Lexicographic(Rank(ir, l1, l2, whole1, whole2, e),
                                           Rank(ir, l1, l2, whole1, whole2, f))
             Order(e) == [a |-> e.a, b |-> e.b, useless |-> useless, queued |-> TRUE,
                          par1 |-> IF l1 \in ir.occ[l2].up THEN PartOf(ir, l1, e.a) ELSE l1,
                          par2 |-> IF l2 \in ir.occ[l1].up THEN PartOf(ir, l2, e.b) ELSE l2]
             Insert(e, q) == SelectSeq(q, LAMBDA f : Sooner(f, e)) \o <<e>>
                             \o SelectSeq(q, LAMBDA f : ~Sooner(f, e))
             sorted == FoldSet(Insert, <<>>, es)
         IN  <<[i \in DOMAIN sorted |-> Order(sorted[i])]>>

(* generateProcessingOrders of two occurrences.                             *)
Parts(ir, k, second) ==
    CASE KindOf(ir, k) = "loop" -> IF second THEN SecondVisit(ir, k) ELSE FirstVisit(ir, k)
      [] KindOf(ir, k) # "loop" /\ IsScope(ir.op, ir.occ[k].op) -> ChildrenOf(ir.occ, k)
      [] IsRw(ir.op, ir.occ[k].op) -> <<k>>
      [] OTHER -> <<>>

Against(ir, a, b, useless) ==
    IF IsRw(ir.op, ir.occ[a].op) /\ IsRw(ir.op, ir.occ[b].op)
    THEN <<<<[a |-> a, b |-> b, useless |-> useless, queued |-> FALSE,
              par1 |-> a, par2 |-> b]>>>>
    ELSE Group(ir, a, b, Parts(ir, a, TRUE), Parts(ir, b, FALSE), useless, TRUE, TRUE)

(* generateProcessingOrders of a scope: each child against those before it. *)
GroupsOfScope(ir, k, useless) ==
    LET c == ChildrenOf(ir.occ, k)
    IN  FlattenSeq([i \in DOMAIN c |->
            Group(ir, k, c[i], SubSeq(c, 1, i - 1), <<c[i]>>, useless, FALSE, TRUE)])

AgainstEarlier(ir, s, useless) ==
    FlattenSeq([i \in DOMAIN s |->
        FlattenSeq([j \in 1 .. i - 1 |-> Against(ir, s[j], s[i], useless)])])

(* The same scope in both visits: each child of the later one against those *)
(* that came after it, against itself, and against those before it.         *)
AcrossVisits(ir, k1, k2, useless) ==
    LET c1 == ChildrenOf(ir.occ, k1)
        c2 == ChildrenOf(ir.occ, k2)
        With(i, s) == Group(ir, k1, c2[i], s, <<c2[i]>>, useless, FALSE, TRUE)
    IN  IF ir.occ[k1].op # ir.occ[k2].op THEN Against(ir, k1, k2, useless)
        ELSE FlattenSeq([i \in DOMAIN c2 |->
                 With(i, SubSeq(c1, i + 1, Len(c1)))
                 \o Against(ir, c1[i], c2[i], useless)
                 \o With(i, SubSeq(c1, 1, i - 1))])

(* generateProcessingOrders of a loop.                                      *)
GroupsOfLoop(ir, k, useless) ==
    LET first  == FirstVisit(ir, k)
        second == SecondVisit(ir, k)
    IN  AgainstEarlier(ir, first, useless) \o AgainstEarlier(ir, second, TRUE) \o
        FlattenSeq([j \in DOMAIN second |->
            FlattenSeq([i \in DOMAIN first |->
                AcrossVisits(ir, first[Len(first) + 1 - i], second[j], useless)])])

RECURSIVE GroupsUnder(_, _, _)

(* collectProcessingOrders: inner scopes first.                             *)
GroupsUnder(ir, k, useless) ==
    LET c == ChildrenOf(ir.occ, k)
        loop == KindOf(ir, k) = "loop"
        inner == FlattenSeq([i \in DOMAIN c |->
                    GroupsUnder(ir, c[i], useless \/ (loop /\ i > Len(c) \div 2))])
    IN  CASE loop -> inner \o GroupsOfLoop(ir, k, useless)
          [] ~loop /\ IsScope(ir.op, ir.occ[k].op) -> inner \o GroupsOfScope(ir, k, useless)
          [] OTHER -> <<>>

(* A function as it is handed to the solver.                                *)
Translated(stmts) ==
    LET trees == BuildIr(stmts)
    IN  [ir |-> trees, orders |-> ProcessingOrders(trees),
         groups |-> GroupsUnder(trees, 1, FALSE)]
=============================================================================
