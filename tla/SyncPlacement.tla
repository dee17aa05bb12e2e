--------------------------- MODULE SyncPlacement ---------------------------
(***************************************************************************)
(* Where the sync of two occurrences goes.  For every pair of occurrences  *)
(* the solver looks at, Plan is what SyncSolverBase works out from the     *)
(* trees alone, before it looks at what was chosen earlier: whether the    *)
(* pair has to be ordered at all, by a barrier or by a set and a wait, how *)
(* many event ids it is worth, and the occurrences that hold the set and   *)
(* the wait.  What is decided from the chosen pairs is in SyncSolver.      *)
(*                                                                         *)
(* Occurrences and operations are numbers in pre-order (SyncTree).         *)
(***************************************************************************)
EXTENDS SyncTree

CommonScope(t, a, b) == Deepest(t[a].up \cap t[b].up)
OccOf(ir, k, x)      == CHOOSE y \in {k} \cup ir.occ[k].up : ir.occ[y].op = x
LoopAt(ops, x)       == Deepest({y \in {x} \cup ops[x].up : ops[y].kind = "loop"})

(* The same place in the other visit of loop l.                             *)
FirstIterOcc(ir, k, l)  == IF k < ir.occ[l].split THEN k ELSE k - Shift(ir, l)
LastIterOcc(ir, k, l)   == IF k < ir.occ[l].split THEN k + Shift(ir, l) ELSE k

(* The wait belongs to a later visit of some loop than the set.             *)
IsBackward(ir, a, b) ==
    LET x == ir.occ[a].op
        y == ir.occ[b].op
    IN  \/ x >= y
        \/ ir.occ[CommonScope(ir.occ, a, b)].op # CommonScope(ir.op, x, y)
-----------------------------------------------------------------------------
(* The two are in different branches of one condition.                      *)
ImpossiblePair(ir, a, b) ==
    /\ ir.occ[a].op # ir.occ[b].op
    /\ KindOf(ir, CommonScope(ir.occ, a, b)) = "if"

(* A loop inside the common one orders them between its own visits.         *)
AlreadySynced(ir, a, b) ==
    LET outer == LoopAt(ir.op, ir.occ[CommonScope(ir.occ, a, b)].op)
        inner == LoopAt(ir.op, CommonScope(ir.op, ir.occ[a].op, ir.occ[b].op))
    IN  /\ outer # Top
        /\ \E l \in {inner} \cup ir.op[inner].up :
              l > outer /\ ir.op[l].kind = "loop" /\ ~ir.op[l].flag

ParallelVisits(ir, a, b) ==
    /\ IsBackward(ir, a, b)
    /\ ir.op[LoopAt(ir.op, ir.occ[CommonScope(ir.occ, a, b)].op)].flag

FilteredOut(ir, a, b) ==
    ImpossiblePair(ir, a, b) \/ AlreadySynced(ir, a, b) \/ ParallelVisits(ir, a, b)
-----------------------------------------------------------------------------
(* The combinations of operands that may conflict: read-write, write-read   *)
(* and write-write.  Address i of an operand is the one it uses in visit i. *)
Operands(x, y) == {<<x.rd, y.wr>>, <<x.wr, y.rd>>, <<x.wr, y.wr>>}
Conflicting(x, y) ==
    {c \in Operands(x, y) : ToSet(c[1]) \cap ToSet(c[2]) # {}}

Lcm(m, n) == CHOOSE k \in 1 .. (m * n) :
                /\ k % m = 0 /\ k % n = 0
                /\ \A j \in 1 .. (k - 1) : j % m # 0 \/ j % n # 0

(* With n ids, visits whose numbers differ modulo n are not ordered.        *)
ConflictUnderIds(c, len, n) ==
    \E i, j \in 0 .. (len - 1) :
        i % n # j % n /\ c[1][(i % Len(c[1])) + 1] = c[2][(j % Len(c[2])) + 1]

(* getMultiBufferEventIdNum *)
MultiBufferEventIdNum(x, y) ==
    LET cs     == Conflicting(x, y)
        period == FoldSet(LAMBDA c, n : Lcm(n, Lcm(Len(c[1]), Len(c[2]))), 1, cs)
        least  == Min(UNION {(IF c[1] = x.wr THEN {Len(c[1])} ELSE {}) \cup
                             (IF c[2] = y.wr THEN {Len(c[2])} ELSE {}) : c \in cs})
    IN  Deepest({n \in 1 .. least :
            \A c \in Operands(x, y) : ~ConflictUnderIds(c, Lcm(period, n), n)})
-----------------------------------------------------------------------------
(* getSetWaitLCAPairOcc: the children of the common scope of the operations,*)
(* then out of every loop whose two visits do not both contain the pair.    *)
SetWaitAt(ir, a, b) ==
    LET common == CommonScope(ir.op, ir.occ[a].op, ir.occ[b].op)
        both   == CommonScope(ir.occ, a, b)
        Hoisted(k) ==
            LET at    == Toward(ir.occ, OccOf(ir, k, common), k)
                side  == Toward(ir.occ, both, k)
                loops == {l \in ir.occ[at].up : KindOf(ir, l) = "loop" /\ side \in ir.occ[l].up}
            IN  IF loops = {} THEN at ELSE Min(loops)
    IN  <<Hoisted(a), Hoisted(b)>>

(* getMultiBufferEventIdInfo: 1 unless both operations cycle through their  *)
(* buffers with the counter of the one loop that holds set and wait.        *)
EventIdNum(ir, a, b) ==
    LET x == ir.occ[a].op
        y == ir.occ[b].op
        scope == ParentLoopOp(ir.op, x)
        n == MultiBufferEventIdNum(ir.op[x], ir.op[y])
        sw == SetWaitAt(ir, a, b)
        conditional == \E c \in ir.op[x].up \cap ir.op[y].up :
                          ir.op[c].kind = "if" /\ c \notin ir.op[scope].up
    IN  IF /\ IsBackward(ir, a, b)
           /\ scope # Top /\ ParentLoopOp(ir.op, y) = scope
           /\ n > 1
           /\ ~(n > 2 /\ conditional)
           /\ \A k \in ToSet(sw) : ParentLoopOp(ir.op, ir.occ[k].op) = scope
        THEN n ELSE 1
-----------------------------------------------------------------------------
(* The innermost unlikely condition that runs k only when it holds.         *)
UnlikelyCondition(ir, k) ==
    Deepest({c \in ir.occ[k].up :
        ir.op[ir.occ[c].op].flag /\ KindOf(ir, c) = "if" /\ (c + 1) \in ir.occ[k].up})

(* getUnlikelyCondSetWaitOcc: keep the whole sync inside that condition.    *)
InsideUnlikely(ir, a, b) ==
    LET Alone(u, other) ==
            /\ u # Top /\ u \notin ir.occ[other].up
            /\ ParentLoopOcc(ir, u) \in ir.occ[other].up \cup {Top}
        ua == UnlikelyCondition(ir, a)
        ub == UnlikelyCondition(ir, b)
    IN  CASE Alone(ua, b) -> <<a, ScopeEnd(ir, ua + 1)>>
          [] ~Alone(ua, b) /\ Alone(ub, a) -> <<ScopeBegin(ub + 1), b>>
          [] OTHER -> <<a, b>>

IsPlaceholder(ir, k) == KindOf(ir, k) \in {"begin", "end", "before", "after"}

(* Between the condition of a while loop and its body the wait ends the     *)
(* scope of the set.                                                        *)
FaultyFixWhile(ir, a, b, sw) == sw

FixWhile(ir, a, b, sw) ==
    LET loop == ir.occ[sw[1]].parent
    IN  IF /\ ir.occ[sw[1]].op # ir.occ[sw[2]].op
           /\ KindOf(ir, loop) = "loop"
           /\ Len(ChildrenOf(ir.op, ir.occ[loop].op)) > 1
           /\ ~IsPlaceholder(ir, sw[2])
        THEN SetWaitAt(ir, a, ScopeEnd(ir, sw[1])) ELSE sw

UnderCondition(ir, k) == ir.occ[k].parent # Top /\ KindOf(ir, ir.occ[k].parent) = "if"

(* Across visits both ends leave the branches of a condition.               *)
FaultyLeaveBranches(ir, sw) == sw

LeaveBranches(ir, sw) ==
    IF IsBackward(ir, sw[1], sw[2])
    THEN [i \in 1 .. 2 |-> IF UnderCondition(ir, sw[i]) THEN ir.occ[sw[i]].parent ELSE sw[i]]
    ELSE sw

(* Set after, and wait before, a whole loop.                                *)
OutsideLoops(ir, sw) ==
    <<IF KindOf(ir, sw[1]) = "loop" THEN AfterLoop(ir, sw[1]) ELSE sw[1],
      IF KindOf(ir, sw[2]) = "loop" THEN BeforeLoop(sw[2]) ELSE sw[2]>>

(* The condition that k is a direct statement of the true branch of.        *)
TrueBranchOf(ir, k) ==
    LET branch == ir.occ[k].parent
        cond   == ir.occ[branch].parent
    IN  IF cond # Top /\ KindOf(ir, cond) = "if" /\ branch = cond + 1 THEN cond ELSE Top

(* Two conditions side by side: set and wait stay in their branches.        *)
InSiblingIfs(ir, a, b) ==
    LET x == TrueBranchOf(ir, a)
        y == TrueBranchOf(ir, b)
    IN  /\ IsBackward(ir, a, b)
        /\ x # Top /\ y # Top /\ ir.occ[x].op # ir.occ[y].op
        /\ ir.op[ir.occ[x].op].parent = ir.op[ir.occ[y].op].parent

(* Of a backward pair with one id that leaves a branch, the wait moves to   *)
(* the end of the scope of the set.                                         *)
StaysInVisit(ir, sw, num) ==
    num < 2 /\ IsBackward(ir, sw[1], sw[2]) /\ UnderCondition(ir, sw[1])

(* Where set and wait are, and the conditions whose branches they stay in.  *)
At(sw, inside, setIf, waitIf) ==
    [set |-> sw[1], wait |-> sw[2], inside |-> inside, setIf |-> setIf, waitIf |-> waitIf]

AtOccurrences(ir, a, b, sw) ==
    IF InSiblingIfs(ir, a, b)
    THEN At(<<a, b>>, TRUE, TrueBranchOf(ir, a), TrueBranchOf(ir, b))
    ELSE At(OutsideLoops(ir, LeaveBranches(ir, sw)), FALSE, Top, Top)

FixedSetWaitOcc(ir, a, b, sw, num) ==
    IF StaysInVisit(ir, sw, num)
    THEN AtOccurrences(ir, a, ScopeEnd(ir, sw[1]), SetWaitAt(ir, a, ScopeEnd(ir, sw[1])))
    ELSE AtOccurrences(ir, a, b, sw)

SetWaitOf(ir, ab, num) ==
    FixedSetWaitOcc(ir, ab[1], ab[2],
                    FixWhile(ir, ab[1], ab[2], SetWaitAt(ir, ab[1], ab[2])), num)

(* getSetWaitOcc, getFixedSetWaitOcc *)
SetWaitOcc(ir, a, b, num) == SetWaitOf(ir, InsideUnlikely(ir, a, b), num)

(* Down from condition k to b, past conditions and their branches.          *)
IntoCondition(ir, k, b) ==
    IF k = b \/ KindOf(ir, k) # "if" THEN k
    ELSE Min({x \in {b} \cup ir.occ[b].up :
                 x > k /\ KindOf(ir, x) # "if" /\ ~UnderCondition(ir, x)})

(* getBarrierWaitOcc: before the loop or scope that holds b, or in the      *)
(* branches of the conditions that do.                                      *)
TowardOperation(ir, w, b) == IF w \in ir.occ[b].up THEN IntoCondition(ir, w, b) ELSE w
BarrierWaitOcc(ir, a, b)  == TowardOperation(ir, SetWaitOcc(ir, a, b, 1).wait, b)
-----------------------------------------------------------------------------
PipeOf(ir, k) == ir.op[ir.occ[k].op].pipe

(* handleBarrierConflict: one occurrence, w, is both ends.  `num' only      *)
(* matters to checkGraphConflict, which is asked before.                    *)
BarrierPlan(ir, o, w, num) ==
    [kind |-> "barrier", a |-> o.a, b |-> o.b, useless |-> o.useless, order |-> o,
     src |-> PipeOf(ir, o.a), dst |-> PipeOf(ir, o.b),
     num |-> num, set |-> w, wait |-> w, bar |-> w, inside |-> FALSE,
     setIf |-> Top, waitIf |-> Top, occBackward |-> IsBackward(ir, o.a, o.b),
     backward |-> FALSE, inner |-> FALSE, loop |-> Top, ok |-> TRUE]

(* The innermost loop around both.                                          *)
LoopOfPair(ir, a, b) ==
    Deepest({l \in ir.occ[a].up \cap ir.occ[b].up : KindOf(ir, l) = "loop"})

(* The assertions about the placement of a pair.                            *)
PlacementAsserts(ir, p, forward) ==
    LET inLoop(k) == p.loop \in ir.occ[k].up
    IN  /\ forward /\ p.backward => p.inside
        /\ ir.occ[ir.occ[p.set].parent].op = ir.occ[ir.occ[p.wait].parent].op \/ p.inside
        /\ ir.occ[p.set].end <= ir.occ[p.wait].start
        /\ p.backward => p.loop # Top
        /\ p.inner => inLoop(p.set) /\ inLoop(p.wait)
        /\ p.occBackward /\ ~p.backward /\ inLoop(p.set) => inLoop(p.wait)

Judged(ir, p, forward) == [p EXCEPT !.ok = PlacementAsserts(ir, p, forward)]

(* What handleSetWaitConflict derives from the two occurrences, when sw is  *)
(* where set and wait go.  A set and wait that run in program order but     *)
(* cross a visit of the loop are not `inner': they are the two ends of      *)
(* sibling conditions.                                                      *)
SetWaitPlan(ir, o, sw, num, forward, backward, occBackward) ==
    Judged(ir,
        [kind |-> "setwait", a |-> o.a, b |-> o.b, useless |-> o.useless, order |-> o,
         src |-> PipeOf(ir, o.a), dst |-> PipeOf(ir, o.b),
         num |-> num, set |-> sw.set, wait |-> sw.wait, bar |-> BarrierWaitOcc(ir, o.a, o.b),
         inside |-> sw.inside, setIf |-> sw.setIf, waitIf |-> sw.waitIf,
         occBackward |-> occBackward, backward |-> backward, inner |-> ~forward /\ backward,
         loop |-> IF occBackward THEN LoopOfPair(ir, o.a, o.b) ELSE Top, ok |-> TRUE],
        forward)

SetWaitPlanAt(ir, o, sw, num) ==
    SetWaitPlan(ir, o, sw, num, ir.occ[sw.set].op < ir.occ[sw.wait].op,
                IsBackward(ir, sw.set, sw.wait), IsBackward(ir, o.a, o.b))

ConflictPlan(ir, o, num) ==
    IF PipeOf(ir, o.a) = PipeOf(ir, o.b)
    THEN BarrierPlan(ir, o, BarrierWaitOcc(ir, o.a, o.b), num)
    ELSE SetWaitPlanAt(ir, o, SetWaitOcc(ir, o.a, o.b, num), num)

(* processOrder up to the point where earlier choices matter.               *)
NeedsSync(ir, o) ==
    /\ ~FilteredOut(ir, o.a, o.b)
    /\ Conflicting(ir.op[ir.occ[o.a].op], ir.op[ir.occ[o.b].op]) # {}

Plan(ir, o) == ConflictPlan(ir, o, EventIdNum(ir, o.a, o.b))

NeededPlans(ir, orders) ==
    FlattenSeq([i \in DOMAIN orders |->
        IF NeedsSync(ir, orders[i]) THEN <<Plan(ir, orders[i])>> ELSE <<>>])
-----------------------------------------------------------------------------
Extra(set, wait, scope, mayNotRun) ==
    [set |-> set, wait |-> wait, scope |-> scope, mayNotRun |-> mayNotRun]

(* A backward conflict whose set and wait ended up in one visit reserves    *)
(* the id in the other visit as well.                                       *)
OtherVisit(ir, p) ==
    IF ~(p.occBackward /\ ~p.backward /\ p.loop \in ir.occ[p.set].up) THEN <<>>
    ELSE LET There(k) == IF p.set < ir.occ[p.loop].split THEN LastIterOcc(ir, k, p.loop)
                         ELSE FirstIterOcc(ir, k, p.loop)
         IN  <<Extra(There(p.set), There(p.wait), p.loop, TRUE)>>

(* Several ids are reserved for the whole loop.                             *)
WholeLoop(ir, p, num) ==
    IF p.backward /\ num > 1
    THEN <<Extra(BeforeLoop(p.loop), AfterLoop(ir, p.loop), ir.occ[p.loop].parent, TRUE)>>
    ELSE <<>>

(* The set before the loop that the first wait consumes, and the wait after *)
(* it for the last set.                                                     *)
HeaderAndFooter(ir, p) ==
    IF p.inner
    THEN <<Extra(BeforeLoop(p.loop), FirstIterOcc(ir, p.wait, p.loop), p.loop, TRUE),
           Extra(LastIterOcc(ir, p.set, p.loop), AfterLoop(ir, p.loop), p.loop, TRUE)>>
    ELSE <<>>

(* The branches that the two operations are not in.                         *)
ElseScope(ir, cond)  == ir.occ[cond + 1].last
MirrorSetOcc(ir, p)  == ScopeEnd(ir, ElseScope(ir, p.setIf))
MirrorWaitOcc(ir, p) == ScopeBegin(ElseScope(ir, p.waitIf))

(* buildSiblingIfExtraConflictOccs *)
SiblingBranches(ir, p) ==
    IF ~p.inside THEN <<>>
    ELSE LET ms == MirrorSetOcc(ir, p)
             mw == MirrorWaitOcc(ir, p)
         IN  <<Extra(p.set, p.wait, Top, FALSE), Extra(p.set, mw, Top, FALSE),
               Extra(ms, p.wait, Top, FALSE), Extra(ms, mw, Top, FALSE),
               Extra(p.set, p.wait, ir.occ[p.setIf].parent, FALSE)>>

(* The pairs that only reserve the ids of p, in the order they are added;   *)
(* scope Top: the scopes of p itself.                                       *)
Extras(ir, p, num) ==
    OtherVisit(ir, p) \o WholeLoop(ir, p, num) \o HeaderAndFooter(ir, p) \o
    SiblingBranches(ir, p)
=============================================================================
