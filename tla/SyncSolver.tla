----------------------------- MODULE SyncSolver -----------------------------
(***************************************************************************)
(* SyncSolverBase and SyncSolverV1 in intra-core mode.  A run looks at     *)
(* every pair of occurrences once; when the chosen pairs so far do not     *)
(* enforce its order it adds a barrier, or a set and a wait, and gives the *)
(* latter a node of the event-id graph of its two pipes.  A pair the ids   *)
(* do not suffice for becomes a barrier over all pipes.  Between two runs  *)
(* runSolver lets loops share their outer sync and, when ids ran out,      *)
(* tries cheaper measures before it settles for one of those barriers and  *)
(* starts over.                                                            *)
(*                                                                         *)
(* What depends on the function alone, its trees and for every pair of     *)
(* occurrences where sync would go (SyncPlacement), is worked out at the   *)
(* start.  Left out: unit flags, custom macros, preloading and cross-core  *)
(* pairs.                                                                  *)
(***************************************************************************)
EXTENDS SyncMaps, PipeCode

CONSTANTS
    Functions,      \* the functions to solve: their trees (SyncTree), the pairs
                    \* of accesses to look at, and those in groups, for V2
    HwEventIdNum,   \* the event ids of a pair of pipes (getHWAvailableEventIdNum)
    MaxRunNum,      \* maxRunNum of SyncSolver.h
    MaxReuseNum     \* maxReuseNum of SyncSolver.h

(* Orders are of two accesses, the one that comes first as the first.       *)
OrdersOfAccesses(trees, orders) ==
    /\ orders \in Seq(ToSet(orders))
    /\ \A i \in DOMAIN orders :
          LET o == orders[i]
          IN  /\ {o.a, o.b} \subseteq DOMAIN trees.occ /\ o.a < o.b
              /\ \A k \in {o.a, o.b} : IsRw(trees.op, trees.occ[k].op)
              /\ o.useless \in BOOLEAN

ASSUME SyncSolverAssumption ==
    /\ HwEventIdNum \in Nat \ {0, 1}   \* an operand has up to two buffers
    /\ MaxRunNum \in Nat \ {0} /\ MaxReuseNum \in Nat

ASSUME FunctionsAssumption ==
    \A f \in Functions :
        /\ WellBuilt(f.ir) /\ OrdersOfAccesses(f.ir, f.orders)
        /\ f.groups \in Seq(ToSet(f.groups))
        /\ \A g \in DOMAIN f.groups : OrdersOfAccesses(f.ir, f.groups[g])

(* A function as the solver sees it.                                        *)
Solvable(f) == [ir |-> f.ir, orders |-> f.orders, plans |-> NeededPlans(f.ir, f.orders)]

PipesOf(trees) == {trees.op[x].pipe : x \in {y \in DOMAIN trees.op : IsRw(trees.op, y)}}

VARIABLES
    prog,         \* the function being solved: its trees, orders and plans
    pc,           \* "process", "done", "gaveUp" (maxRunNum) or, with the code, "run"
    next,         \* the plan to look at next
    runNum,       \* runSolver's counter
    final,        \* whether this is the run after the loop
    chosen,       \* chosenConflictedPairs
    persistent,   \* persistentChosenConflictedPairs
    graph,        \* of each channel: the nodes' [num, rev], and the edges
    synced,       \* syncedPairs: the node that orders two operations
    replaced,     \* replacedWithReusableSyncedPairs
    reused,       \* reusedPairs: pairs saved in this run, by channel
    reuse,        \* reusePairs: pairs that may be saved, by channel
    disabled,     \* disabledMultiEventIdPairs
    merged,       \* backwardSyncEventsAfterMerge: of a loop or condition, its channels
    barrierPairs, \* barrierAllPairs: channels whose ids ran out
    barrierOps    \* insertedBarrierAllBefore: where that put a barrier

perRun  == <<next, chosen, graph, synced, replaced, reused, barrierPairs, barrierOps>>
options == <<reuse, disabled, merged>>
vars    == <<prog, pc, runNum, final, persistent, perRun, options>>

ir       == prog.ir
plans    == prog.plans
Channels == {c \in PipesOf(ir) \X PipesOf(ir) : c[1] # c[2]}
plan     == plans[next]
-----------------------------------------------------------------------------
NoPair == [op1 |-> Top, op2 |-> Top, set |-> Top, wait |-> Top, src |-> All, dst |-> All,
           start |-> 0, end |-> 0, par1 |-> Top, par2 |-> Top, node |-> 0, num |-> 1,
           loop |-> Top, useless |-> FALSE, inner |-> FALSE, mayNotRun |-> FALSE,
           dontReuse |-> FALSE, dontCheck |-> FALSE, mirrorSet |-> Top, mirrorWait |-> Top]

(* Function f with k mapped to v.                                           *)
Put(f, k, v) == [x \in DOMAIN f \cup {k} |-> IF x = k THEN v ELSE f[x]]

IsBarrier(q)    == q.src = q.dst
IsBarrierAll(q) == IsBarrier(q) /\ q.src = All
Channel(q)      == <<q.src, q.dst>>
Key(q)          == <<q.loop, q.op1, q.op2, q.src, q.dst>>

Between(q, set, wait) ==
    [q EXCEPT !.set = set, !.wait = wait,
              !.start = ir.occ[set].end, !.end = ir.occ[wait].start]

(* A barrier on `pipe' before occurrence k.                                 *)
BarrierBefore(k, pipe, useless) ==
    [NoPair EXCEPT !.set = k, !.wait = k, !.src = pipe, !.dst = pipe, !.useless = useless,
                   !.start = ir.occ[k].start, !.end = ir.occ[k].start,
                   !.par1 = ir.occ[k].parent, !.par2 = ir.occ[k].parent]

Occurrences(x) ==
    FlattenSeq([k \in DOMAIN ir.occ |-> IF ir.occ[k].op = x THEN <<k>> ELSE <<>>])

(* insertBarrierAllBeforeOp: only the first occurrence leads to code.       *)
BarrierAllBefore(x, useless) ==
    LET ks == Occurrences(x)
    IN  [i \in DOMAIN ks |-> BarrierBefore(ks[i], All, useless \/ i > 1)]
-----------------------------------------------------------------------------
(* checkGraphConflict.  Which chosen pairs speak about the two occurrences: *)
(* those of a scope around either, and those from a scope around the first  *)
(* to a scope around the second.                                            *)
FaultyInScope(p, q) == q.par1 \in ir.occ[p.a].up /\ q.par2 \in ir.occ[p.b].up

InScope(p, q) ==
    LET A == ir.occ[p.a].up
        B == ir.occ[p.b].up
    IN  IF q.par1 = q.par2 THEN q.par1 \in A \cup B ELSE q.par1 \in A /\ q.par2 \in B

FaultyVisible(p, q) ==
    /\ InScope(p, q)
    /\ ~(q.end < ir.occ[p.a].end) /\ ~(q.start > ir.occ[p.b].start)
    /\ ~(q.inner /\ p.num < q.num)

Visible(p, q) ==
    /\ InScope(p, q)
    /\ ~q.mayNotRun
    /\ ~(q.end < ir.occ[p.a].end) /\ ~(q.start > ir.occ[p.b].start)
    /\ ~(q.inner /\ p.num < q.num)

(* The earliest a chain of pairs gets to each pipe (GraphSolver).           *)
Arrivals(V, at) ==
    LET Longer(s) == s \cup {<<q.dst, q.end>> :
                       q \in {r \in V : \E e \in s : e[1] = r.src /\ e[2] <= r.start}}
        after[n \in 0 .. Cardinality(V)] == IF n = 0 THEN at ELSE Longer(after[n - 1])
    IN  after[Cardinality(V)]

(* Operations on pipe src that end at s come before those on pipe dst that  *)
(* begin at e.                                                              *)
OrderedBy(V, src, dst, s, e) ==
    LET inside   == {q \in V : s <= q.start /\ q.end <= e}
        barriers == {q \in inside : IsBarrier(q)}
        edges    == inside \ barriers
        reached  == {<<q.dst, q.end>> : q \in {r \in edges : r.src = src}}
    IN  \/ \E q \in barriers : IsBarrierAll(q) \/ (q.src = src /\ src = dst)
        \/ \E x \in Arrivals(edges, reached) : x[1] = dst

(* A pair as an edge of the graph that is searched.                         *)
Edge(q) == [src |-> q.src, dst |-> q.dst, start |-> q.start, end |-> q.end]

Enforced(p) ==
    OrderedBy({Edge(q) : q \in {r \in ToSet(chosen) \cup ToSet(persistent) : Visible(p, r)}},
              p.src, p.dst, ir.occ[p.a].end, ir.occ[p.b].start)
-----------------------------------------------------------------------------
(* The event-id graph of a channel, coloured by calcDefaultEventIds.  That  *)
(* it is coloured afresh here, and only when needed there, makes no         *)
(* difference (LazyCheckSound of EventIdSolver).                            *)
Weight(g, S) == Cardinality(UNION {{n} \X (1 .. g.nodes[n].num) : n \in S})
Adjacent(g, n) == {m \in DOMAIN g.nodes : {m, n} \in g.edges /\ m # n}

(* What node n needs, with its neighbours among those left.                 *)
Value(g, left, n) == g.nodes[n].num + Weight(g, Adjacent(g, n) \cap left)

Lighter(g, left, m, n) ==
    \/ Value(g, left, m) < Value(g, left, n)
    \/ /\ Value(g, left, m) = Value(g, left, n)
       /\ \/ ~g.nodes[m].rev /\ g.nodes[n].rev
          \/ g.nodes[m].rev = g.nodes[n].rev /\ m < n

(* The node that is taken out of those left, to be coloured after them.     *)
Lightest(g, left) == CHOOSE x \in left : \A m \in left \ {x} : Lighter(g, left, x, m)

Lowest(n, S)  == {x \in S : Cardinality({y \in S : y < x}) < n}
Highest(n, S) == {x \in S : Cardinality({y \in S : y > x}) < n}

(* getChosenEventIds                                                        *)
ChosenIds(g, acc, n, max) ==
    LET num   == g.nodes[n].num
        taken == UNION {acc.ids[m] : m \in Adjacent(g, n)}
        high  == Highest(num, (0 .. Max({acc.top, max - 1})) \ taken)
    IN  IF g.nodes[n].rev
        THEN high \cup (acc.top + 1 .. acc.top + num - Cardinality(high))
        ELSE Lowest(num, (0 .. num + Cardinality(taken)) \ taken)

Uncoloured(g) == [ids |-> [n \in DOMAIN g.nodes |-> {}], top |-> 0]

Coloured(g, acc, n, max) ==
    LET ids == ChosenIds(g, acc, n, max)
    IN  [ids |-> [acc.ids EXCEPT ![n] = ids], top |-> Max({acc.top} \cup ids)]

(* The ids of every node when `max' ids may be used.                        *)
Coloring(g, max) ==
    LET of[S \in SUBSET DOMAIN g.nodes] ==
            IF S = {} THEN Uncoloured(g)
            ELSE Coloured(g, of[S \ {Lightest(g, S)}], Lightest(g, S), max)
    IN  of[DOMAIN g.nodes].ids

IdsIn(coloring) == UNION {coloring[n] : n \in DOMAIN coloring}
Colorable(g)    == Cardinality(IdsIn(Coloring(g, HwEventIdNum))) <= HwEventIdNum

(* shrinkEventIdMaxToEventIdNum: once more with as many ids as were used.   *)
ShrunkMax(g) == Cardinality(IdsIn(Coloring(g, HwEventIdNum)))
FinalIds(g)  == Coloring(g, ShrunkMax(g))
-----------------------------------------------------------------------------
(* checkIntersect                                                           *)
Intersect(q, r) ==
    /\ ~IsBarrier(q) /\ ~IsBarrier(r) /\ ~q.dontCheck /\ ~r.dontCheck
    /\ Channel(q) = Channel(r)
    /\ q.end >= r.start /\ r.end >= q.start

FaultyIntersectingNodes(q) ==
    {r.node : r \in {x \in ToSet(chosen) : Intersect(q, x) /\ ~x.useless}}

IntersectingNodes(q) == {r.node : r \in {x \in ToSet(chosen) : Intersect(q, x)}}

(* The pair handleSetWaitConflict makes of the plan, before it has a node.         *)
MainPair ==
    LET num == IF plan.inner /\ <<plan.src, plan.dst>> \notin disabled THEN plan.num ELSE 1
        q == [NoPair EXCEPT !.op1 = ir.occ[plan.a].op, !.op2 = ir.occ[plan.b].op,
                            !.src = plan.src, !.dst = plan.dst, !.num = num,
                            !.par1 = ir.occ[plan.set].parent, !.par2 = ir.occ[plan.wait].parent,
                            !.loop = IF plan.backward THEN ir.occ[plan.loop].op ELSE Top,
                            !.useless = plan.useless, !.inner = plan.inner]
    IN  Between(q, plan.set, plan.wait)

WithMirrors(q) ==
    IF plan.inside
    THEN [q EXCEPT !.mirrorSet = MirrorSetOcc(ir, plan), !.mirrorWait = MirrorWaitOcc(ir, plan)]
    ELSE q

(* insertExtraConflictPair                                                  *)
ExtraPairs(main) ==
    LET xs == Extras(ir, plan, main.num)
        Made(x) ==
            [Between(main, x.set, x.wait) EXCEPT
                !.useless = TRUE, !.dontReuse = TRUE, !.mayNotRun = x.mayNotRun,
                !.par1 = IF x.scope = Top THEN @ ELSE x.scope,
                !.par2 = IF x.scope = Top THEN @ ELSE x.scope]
    IN  [i \in DOMAIN xs |-> Made(xs[i])]

(* Both occurrences are directly in the loop's bodies, as far as loops go.  *)
ReversedPriority ==
    /\ plan.inner
    /\ ParentLoopOcc(ir, plan.a) = plan.loop /\ ParentLoopOcc(ir, plan.b) = plan.loop

(* The graph with the node of `main', and the edges its first k pairs need. *)
NodeOf(main) ==
    IF Key(main) \in DOMAIN synced THEN synced[Key(main)]
    ELSE Len(graph[Channel(main)].nodes) + 1

WithEdges(main, pairs, k) ==
    LET g == graph[Channel(main)]
        n == NodeOf(main)
        others == (UNION {IntersectingNodes(pairs[i]) : i \in 1 .. k}) \ {n}
    IN  [nodes |-> IF n \in DOMAIN g.nodes THEN g.nodes
                   ELSE Append(g.nodes, [num |-> main.num, rev |-> ReversedPriority]),
         edges |-> g.edges \cup {{n, m} : m \in others}]
-----------------------------------------------------------------------------
ProcessingOrder == pc = "process" /\ next <= Len(plans)
Continue        == pc' = pc /\ next' = next + 1

SkipOrder ==
    /\ ProcessingOrder /\ Enforced(plan)
    /\ Continue
    /\ UNCHANGED <<prog, runNum, final, persistent, options, chosen, graph, synced,
                   replaced, reused, barrierPairs, barrierOps>>

HandleBarrierConflict ==
    /\ ProcessingOrder /\ plan.kind = "barrier"
    /\ chosen' = Append(chosen, BarrierBefore(plan.wait, plan.src, plan.useless))
    /\ Continue
    /\ UNCHANGED <<prog, runNum, final, persistent, options, graph, synced, replaced,
                   reused, barrierPairs, barrierOps>>
-----------------------------------------------------------------------------
(* reuseConflictPair: instead of a new pair, let an earlier one of the same *)
(* channel set its flag later, after the new set.                           *)
ReusedBefore(q) == barrierPairs = {} /\ Key(q) \in DOMAIN replaced
FaultyMayReuse(q) ==
    IF q.useless THEN ReusedBefore(q)
    ELSE barrierPairs = {} /\ reuse[Channel(q)] >= reused[Channel(q)]

MayReuse(q) ==
    IF q.useless THEN ReusedBefore(q)
    ELSE barrierPairs = {} /\ reuse[Channel(q)] > reused[Channel(q)]

InScopesOf(q, r) == <<r.par1, r.par2>> \in
    {<<q.par1, q.par1>>, <<q.par2, q.par2>>, <<q.par1, q.par2>>}

Reusable(q) ==
    {r \in ToSet(chosen) :
        /\ InScopesOf(q, r)
        /\ ~r.dontReuse /\ Intersect(q, r)
        /\ r.start < q.start
        /\ r.num <= q.num /\ q.num % r.num = 0}

(* reuseCmp: the latest set, then the earliest wait.                        *)
Better(r, t) ==
    \/ r.start > t.start
    \/ r.start = t.start /\ r.end < t.end
    \/ r.start = t.start /\ r.end = t.end /\ r.op1 < t.op1
    \/ r.start = t.start /\ r.end = t.end /\ r.op1 = t.op1 /\ r.op2 < t.op2

BestOf(S) == {r \in S : \A t \in S : ~Better(t, r)}

(* ConflictPair::clone does not carry the mirrors over.                     *)
Extended(r, q) ==
    [r EXCEPT !.set = q.set, !.start = q.start, !.mirrorSet = Top, !.mirrorWait = Top]

InsteadOf(r) == [op1 |-> r.op1, op2 |-> r.op2, wait |-> ir.occ[r.wait].op]

(* What the code asserts of a pair, and of the one it reuses.               *)
ReuseAsserts(q, r) ==
    /\ \A t \in Reusable(q) : q.start <= t.end /\ t.end <= q.end
    /\ q.useless => replaced[Key(q)] = InsteadOf(r)

PairAsserts(q) ==
    /\ ReusedBefore(q) => q.useless
    /\ MayReuse(q) => \A r \in BestOf(Reusable(q)) : ReuseAsserts(q, r)

(* A set and a wait are needed, and nothing the code asserts is wrong.      *)
SetWaitOrder == ProcessingOrder /\ plan.kind = "setwait"

SoundPlan == plan.ok /\ PairAsserts(MainPair)

ReuseConflictPair(r) ==
    /\ SetWaitOrder /\ SoundPlan
    /\ LET q == MainPair
           i == CHOOSE j \in DOMAIN chosen : chosen[j] = r
       IN  /\ MayReuse(q)
           /\ r \in BestOf(Reusable(q))
           /\ chosen' = Append(RemoveAt(chosen, i), Extended(r, q))
           /\ replaced' = IF q.useless THEN replaced
                          ELSE Put(replaced, Key(q), InsteadOf(r))
           /\ reused' = IF q.useless THEN reused
                        ELSE [reused EXCEPT ![Channel(q)] = @ + 1]
    /\ Continue
    /\ UNCHANGED <<prog, runNum, final, persistent, options, graph, synced,
                   barrierPairs, barrierOps>>
-----------------------------------------------------------------------------
NothingToReuse(q) == ~MayReuse(q) \/ Reusable(q) = {}

(* handleSetWaitConflict, with the result of its transaction on the ids:    *)
(* every pair is added and judged in turn.                                  *)
HandleSetWaitConflict ==
    /\ SetWaitOrder /\ SoundPlan
    /\ LET main  == MainPair
           pairs == <<main>> \o ExtraPairs(main)
           c     == Channel(main)
           n     == NodeOf(main)
           kept  == [i \in DOMAIN pairs |-> [pairs[i] EXCEPT !.node = n]]
       IN  /\ NothingToReuse(main)
           /\ IF \A k \in DOMAIN pairs : Colorable(WithEdges(main, pairs, k))
              THEN /\ chosen' = chosen \o (<<WithMirrors(kept[1])>> \o Tail(kept))
                   /\ graph' = [graph EXCEPT ![c] = WithEdges(main, pairs, Len(pairs))]
                   /\ synced' = Put(synced, Key(main), n)
                   /\ UNCHANGED <<barrierPairs, barrierOps>>
              ELSE LET x == ir.occ[plan.bar].op
                   IN  /\ chosen' = chosen \o BarrierAllBefore(x, main.useless)
                       /\ barrierPairs' = barrierPairs \cup {c}
                       /\ barrierOps' = barrierOps \cup {x}
                       /\ UNCHANGED <<graph, synced>>
    /\ Continue
    /\ UNCHANGED <<prog, runNum, final, persistent, options, replaced, reused>>

HandleConflict ==
    \/ HandleBarrierConflict
    \/ \E r \in ToSet(chosen) : ReuseConflictPair(r)
    \/ HandleSetWaitConflict

ProcessOrder == SkipOrder \/ (ProcessingOrder /\ ~Enforced(plan) /\ HandleConflict)
-----------------------------------------------------------------------------
RunEnded == pc = "process" /\ next > Len(plans)

(* insertMergedBackwardSyncPairs: the set before a loop or condition and    *)
(* the wait after it that stand for all the crossing pairs inside.          *)
MergedPair(c, k) ==
    LET around == IF KindOf(ir, k) = "loop" THEN Between(NoPair, BeforeLoop(k), AfterLoop(ir, k))
                  ELSE [NoPair EXCEPT !.start = ir.occ[k].start, !.end = ir.occ[k].end]
    IN  [around EXCEPT !.src = c[1], !.dst = c[2],
                       !.par1 = ir.occ[k].parent, !.par2 = ir.occ[k].parent,
                       !.useless = TRUE, !.dontReuse = TRUE, !.dontCheck = TRUE]

MergedPairs(m) ==
    FlattenSeq([k \in DOMAIN ir.occ |->
        LET x  == ir.occ[k].op
            cs == SetToSeq(IF x \in DOMAIN m THEN m[x] ELSE {})
        IN  [i \in DOMAIN cs |-> MergedPair(cs[i], k)]])

NoGraph == [nodes |-> <<>>, edges |-> {}]

(* reset, and the pairs a run starts from.                                  *)
BeginRun(m) ==
    /\ next' = 1 /\ chosen' = MergedPairs(m) /\ merged' = m
    /\ graph' = [c \in Channels |-> NoGraph]
    /\ synced' = <<>> /\ replaced' = <<>>
    /\ reused' = [c \in Channels |-> 0]
    /\ barrierPairs' = {} /\ barrierOps' = {}

NextRun ==
    /\ runNum' = runNum + 1
    /\ final' = (runNum = MaxRunNum)
    /\ UNCHANGED <<prog, pc>>
-----------------------------------------------------------------------------
(* What calcAllEventIds asserts.                                            *)
IdsSettled == \A c \in Channels :
    Cardinality(IdsIn(FinalIds(graph[c]))) <= ShrunkMax(graph[c])

PlacedPairs ==
    LET ids == [c \in Channels |-> FinalIds(graph[c])]
        OpsAt(ks) == {ir.occ[k].op : k \in ks \ {Top}}
        placed(q) == Placed(q.src, q.dst,
                            IF IsBarrier(q) THEN {} ELSE ids[Channel(q)][q.node],
                            OpsAt({q.set, q.mirrorSet}), OpsAt({q.wait, q.mirrorWait}),
                            IF q.inner THEN q.loop ELSE Top)
        all == chosen \o persistent
    IN  FlattenSeq([i \in DOMAIN all |->
            IF all[i].useless THEN <<>> ELSE <<placed(all[i])>>])

Fixed  == UNION {{x} \X merged[x] : x \in DOMAIN merged}
Events == BackwardSyncEvents(ir.op, PlacedPairs, Fixed)

(* considerOuterBackwardSyncPairs: forget what the last run no longer moved *)
(* to where it was, then fix what it moved to the deepest places.           *)
StillMoved(events) ==
    [x \in DOMAIN merged |-> {c \in merged[x] : \E u \in events.ev : u[1] = x /\ u[2] = c}]

Innermost(S) ==
    LET depth(x) == Cardinality(ir.op[x].up)
    IN  {x \in S : \A y \in S : depth(y) <= depth(x)}

FaultyWithOuter(events) ==
    LET at(x) == {c \in Channels : \E u \in events.ev : u[1] = x /\ u[2] = c}
    IN  [x \in {y \in Innermost(events.keys \ DOMAIN merged) : at(y) # {}} |-> at(x)]

WithOuter(events) ==
    LET at(x) == {c \in Channels : \E u \in events.ev : u[1] = x /\ u[2] = c}
        new   == {x \in Innermost(events.keys \ DOMAIN merged) : at(x) # {}}
    IN  [x \in new \cup DOMAIN merged |-> IF x \in new THEN at(x) ELSE StillMoved(events)[x]]

OuterChanged(events) ==
    /\ events.keys \ DOMAIN merged # {}
    /\ WithOuter(events) # merged

ConsiderOuter ==
    /\ RunEnded /\ ~final /\ IdsSettled
    /\ LET events == Events
       IN  OuterChanged(events) /\ BeginRun(WithOuter(events))
    /\ NextRun
    /\ UNCHANGED <<persistent, reuse, disabled>>

OuterSettled == RunEnded /\ ~final /\ IdsSettled /\ ~OuterChanged(Events)

(* reuseSyncPairToSaveEventIds                                              *)
Growing == {c \in barrierPairs : reuse[c] < MaxReuseNum /\ reuse[c] <= reused[c]}

ReuseToSaveIds ==
    /\ OuterSettled /\ Growing # {}
    /\ reuse' = [c \in Channels |-> IF c \in Growing THEN reuse[c] + 1 ELSE reuse[c]]
    /\ BeginRun(<<>>) /\ NextRun
    /\ UNCHANGED <<persistent, disabled>>

(* disableMultiEventIdForBarrierAllPairs                                    *)
DisableMultiEventId ==
    /\ OuterSettled /\ Growing = {}
    /\ ~(barrierPairs \subseteq disabled)
    /\ disabled' = disabled \cup barrierPairs
    /\ BeginRun(<<>>) /\ NextRun
    /\ UNCHANGED <<persistent, reuse>>

(* pickAndInsertABarrierAll: the first of them stays for good.              *)
PickBarrierAll ==
    /\ OuterSettled /\ Growing = {}
    /\ barrierPairs # {} /\ barrierPairs \subseteq disabled
    /\ persistent' = persistent \o BarrierAllBefore(Min(barrierOps), FALSE)
    /\ reuse' = [c \in Channels |-> 0] /\ disabled' = {}
    /\ BeginRun(<<>>) /\ NextRun

(* The last run, which repeats the one that needed nothing.                 *)
Settle ==
    /\ OuterSettled /\ barrierPairs = {}
    /\ final' = TRUE
    /\ BeginRun(StillMoved(Events))
    /\ UNCHANGED <<prog, pc, runNum, persistent, reuse, disabled>>

Finish ==
    /\ RunEnded /\ final
    /\ runNum < MaxRunNum => IdsSettled
    /\ pc' = IF runNum < MaxRunNum THEN "done" ELSE "gaveUp"
    /\ UNCHANGED <<prog, runNum, final, persistent, perRun, options>>
-----------------------------------------------------------------------------
(* The solver before it looks at the function.                              *)
Begin ==
    /\ pc = "process" /\ runNum = 1 /\ final = FALSE
    /\ persistent = <<>> /\ disabled = {} /\ merged = <<>>
    /\ reuse = [c \in Channels |-> 0]
    /\ next = 1 /\ chosen = <<>>
    /\ graph = [c \in Channels |-> NoGraph]
    /\ synced = <<>> /\ replaced = <<>> /\ reused = [c \in Channels |-> 0]
    /\ barrierPairs = {} /\ barrierOps = {}

Init == prog \in {Solvable(f) : f \in Functions} /\ Begin

StartOver == ConsiderOuter \/ ReuseToSaveIds \/ DisableMultiEventId \/ PickBarrierAll \/ Settle

Next == ProcessOrder \/ StartOver \/ Finish

Spec == Init /\ [][Next]_vars
-----------------------------------------------------------------------------
TypeOK ==
    /\ pc \in {"process", "done", "gaveUp"}
    /\ next \in 1 .. Len(plans) + 1
    /\ runNum \in 1 .. MaxRunNum + 1 /\ final \in BOOLEAN
    /\ \A c \in Channels : /\ UNION graph[c].edges \subseteq DOMAIN graph[c].nodes
                            /\ reused[c] <= reuse[c] /\ reuse[c] <= MaxReuseNum
    /\ \A q \in ToSet(chosen) \cup ToSet(persistent) :
          /\ q.start <= q.end
          /\ ~IsBarrier(q) /\ ~q.dontCheck => q.node \in DOMAIN graph[Channel(q)].nodes
    /\ disabled \cup barrierPairs \subseteq Channels
    /\ DOMAIN merged \subseteq DOMAIN ir.op
    /\ barrierOps = {} <=> barrierPairs = {}

(* No assertion of the solver fails.                                        *)
NeverAborts ==
    /\ SetWaitOrder /\ ~Enforced(plan) => SoundPlan
    /\ RunEnded /\ runNum < MaxRunNum => IdsSettled

(* runSolver succeeds before the run limit.                                 *)
NeverGivesUp == pc # "gaveUp"

(* Once solved, every conflict is ordered by what was chosen: nothing added,*)
(* moved or merged later undid what an earlier order relied on.             *)
Covered == pc = "done" => \A i \in DOMAIN plans : Enforced(plans[i])

(* Pairs of a channel whose flags may be pending at the same time have no   *)
(* id in common.                                                            *)
IdsApart ==
    pc = "done" => \A q, r \in ToSet(chosen) :
        Intersect(q, r) /\ q.node # r.node =>
            LET ids == FinalIds(graph[Channel(q)])
            IN  ids[q.node] \cap ids[r.node] = {}
=============================================================================
