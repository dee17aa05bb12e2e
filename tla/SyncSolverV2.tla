---------------------------- MODULE SyncSolverV2 ----------------------------
(***************************************************************************)
(* SyncSolverV2, the version of the sync solver that the passes use by     *)
(* default.  It decides about one conflict as SyncSolver does, but it      *)
(* keeps the graph in which it looks for a chain of chosen pairs: one for  *)
(* every two scopes and number of event ids, brought up to date from lists *)
(* of the pairs inserted and erased since it was last asked.  And when the *)
(* answer or the new pair lies outside the two parts that a group compares,*)
(* it takes all that is left of the group on those two pipes as ordered.   *)
(***************************************************************************)
EXTENDS SyncSolver

VARIABLES
    inserted,  \* insertedConflictPairs
    erased,    \* erasedConflictPairs
    graphs,    \* graphSolverMap
    handled    \* handledCorePipePairs, with the number of the group

logs   == <<inserted, erased>>
lists  == <<logs, graphs, handled>>
varsV2 == <<vars, lists>>

(* The orders of all groups, each with the number of its group.             *)
GroupedOrders(groups) ==
    LET In(g, o) == [a |-> o.a, b |-> o.b, useless |-> o.useless, queued |-> o.queued,
                     par1 |-> o.par1, par2 |-> o.par2, group |-> g]
    IN  FlattenSeq([g \in DOMAIN groups |->
            [i \in DOMAIN groups[g] |-> In(g, groups[g][i])]])

SolvableV2(f) ==
    [ir |-> f.ir, orders |-> f.orders, plans |-> NeededPlans(f.ir, GroupedOrders(f.groups))]

(* The two parts that a group compares when an order of it comes up are of  *)
(* one scope, or a scope and a child of it that is in the other visit.      *)
ScopeOp(trees, k)        == trees.op[trees.occ[k].op].parent
IsScopeAndChild(trees, o) == ScopeOp(trees, o.par2) = trees.occ[o.par1].op

AreParts(trees, o) ==
    /\ o.par1 \in ({o.a} \cup trees.occ[o.a].up) \ {1}
    /\ o.par2 \in ({o.b} \cup trees.occ[o.b].up) \ {1}
    /\ IsScopeAndChild(trees, o) \/ ScopeOp(trees, o.par1) = ScopeOp(trees, o.par2)

(* What is left of the group, l, is of those parts or lies further apart.   *)
IsFurther(trees, o, l) ==
    LET t == trees.occ
    IN  /\ t[o.par1].up \subseteq t[l.a].up /\ t[o.par2].up \subseteq t[l.b].up
        /\ t[l.a].end <= t[o.par1].end /\ t[o.par2].start <= t[l.b].start
        /\ IsScopeAndChild(trees, o) =>
              /\ o.par1 \in t[l.a].up
              /\ t[l.a].end <= t[Toward(t, o.par1, o.a)].end

IsGroup(trees, orders) ==
    \A i \in DOMAIN orders : orders[i].queued =>
        /\ AreParts(trees, orders[i])
        /\ \A j \in i + 1 .. Len(orders) : IsFurther(trees, orders[i], orders[j])

(* No conflict is left out of the groups.                                   *)
AreGrouped(f) ==
    \A o \in ToSet(f.orders) : NeedsSync(f.ir, o) =>
        \E g \in DOMAIN f.groups : \E l \in ToSet(f.groups[g]) : l.a = o.a /\ l.b = o.b

(* generateProcessingOrders, as SyncOrders has it.                          *)
ASSUME GroupsAssumption ==
    \A f \in Functions :
        /\ \A g \in DOMAIN f.groups : IsGroup(f.ir, f.groups[g])
        /\ AreGrouped(f)
-----------------------------------------------------------------------------
(* A kept graph: its edges, with how often each is in it, and how much of   *)
(* each list it has taken in.                                               *)
NoEdges  == [edges |-> <<>>, ins |-> 0, per |-> 0, era |-> 0]

KeyOf(a, b, num) == <<ir.occ[a].parent, ir.occ[b].parent, num>>
Around(k)        == {k} \cup ir.occ[k].up

FaultyConcerns(q, key) ==
    /\ q.num <= key[3]
    /\ q.par1 \in Around(key[1]) \cup Around(key[2])

Concerns(q, key) ==
    LET A == Around(key[1])
        B == Around(key[2])
    IN  /\ ~q.mayNotRun
        /\ q.num <= key[3]
        /\ IF q.par1 = q.par2 THEN q.par1 \in A \cup B
           ELSE \/ q.par1 \in A /\ q.par2 \in B
                \/ q.par1 \in B /\ q.par2 \in A

(* How often an edge is in a list after its first `from' pairs.             *)
Times(list, from, key, e) ==
    Cardinality({i \in from + 1 .. Len(list) : Concerns(list[i], key) /\ Edge(list[i]) = e})

(* getGraphSolverRef: all insertions since the last time, then all erasures.*)
CatchUp(old, key) ==
    LET Copies(e) ==
            (IF e \in DOMAIN old.edges THEN old.edges[e] ELSE 0)
            + Times(inserted, old.ins, key, e) + Times(persistent, old.per, key, e)
            - Times(erased, old.era, key, e)
        all == DOMAIN old.edges \cup {Edge(q) : q \in ToSet(inserted) \cup ToSet(persistent)}
    IN  [edges |-> [e \in {x \in all : Copies(x) > 0} |-> Copies(e)],
         ins |-> Len(inserted), per |-> Len(persistent), era |-> Len(erased)]

(* The kept graphs after the one of `key' was asked for.                    *)
Asked(gs, key) ==
    Put(gs, key, CatchUp(IF key \in DOMAIN gs THEN gs[key] ELSE NoEdges, key))

(* checkGraphConflict finds the order of occurrences a and b enforced.      *)
Says(gs, a, b, num) ==
    OrderedBy(DOMAIN gs[KeyOf(a, b, num)].edges, plan.src, plan.dst,
              ir.occ[a].end, ir.occ[b].start)

AskedPlan  == Asked(graphs, KeyOf(plan.a, plan.b, plan.num))
AnswerPlan == Says(AskedPlan, plan.a, plan.b, plan.num)
-----------------------------------------------------------------------------
part      == plan.order
Part      == <<part.group, plan.src, plan.dst>>
Due       == ProcessingOrder /\ Part \notin handled

SkipHandled ==
    /\ ProcessingOrder /\ Part \in handled
    /\ Continue
    /\ UNCHANGED <<prog, runNum, final, persistent, options, chosen, graph, synced,
                   replaced, reused, barrierPairs, barrierOps, lists>>

(* The order is enforced; if that of the two parts is, all the rest is.     *)
SkipEnforced ==
    /\ Due /\ AnswerPlan
    /\ IF part.queued
       THEN LET gs == Asked(AskedPlan, KeyOf(part.par1, part.par2, 1))
            IN  /\ graphs' = gs
                /\ handled' = IF Says(gs, part.par1, part.par2, 1)
                              THEN handled \cup {Part} ELSE handled
       ELSE graphs' = AskedPlan /\ UNCHANGED handled
    /\ Continue
    /\ UNCHANGED <<prog, runNum, final, persistent, options, chosen, graph, synced,
                   replaced, reused, barrierPairs, barrierOps, logs>>

Outside(k) == part.par1 \notin ir.occ[k].up /\ part.par2 \notin ir.occ[k].up

FaultyOrdersParts(q) ==
    \/ IsBarrier(q) /\ ~IsBarrierAll(q) /\ Outside(q.wait)
    \/ ~IsBarrier(q) /\ (Outside(q.set) \/ Outside(q.wait))

(* The new pair stands outside a part: it orders all of it.                 *)
OrdersParts(q) ==
    \/ IsBarrier(q) /\ ~IsBarrierAll(q) /\ Outside(q.wait)
    \/ ~IsBarrier(q) /\ q.num <= 1 /\ (Outside(q.set) \/ Outside(q.wait))

(* insertConflictPair of all that was added to the chosen pairs, of which   *)
(* the first is the one returned.                                           *)
InsertNew ==
    LET new == SubSeq(chosen', Len(chosen) + 1, Len(chosen'))
    IN  /\ inserted' = inserted \o new
        /\ handled' = IF part.queued /\ OrdersParts(new[1])
                      THEN handled \cup {Part} ELSE handled
        /\ UNCHANGED erased

ReuseOne(r) ==
    /\ ReuseConflictPair(r)
    /\ inserted' = Append(inserted, Last(chosen'))
    /\ erased' = Append(erased, r)
    /\ UNCHANGED handled

Handle ==
    /\ Due /\ ~AnswerPlan
    /\ graphs' = AskedPlan
    /\ \/ HandleBarrierConflict /\ InsertNew
       \/ \E r \in ToSet(chosen) : ReuseOne(r)
       \/ HandleSetWaitConflict /\ InsertNew

(* reset; the lists begin with the merged pairs a run starts from.          *)
ResetLists ==
    /\ inserted' = chosen' /\ erased' = <<>>
    /\ graphs' = <<>> /\ handled' = {}

NoLists == inserted = <<>> /\ erased = <<>> /\ graphs = <<>> /\ handled = {}

InitV2 == prog \in {SolvableV2(f) : f \in Functions} /\ Begin /\ NoLists

NextV2 ==
    \/ SkipHandled \/ SkipEnforced \/ Handle
    \/ StartOver /\ ResetLists
    \/ Finish /\ UNCHANGED lists
-----------------------------------------------------------------------------
(* Either version solves a function.                                        *)
VARIABLE version

InitSolver ==
    \/ version = 1 /\ Init /\ NoLists
    \/ version = 2 /\ InitV2

NextSolver ==
    /\ \/ version = 1 /\ Next /\ UNCHANGED lists
       \/ version = 2 /\ NextV2
    /\ UNCHANGED version

varsSolver == <<version, varsV2>>

SpecSolver == InitSolver /\ [][NextSolver]_varsSolver
-----------------------------------------------------------------------------
(* A kept graph answers what the first version finds in a graph made afresh *)
(* of the pairs chosen now, whatever was reused, merged or made persistent  *)
(* since it was last asked (getGraphSolverRef).                             *)
AnswersAfresh == version = 2 /\ Due => (AnswerPlan <=> Enforced(plan))

(* What the second version solves is solved for the first: no conflict that *)
(* it passed over with the rest of a group needed a sync of its own         *)
(* (handledCorePipePairs).                                                  *)
NothingMissed ==
    version = 2 /\ pc = "done" =>
        LET all == NeededPlans(ir, prog.orders)
        IN  \A i \in DOMAIN all : Enforced(all[i])
=============================================================================
