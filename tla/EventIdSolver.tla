--------------------------- MODULE EventIdSolver ---------------------------
(***************************************************************************)
(* The event-id solver of GraphSyncSolver: it gives every set/wait pair of *)
(* one pipe pair the hardware event ids it signals through.                *)
(*                                                                         *)
(* A node stands for one allocation (`eventIdNum' ids); two nodes that are *)
(* live at the same time are joined by an edge and must not share an id.   *)
(* SyncSolverBase grows the graph inside a transaction: a marker is pushed *)
(* on the action stack, every change pushes its inverse, and when the      *)
(* graph turns out not to be colourable with the ids the hardware has, the *)
(* stack is unwound to the marker.  Ids are recomputed lazily: an edge     *)
(* only raises `needRecalculateEventIds' when it makes a node too heavy to *)
(* be colourable for sure.                                                 *)
(*                                                                         *)
(* A public call is one action; a call that loops over nodes or over the   *)
(* action stack takes one step per iteration.  A vector of event ids is    *)
(* represented by its set of ids (the code keeps it sorted), so a          *)
(* duplicated entry shows as a set with fewer than `num' members.          *)
(***************************************************************************)
EXTENDS Integers, Sequences, FiniteSets

CONSTANTS
    MaxNodes,       \* bound: nodes of the graph
    MaxPairs,       \* bound: conflict pairs handed to the solver
    MaxFrq,         \* bound: how often one edge is added
    Kinds,          \* what a node can be: [num, rev, pin, pos]
    HwEventIdNum,   \* getHWAvailableEventIdNum of the pipe pair
    RoundRobin,     \* the option roundRobinEventIds
    ReservedIds     \* ids reserved for custom macros when the solver is reset

NoPin == -1
Blank == [num |-> 0, rev |-> FALSE, pin |-> NoPin, pos |-> 0]
Slot  == 1 .. MaxNodes
Pair  == 1 .. MaxPairs

(* `num' is eventIdNum, `rev' reversePriority, `pin' the id a custom macro  *)
(* pins on the pair (collectReservedEventIds has reserved it) and `pos' the *)
(* program position of the pair that created the node.                      *)
Kind == [num : Nat \ {0}, rev : BOOLEAN, pin : Nat \cup {NoPin}, pos : Nat]

ASSUME SolverAssumption ==
    /\ MaxNodes \in Nat /\ MaxPairs \in Nat /\ MaxFrq \in Nat
    /\ Kinds \subseteq Kind
    /\ HwEventIdNum \in Nat \ {0}
    /\ RoundRobin \in BOOLEAN
    /\ ReservedIds \subseteq Nat /\ IsFiniteSet(ReservedIds)
    /\ \A k \in Kinds : k.pin # NoPin => k.pin \in ReservedIds

VARIABLES
    g,         \* the graph: nodes, adjList, sumAdjListSizes, conflictPair2Node,
               \* the nodes' event ids and needRecalculateEventIds
    log,       \* actionsStack, top last
    maxNum,    \* eventIdsNumMax
    reserved,  \* reservedEventIds
    pc,        \* where the caller, handleSetWaitConflict or calcAllEventIds, is
    cur,       \* the node of the open transaction, 0 when there is none
    todo,      \* addConflicts: intersecting nodes not yet joined to `cur'
    calc,      \* locals of calcEventIds
    trail      \* history variable: trail[i] is the graph when log[i] was pushed

vars == <<g, log, maxNum, reserved, pc, cur, todo, calc, trail>>
-----------------------------------------------------------------------------
Max2(a, b) == IF a >= b THEN a ELSE b
MaxOf(S)   == CHOOSE x \in S : \A y \in S : y <= x
First(x, S) == \A y \in S : x <= y

(* The n smallest, and the n largest, members of a set of numbers.          *)
Lowest(n, S)  == {x \in S : Cardinality({y \in S : y < x}) < n}
Highest(n, S) == {x \in S : Cardinality({y \in S : y > x}) < n}

Live(h)       == 1 .. h.count
Adjacent(h, n) == {m \in Live(h) : h.adj[n][m] > 0}
UsedIds(h)    == UNION {h.ids[n] : n \in Live(h)}
IsColorable(h) == Cardinality(UsedIds(h)) <= maxNum

(* Faulty variants (Faulty...) are the bugs the properties are tried on.    *)
FaultyTakenEarlier(n) ==
    (UNION {g.ids[m] : m \in {x \in Adjacent(g, n) : x < n}}) \cup reserved
FaultyTakenUnreserved(n) == UNION {g.ids[m] : m \in Adjacent(g, n)}

(* getAdjNodesUsedEventIds together with the reserved ids every chooser adds.*)
Taken(n) == (UNION {g.ids[m] : m \in Adjacent(g, n)}) \cup reserved

(***************************************************************************)
(* The changes the solver makes to the graph, and the inverse of each.     *)
(***************************************************************************)
WithNode(h, k) ==
    [h EXCEPT !.count = @ + 1, !.kind[h.count + 1] = k]

WithoutNode(h) ==
    [h EXCEPT !.count = @ - 1, !.kind[h.count] = Blank]

WithPair(h, n, p) == [h EXCEPT !.owner[p] = n]
WithIds(h, n, s)  == [h EXCEPT !.ids[n] = s]
WithStale(h, b)   == [h EXCEPT !.stale = b]

(* One more, or one less, edge between a and b.                             *)
Bump(adj, a, b, d) ==
    [x \in Slot |-> [y \in Slot |->
        IF <<x, y>> \in {<<a, b>>, <<b, a>>} THEN adj[x][y] + d ELSE adj[x][y]]]

(* The ids b asks for, when the count of edges to it is frq.                *)
Gain(h, a, b, frq) == IF h.adj[a][b] = frq THEN h.kind[b].num ELSE 0

FaultyOneWayEdge(h, a, b) ==
    [h EXCEPT !.adj[a][b] = h.adj[a][b] + 1,
              !.sum[a] = h.sum[a] + Gain(h, a, b, 0)]

WithEdge(h, a, b) ==
    [h EXCEPT !.adj = Bump(h.adj, a, b, 1),
              !.sum = [h.sum EXCEPT ![a] = h.sum[a] + Gain(h, a, b, 0),
                                    ![b] = h.sum[b] + Gain(h, b, a, 0)]]

FaultySumOfOtherOnly(h, a, b) ==
    [h EXCEPT !.adj = Bump(h.adj, a, b, -1),
              !.sum[b] = h.sum[b] - Gain(h, b, a, 1)]

WithoutEdge(h, a, b) ==
    [h EXCEPT !.adj = Bump(h.adj, a, b, -1),
              !.sum = [h.sum EXCEPT ![a] = h.sum[a] - Gain(h, a, b, 1),
                                    ![b] = h.sum[b] - Gain(h, b, a, 1)]]

Revert(e, h) ==
    CASE e.act = "addNode"      -> WithoutNode(h)
      [] e.act = "addEdge"      -> WithoutEdge(h, e.node, e.other)
      [] e.act = "insertPair"   -> WithPair(h, 0, e.pair)
      [] e.act = "assignIds"    -> WithIds(h, e.node, e.old)
      [] e.act = "assignRecalc" -> WithStale(h, e.old)

(* One logged change; a transaction's entries all go through here.          *)
Do(e, h) ==
    /\ g' = h
    /\ log' = Append(log, e)
    /\ trail' = Append(trail, g)

SameGraph == UNCHANGED <<g, log, trail>>

FaultyAssignUnlogged(n, s) ==
    /\ g' = WithIds(g, n, s)
    /\ UNCHANGED <<log, trail>>

AssignIds(n, s) ==
    IF g.ids[n] = s
    THEN SameGraph
    ELSE Do([act |-> "assignIds", node |-> n, old |-> g.ids[n]],
            WithIds(g, n, s))

AssignNeedRecalc(b) ==
    IF g.stale = b
    THEN SameGraph
    ELSE Do([act |-> "assignRecalc", old |-> g.stale], WithStale(g, b))
-----------------------------------------------------------------------------
NoCalc == [ret |-> "none", roundRobin |-> FALSE, left |-> {},
           value |-> [n \in Slot |-> 0], order |-> <<>>, top |-> 0, next |-> 0]

EmptyGraph ==
    [count |-> 0,
     kind  |-> [n \in Slot |-> Blank],
     adj   |-> [a \in Slot |-> [b \in Slot |-> 0]],
     sum   |-> [n \in Slot |-> 0],
     owner |-> [p \in Pair |-> 0],
     ids   |-> [n \in Slot |-> {}],
     stale |-> FALSE]

Init ==
    /\ g = EmptyGraph
    /\ log = <<>> /\ trail = <<>>
    /\ maxNum = HwEventIdNum
    /\ reserved = ReservedIds
    /\ pc = "idle" /\ cur = 0 /\ todo = {}
    /\ calc = NoCalc

(* A conflict pair is a fresh object: the lowest unused identity.           *)
FreshPair(p) ==
    /\ g.owner[p] = 0
    /\ \A q \in Pair : q < p => g.owner[q] # 0

(***************************************************************************)
(* The transaction of SyncSolverBase::handleSetWaitConflict.               *)
(***************************************************************************)
PushActionNone ==
    /\ pc = "idle"
    /\ pc' = "open"
    /\ Do([act |-> "none"], g)
    /\ UNCHANGED <<maxNum, reserved, cur, todo, calc>>

(* createNode: addNode, insertConflictPair, then the ids 0 .. num-1 whatever *)
(* the neighbours and the reservations are: they are placeholders.           *)
CreateNode(k, p) ==
    /\ pc = "open" /\ g.count < MaxNodes /\ FreshPair(p)
    /\ LET n  == g.count + 1
           h1 == WithNode(g, k)
           h2 == WithPair(h1, n, p)
       IN  /\ g' = WithIds(h2, n, 0 .. k.num - 1)
           /\ log' = Append(Append(Append(log,
                         [act |-> "addNode", node |-> n]),
                         [act |-> "insertPair", node |-> n, pair |-> p]),
                         [act |-> "assignIds", node |-> n, old |-> {}])
           /\ trail' = Append(Append(Append(trail, g), h1), h2)
           /\ cur' = n
    /\ pc' = "pair"
    /\ UNCHANGED <<maxNum, reserved, todo, calc>>

(* The pair repeats a conflict already synchronised in another iteration:    *)
(* it joins the node of the old pair.                                        *)
ReuseNode(n, p) ==
    /\ pc = "open" /\ n \in Live(g) /\ FreshPair(p)
    /\ Do([act |-> "insertPair", node |-> n, pair |-> p], WithPair(g, n, p))
    /\ cur' = n
    /\ pc' = "pair"
    /\ UNCHANGED <<maxNum, reserved, todo, calc>>

(* addConflicts with the nodes whose pairs intersect the new one.  The node  *)
(* itself may be among them; the order of the vector only orders the log.    *)
AddConflicts(S) ==
    /\ pc = "pair" /\ S \subseteq Live(g) \ {cur}
    /\ \A m \in S : g.adj[cur][m] < MaxFrq
    /\ todo' = S \cup {cur}
    /\ pc' = "link"
    /\ UNCHANGED <<g, log, trail, maxNum, reserved, cur, calc>>

FaultyTooHeavy(h, n) == h.sum[n] > maxNum
TooHeavy(h, n) == h.sum[n] + h.kind[n].num > maxNum

AddEdge ==
    /\ pc = "link" /\ todo # {}
    /\ \E m \in todo :
       LET h == WithEdge(g, cur, m)
           e == [act |-> "addEdge", node |-> cur, other |-> m]
       IN  /\ First(m, todo)
           /\ todo' = todo \ {m}
           /\ \/ m = cur /\ SameGraph
              \/ /\ m # cur
                 /\ ~g.stale /\ (TooHeavy(h, cur) \/ TooHeavy(h, m))
                 /\ g' = WithStale(h, TRUE)
                 /\ log' = Append(Append(log, e),
                                  [act |-> "assignRecalc", old |-> FALSE])
                 /\ trail' = Append(Append(trail, g), h)
              \/ /\ m # cur
                 /\ g.stale \/ ~(TooHeavy(h, cur) \/ TooHeavy(h, m))
                 /\ Do(e, h)
    /\ UNCHANGED <<maxNum, reserved, pc, cur, calc>>

(* Entering calcEventIds; `r' says which caller it returns to.              *)
StartCalc(r) ==
    /\ pc' = "clear"
    /\ calc' = [NoCalc EXCEPT !.ret = r, !.left = Live(g)]

(* isColorable recomputes the ids only when an edge asked for it.           *)
CheckColorable ==
    /\ pc = "link" /\ todo = {}
    /\ \/ g.stale /\ StartCalc("judge")
       \/ ~g.stale /\ pc' = "judge" /\ UNCHANGED calc
    /\ UNCHANGED <<g, log, trail, maxNum, reserved, cur, todo>>

FaultyJudge ==
    /\ pc = "judge"
    /\ pc' = "checked"
    /\ UNCHANGED <<g, log, trail, maxNum, reserved, cur, todo, calc>>

Judge ==
    /\ pc = "judge"
    /\ pc' = IF IsColorable(g) THEN "checked" ELSE "undo"
    /\ UNCHANGED <<g, log, trail, maxNum, reserved, cur, todo, calc>>

(* An extra pair keeps the node's ids live over a loop: same node, more edges.*)
InsertExtraPair(p) ==
    /\ pc = "checked" /\ FreshPair(p)
    /\ Do([act |-> "insertPair", node |-> cur, pair |-> p], WithPair(g, cur, p))
    /\ pc' = "pair"
    /\ UNCHANGED <<maxNum, reserved, cur, todo, calc>>

FaultyKeepActionStack ==
    /\ pc = "checked"
    /\ pc' = "idle" /\ cur' = 0
    /\ UNCHANGED <<g, log, trail, maxNum, reserved, todo, calc>>

ClearActionStack ==
    /\ pc = "checked"
    /\ log' = <<>> /\ trail' = <<>>
    /\ pc' = "idle" /\ cur' = 0
    /\ UNCHANGED <<g, maxNum, reserved, todo, calc>>

Top == log[Len(log)]
Pop(s) == SubSeq(s, 1, Len(s) - 1)

UndoAction ==
    /\ pc = "undo" /\ Top.act # "none"
    /\ g' = Revert(Top, g)
    /\ log' = Pop(log) /\ trail' = Pop(trail)
    /\ UNCHANGED <<maxNum, reserved, pc, cur, todo, calc>>

UndoMarker ==
    /\ pc = "undo" /\ Top.act = "none"
    /\ log' = Pop(log) /\ trail' = Pop(trail)
    /\ pc' = "idle" /\ cur' = 0
    /\ UNCHANGED <<g, maxNum, reserved, todo, calc>>
-----------------------------------------------------------------------------
(***************************************************************************)
(* calcEventIds: clear all ids, order the nodes by repeatedly removing the *)
(* lightest one, colour in the opposite order; then, when the option is on *)
(* and the result repeats itself, once more in program order.              *)
(***************************************************************************)
ClearIds ==
    /\ pc = "clear"
    /\ \E n \in calc.left :
           /\ First(n, calc.left)
           /\ AssignIds(n, {})
           /\ calc' = [calc EXCEPT !.left = @ \ {n}]
    /\ UNCHANGED <<maxNum, reserved, pc, cur, todo>>

ClearDone ==
    /\ pc = "clear" /\ calc.left = {}
    /\ calc' = [calc EXCEPT
                   !.left = Live(g),
                   !.value = [n \in Slot |-> g.sum[n] + g.kind[n].num]]
    /\ pc' = IF calc.roundRobin THEN "robin" ELSE "peel"
    /\ UNCHANGED <<g, log, trail, maxNum, reserved, cur, todo>>

Lighter(m, n) ==
    \/ calc.value[m] < calc.value[n]
    \/ /\ calc.value[m] = calc.value[n]
       /\ \/ ~g.kind[m].rev /\ g.kind[n].rev
          \/ g.kind[m].rev = g.kind[n].rev /\ m < n

PeelNode ==
    /\ pc = "peel"
    /\ \E n \in calc.left :
           /\ \A m \in calc.left \ {n} : Lighter(n, m)
           /\ calc' = [calc EXCEPT
                  !.left = @ \ {n},
                  !.order = Append(@, n),
                  !.value = [m \in Slot |->
                      IF m \in Adjacent(g, n) \cap calc.left
                      THEN @[m] - g.kind[n].num ELSE @[m]]]
    /\ UNCHANGED <<g, log, trail, maxNum, reserved, pc, cur, todo>>

PeelDone ==
    /\ pc = "peel" /\ calc.left = {}
    /\ pc' = "color"
    /\ UNCHANGED <<g, log, trail, maxNum, reserved, cur, todo, calc>>

(* getChosenEventIds: the pinned id; the lowest free ids; or, for a pair of  *)
(* a loop with itself, the highest free ids up to the larger of the top id   *)
(* so far and the last id there is, completed by ids above the top id.       *)
FaultyHighIds(n) == Highest(g.kind[n].num,
                            (0 .. Max2(calc.top, maxNum)) \ Taken(n))
HighIds(n)   == Highest(g.kind[n].num,
                        (0 .. Max2(calc.top, maxNum - 1)) \ Taken(n))
Missing(n)   == g.kind[n].num - Cardinality(HighIds(n))
IsPinned(n)  == g.kind[n].pin # NoPin /\ g.kind[n].num = 1

ChosenIds(n) ==
    IF IsPinned(n) THEN {g.kind[n].pin}
    ELSE IF g.kind[n].rev
    THEN HighIds(n) \cup (calc.top + 1 .. calc.top + Missing(n))
    ELSE Lowest(g.kind[n].num,
                (0 .. g.kind[n].num + Cardinality(Taken(n))) \ Taken(n))

(* The last entry of the chosen vector.                                      *)
LastChosen(n) ==
    IF ~IsPinned(n) /\ g.kind[n].rev /\ Missing(n) > 0
    THEN calc.top + Missing(n)
    ELSE MaxOf(ChosenIds(n))

ColorNode ==
    /\ pc = "color" /\ calc.order # <<>>
    /\ LET n == calc.order[Len(calc.order)]
       IN  /\ AssignIds(n, ChosenIds(n))
           /\ calc' = [calc EXCEPT !.order = Pop(@),
                                   !.top = Max2(@, LastChosen(n))]
    /\ UNCHANGED <<maxNum, reserved, pc, cur, todo>>

(* hasRepeatedEventIdSequence: four neighbours in program order, same ids.   *)
Before(m, n) == \/ g.kind[m].pos < g.kind[n].pos
                \/ g.kind[m].pos = g.kind[n].pos /\ m < n
Rank(n) == Cardinality({m \in Live(g) : Before(m, n)})
HasRepeatedEventIdSequence ==
    \E n \in Live(g) :
        /\ Rank(n) + 3 < g.count
        /\ \A m \in Live(g) :
               Rank(m) \in Rank(n) .. Rank(n) + 3 => g.ids[m] = g.ids[n]

ColorDone ==
    /\ pc = "color" /\ calc.order = <<>>
    /\ AssignNeedRecalc(FALSE)
    /\ \/ /\ RoundRobin /\ HasRepeatedEventIdSequence
          /\ calc' = [calc EXCEPT !.roundRobin = TRUE, !.left = Live(g)]
          /\ pc' = "clear"
       \/ /\ ~(RoundRobin /\ HasRepeatedEventIdSequence)
          /\ calc' = NoCalc
          /\ pc' = calc.ret
    /\ UNCHANGED <<maxNum, reserved, cur, todo>>

(* getRoundRobinEventIds: free ids from the next one on, up to and including *)
(* eventIdsNumMax; from 0 when those do not suffice.                         *)
FreeFrom(from, n) ==
    Lowest(g.kind[n].num, {x \in 0 .. maxNum : x >= from} \ Taken(n))
RoundRobinIds(n) ==
    IF IsPinned(n) THEN {g.kind[n].pin}
    ELSE IF Cardinality(FreeFrom(calc.next, n)) = g.kind[n].num
    THEN FreeFrom(calc.next, n) ELSE FreeFrom(0, n)

RobinNode ==
    /\ pc = "robin"
    /\ \E n \in calc.left :
       LET ids == RoundRobinIds(n)
       IN  /\ \A m \in calc.left \ {n} : Before(n, m)
           /\ AssignIds(n, ids)
           /\ calc' = [calc EXCEPT
                  !.left = @ \ {n},
                  !.next = IF IsPinned(n) \/ ids = {} THEN @
                           ELSE (MaxOf(ids) + 1) % maxNum]
    /\ UNCHANGED <<maxNum, reserved, pc, cur, todo>>

RobinDone ==
    /\ pc = "robin" /\ calc.left = {}
    /\ AssignNeedRecalc(FALSE)
    /\ pc' = calc.ret
    /\ calc' = NoCalc
    /\ UNCHANGED <<maxNum, reserved, cur, todo>>
-----------------------------------------------------------------------------
(***************************************************************************)
(* SyncSolverBase::calcAllEventIds, when all pairs have been handled:      *)
(* shrinkEventIdMaxToEventIdNum recomputes the ids, takes the number used  *)
(* as the new maximum and recomputes them under it.                        *)
(***************************************************************************)
ShrinkEnabled == ~g.stale /\ log = <<>> /\ IsColorable(g)

ShrinkEventIdMax ==
    /\ pc = "idle" /\ ShrinkEnabled
    /\ StartCalc("resize")
    /\ UNCHANGED <<g, log, trail, maxNum, reserved, cur, todo>>

FaultyResize ==
    /\ pc = "resize"
    /\ maxNum' = Cardinality(UsedIds(g)) - 1
    /\ StartCalc("finish")
    /\ UNCHANGED <<g, log, trail, reserved, cur, todo>>

Resize ==
    /\ pc = "resize"
    /\ maxNum' = Cardinality(UsedIds(g))
    /\ StartCalc("finish")
    /\ UNCHANGED <<g, log, trail, reserved, cur, todo>>

ShrinkDone ==
    /\ pc = "finish"
    /\ log' = <<>> /\ trail' = <<>>
    /\ pc' = "done"
    /\ UNCHANGED <<g, maxNum, reserved, cur, todo, calc>>

(* allocateUnusedEventId, for the internal slots of a custom macro, while    *)
(* the result is turned into set/wait operations.                            *)
Allocatable == (0 .. HwEventIdNum - 1) \ (UsedIds(g) \cup reserved)

AllocateUnusedEventId ==
    /\ pc = "done"
    /\ \E e \in Allocatable :
           First(e, Allocatable) /\ reserved' = reserved \cup {e}
    /\ UNCHANGED <<g, log, trail, maxNum, pc, cur, todo, calc>>

Transaction ==
    \/ \E k \in Kinds, p \in Pair : CreateNode(k, p)
    \/ \E n \in Slot, p \in Pair : ReuseNode(n, p)
    \/ \E S \in SUBSET Slot : AddConflicts(S)
    \/ \E p \in Pair : InsertExtraPair(p)
    \/ PushActionNone \/ AddEdge \/ CheckColorable \/ Judge \/ ClearActionStack
    \/ UndoAction \/ UndoMarker

CalcEventIds ==
    \/ ClearIds \/ ClearDone \/ PeelNode \/ PeelDone \/ ColorNode \/ ColorDone
    \/ RobinNode \/ RobinDone

Finish == ShrinkEventIdMax \/ Resize \/ ShrinkDone \/ AllocateUnusedEventId

Next == Transaction \/ CalcEventIds \/ Finish

Spec == Init /\ [][Next]_vars
-----------------------------------------------------------------------------
(***************************************************************************)
(* Properties.                                                             *)
(***************************************************************************)
GraphType ==
    [count : 0 .. MaxNodes,
     kind  : [Slot -> Kinds \cup {Blank}],
     adj   : [Slot -> [Slot -> Nat]],
     sum   : [Slot -> Int],
     owner : [Pair -> 0 .. MaxNodes],
     ids   : [Slot -> SUBSET Nat],
     stale : BOOLEAN]

(* The caller's positions and the values its locals take.                    *)
Phases == {"idle", "open", "pair", "link", "judge", "checked", "undo", "clear",
           "peel", "color", "robin", "resize", "finish", "done"}

EntryType ==
    [act : {"none"}]
      \cup [act : {"addNode"}, node : Slot]
      \cup [act : {"addEdge"}, node : Slot, other : Slot]
      \cup [act : {"insertPair"}, node : Slot, pair : Pair]
      \cup [act : {"assignIds"}, node : Slot, old : SUBSET Nat]
      \cup [act : {"assignRecalc"}, old : BOOLEAN]

(* The caller is between pushActionNone and clearActionStack or undoActions. *)
Calculating == {"clear", "peel", "color", "robin"}
InTransaction ==
    \/ pc \in {"open", "pair", "link", "judge", "checked", "undo"}
    \/ pc \in Calculating /\ calc.ret = "judge"

TypeOK ==
    /\ g \in GraphType
    /\ log \in Seq(EntryType)
    /\ trail \in Seq(GraphType) /\ Len(trail) = Len(log)
    /\ maxNum \in Nat /\ reserved \subseteq Nat
    /\ pc \in Phases /\ cur \in 0 .. MaxNodes /\ todo \subseteq Slot
    /\ calc.left \subseteq Slot /\ calc.order \in Seq(Slot) /\ calc.top \in Nat

(* The graph is a graph: adjacency is symmetric and without self-edges, only *)
(* live nodes have edges or ids, and no conflict pair is mapped to a node    *)
(* that undoActions has destroyed (conflictPair2Node would dangle).          *)
GraphOK(h) ==
    /\ \A a, b \in Slot : h.adj[a][b] = h.adj[b][a]
    /\ \A a, b \in Slot : h.adj[a][b] > 0 => a # b /\ a <= h.count
    /\ \A n \in Live(h) : h.kind[n] \in Kinds
    /\ \A n \in Slot \ Live(h) :
           h.kind[n] = Blank /\ h.ids[n] = {} /\ h.sum[n] = 0
    /\ \A p \in Pair : h.owner[p] <= h.count
NoDanglingNode == GraphOK(g)

(* Every entry of the action stack is the inverse of the change it was       *)
(* pushed for: undoing entry i gives the graph there was before it.          *)
Undone(e, h) == IF e.act = "none" THEN h ELSE Revert(e, h)
Inverts(stack, before, now) ==
    \A i \in 1 .. Len(stack) :
        before[i] = Undone(stack[i],
                           IF i = Len(stack) THEN now ELSE before[i + 1])
LogInverts == Inverts(log, trail, g)

(* undoActions leaves exactly the graph the transaction started from: nodes, *)
(* edges, pairs, ids and needRecalculateEventIds.                            *)
UndoRestores == [][pc = "undo" /\ pc' = "idle" => g' = trail[1]]_vars

(* Seen from the caller the solver is transactional (GraphTransaction).      *)
Structure(h) == <<h.count, h.kind, h.adj, h.sum, h.owner>>
Weight(h) == Cardinality(UsedIds(h))
Graph == INSTANCE GraphTransaction WITH
    Empty <- EmptyGraph, Structure <- Structure, Weight <- Weight,
    graph <- g, open <- InTransaction, limit <- maxNum,
    saved <- IF InTransaction THEN trail[1] ELSE g
Transactional == Graph!Spec

(* The assertions of removeNode: when the stack is unwound to the creation   *)
(* of a node, that node is the newest one and has lost all its edges.        *)
RemoveNodeAsserts ==
    pc = "undo" /\ Top.act = "addNode" =>
        /\ Top.node = g.count
        /\ Adjacent(g, g.count) = {} /\ g.sum[g.count] = 0

(* calcAllEventIds asserts that shrinkEventIdMaxToEventIdNum succeeds: no    *)
(* transaction, committed or undone, leaves a pending recalculation, a       *)
(* non-empty action stack or a graph that does not fit.                      *)
ShrinkSucceeds == pc = "idle" => ShrinkEnabled

(* The ids a transaction was accepted with may be out of date; the ids       *)
(* computed afresh for the final graph still number at most as many.         *)
LazyCheckSound == pc = "resize" => IsColorable(g)

(* calcAllEventIds asserts isColorable() after the shrink: computed under    *)
(* the smaller maximum, the ids do not become more.                          *)
ShrinkKeepsColorable == pc = "done" => IsColorable(g)

(* Every id handed out exists in the hardware.                               *)
IdsInHardwareRange == pc = "done" => UsedIds(g) \subseteq 0 .. HwEventIdNum - 1

(* Pairs that are live together never signal through the same id, unless the *)
(* user pinned both of them to it (nothing checks two pins against each      *)
(* other).                                                                   *)
Calculated == {"resize", "finish", "done"}
BothPinned(m, n) == IsPinned(m) /\ IsPinned(n)
ProperIds ==
    pc \in Calculated =>
        \A n \in Live(g) : \A m \in Adjacent(g, n) :
            ~BothPinned(m, n) => g.ids[m] \cap g.ids[n] = {}

(* EventIdSolver.h: an id is reserved "so EventIdSolver will not assign it   *)
(* elsewhere" than to the pair it is pinned on.                              *)
ReservedNotAssigned ==
    pc \in Calculated =>
        \A n \in Live(g) : ~IsPinned(n) => g.ids[n] \cap reserved = {}
=============================================================================
