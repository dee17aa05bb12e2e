------------------------------ MODULE SyncMaps ------------------------------
(***************************************************************************)
(* From the chosen pairs to the operations that go before and after each   *)
(* operation of the function: getBeforeAfterSyncMaps.  The set and wait of *)
(* a pair stand where the pair says.  A pair that crosses the visits of a  *)
(* loop needs a set before the loop, for the first wait, and a wait after  *)
(* it, for the last set; mergeBackwardSyncEventIds moves these out of a    *)
(* loop or a condition when everything in it that uses the id is such a    *)
(* loop, which then shares one set and one wait.                           *)
(*                                                                         *)
(* `placed' is what remains of a chosen pair here: the channel, the event  *)
(* ids, the operations after which it sets and before which it waits, and  *)
(* the loop whose visits it crosses.                                       *)
(***************************************************************************)
EXTENDS SyncPlacement

Placed(src, dst, ids, sets, waits, loop) ==
    [src |-> src, dst |-> dst, ids |-> ids, sets |-> sets, waits |-> waits, loop |-> loop]

Of(q)          == <<q.src, q.dst>>
IsPlacedBarrier(q) == q.src = q.dst
Signals(placed) == {q \in ToSet(placed) : ~IsPlacedBarrier(q)}

(* The id is set right after x or waited for right before it.               *)
UsedAt(placed, c, e, x) ==
    \E q \in Signals(placed) : Of(q) = c /\ e \in q.ids /\ x \in q.sets \cup q.waits

UsedIn(ops, placed, c, e, x) ==
    \E q \in Signals(placed) : /\ Of(q) = c /\ e \in q.ids
                               /\ \E y \in q.sets \cup q.waits : x \in {y} \cup ops[y].up

ChildOps(ops, x)    == {y \in DOMAIN ops : ops[y].parent = x}
ChildScopes(ops, x) == {y \in ChildOps(ops, x) : IsScope(ops, y)}

(* checkMergeable: every use of id e of channel c in x is inside a loop or  *)
(* condition that has the id to itself (an element of ev) and whose channel *)
(* is not one of `fixed', those moved out for good.                         *)
Mergeable(ops, placed, ev, fixed, block, c, e) ==
    LET ok[x \in DOMAIN ops, must \in BOOLEAN] ==
            /\ must => UsedIn(ops, placed, c, e, x)
            /\ ~UsedAt(placed, c, e, x)
            /\ CASE ops[x].kind = "if"   -> \A y \in ChildScopes(ops, x) : ok[y, TRUE]
                 [] ops[x].kind = "loop" ->
                      /\ \A y \in ChildScopes(ops, x) : ok[y, FALSE]
                      /\ \E y \in ChildScopes(ops, x) : ok[y, TRUE]
                 [] OTHER ->
                      \A y \in ChildOps(ops, x) : UsedIn(ops, placed, c, e, y) =>
                          /\ ~UsedAt(placed, c, e, y)
                          /\ <<y, c, e>> \in ev
                          /\ <<y, c>> \notin fixed
    IN  ok[block, TRUE]

(* mergeBackwardSyncEventIds of one loop or condition.  An inner one that   *)
(* loses its last id stays a key of the map.                                *)
MergeAt(ops, placed, fixed, m, x) ==
    LET uses  == UNION {{<<Of(q), e>> : e \in q.ids} : q \in Signals(placed)}
        moved == {u \in uses : /\ <<x, u[1], u[2]>> \notin m.ev
                               /\ Mergeable(ops, placed, m.ev, fixed, x, u[1], u[2])}
        inner == UNION {ChildScopes(ops, y) : y \in ChildScopes(ops, x)}
    IN  [ev   |-> (m.ev \ {<<y, u[1], u[2]>> : y \in inner, u \in moved})
                    \cup {<<x, u[1], u[2]>> : u \in moved},
         keys |-> m.keys \cup (IF moved = {} THEN {} ELSE {x})]

(* backwardSyncEvents: of loops and conditions, the ids set before and      *)
(* waited for after them.  Inner ones first.                                *)
BackwardSyncEvents(ops, placed, fixed) ==
    LET crossing == {q \in Signals(placed) : q.loop # Top}
        start    == [ev   |-> UNION {{<<q.loop, Of(q), e>> : e \in q.ids} : q \in crossing},
                     keys |-> {q.loop : q \in crossing}]
        from[x \in 1 .. Len(ops) + 1] ==
            IF x > Len(ops) THEN start
            ELSE IF ops[x].kind \in {"loop", "if"} THEN MergeAt(ops, placed, fixed, from[x + 1], x)
            ELSE from[x + 1]
    IN  from[1]
-----------------------------------------------------------------------------
SyncOp(kind, c, ids, allAtOnce) ==
    [kind |-> kind, src |-> c[1], dst |-> c[2], ids |-> SetToSortSeq(ids, <), all |-> allAtOnce]

SyncOpsOf(kind, qs) == [i \in DOMAIN qs |-> SyncOp(kind, Of(qs[i]), qs[i].ids, FALSE)]

(* A wait is pushed to the front, a barrier to the back.                    *)
WaitsBefore(placed, x) ==
    SyncOpsOf("wait", Reverse(SelectSeq(placed,
                          LAMBDA q : ~IsPlacedBarrier(q) /\ x \in q.waits)))
BarriersBefore(placed, x) ==
    SyncOpsOf("barrier", SelectSeq(placed, LAMBDA q : IsPlacedBarrier(q) /\ x \in q.waits))
SetsAfter(placed, x) ==
    SyncOpsOf("set", SelectSeq(placed, LAMBDA q : ~IsPlacedBarrier(q) /\ x \in q.sets))

(* One set, or one wait, per channel and with all its ids.  The order of    *)
(* the channels is that of a hash table: any fixed one stands for it.       *)
Outer(kind, ev, x) ==
    LET cs  == SetToSeq({u[2] : u \in {v \in ev : v[1] = x}})
        ids(c) == {u[3] : u \in {v \in ev : v[1] = x /\ v[2] = c}}
    IN  [i \in DOMAIN cs |-> SyncOp(kind, cs[i], ids(cs[i]), TRUE)]

FaultyBeforeAfter(ops, placed, ev) ==
    [before |-> [x \in DOMAIN ops |->
         WaitsBefore(placed, x) \o BarriersBefore(placed, x) \o Outer("set", ev, x)],
     after  |-> [x \in DOMAIN ops |-> SetsAfter(placed, x)]]

BeforeAfter(ops, placed, ev) ==
    [before |-> [x \in DOMAIN ops |->
         WaitsBefore(placed, x) \o BarriersBefore(placed, x) \o Outer("set", ev, x)],
     after  |-> [x \in DOMAIN ops |-> Outer("wait", ev, x) \o SetsAfter(placed, x)]]
=============================================================================
