------------------------------ MODULE SyncCode ------------------------------
(***************************************************************************)
(* What the pipes are given to run: the operations of a function with the  *)
(* sync operations around them (generateFuncIrResultOps), once for every   *)
(* way through its loops and conditions (SyncTester::fillPipelines).       *)
(*                                                                         *)
(* A loop that is entered makes `trips' trips, a parallel one a single     *)
(* trip; a while loop is left after its condition has run once more.  An   *)
(* operand, and a sync operation with several event ids, take their turn   *)
(* by the number of trips the innermost loop has made so far, over all the *)
(* times it was entered.                                                   *)
(***************************************************************************)
EXTENDS SyncMaps, PipeCode

Turn(s, n) == s[(n % Len(s)) + 1]

RwInstr(o, n) == Access(o.pipe, {Turn(o.rd, n)}, {Turn(o.wr, n)})

SignalInstr(s, id) ==
    IF s.kind = "set" THEN Set(<<s.src, s.dst, id>>) ELSE Wait(<<s.src, s.dst, id>>)

(* allAtOnce: one instruction for each id.                                  *)
SyncInstrs(s, n) ==
    CASE s.kind = "barrier"           -> <<BarrierOn(s.src)>>
      [] s.kind # "barrier" /\ s.all  -> [i \in DOMAIN s.ids |-> SignalInstr(s, s.ids[i])]
      [] s.kind # "barrier" /\ ~s.all -> <<SignalInstr(s, Turn(s.ids, n))>>

RECURSIVE RunsOf(_, _, _, _, _, _)

(* The ways to go on from `run', the instructions so far and the trips of   *)
(* every loop, through x inside `loop'.                                     *)
RunsOf(ops, maps, trips, x, loop, run) ==
    LET n == IF loop = Top THEN 0 ELSE run.trips[loop]
        Add(r, is) == [r EXCEPT !.code = @ \o is]
        Syncs(ss) == FlattenSeq([i \in DOMAIN ss |-> SyncInstrs(ss[i], n)])
        start == Add(run, Syncs(maps.before[x]))
        Through(rs, y, l) == UNION {RunsOf(ops, maps, trips, y, l, r) : r \in rs}
        Body(rs, l) == FoldLeft(LAMBDA s, y : Through(s, y, l), rs, ChildrenOf(ops, x))
        Trip(rs) == {[r EXCEPT !.trips[x] = @ + 1] : r \in Body(rs, x)}
        bodies == ChildrenOf(ops, x)
        Left(rs) == IF Len(bodies) > 1 THEN Through(rs, bodies[1], x) ELSE rs
        most == IF ops[x].flag THEN 1 ELSE trips
        inside ==
            CASE ops[x].kind = "rw"   -> {Add(start, <<RwInstr(ops[x], n)>>)}
              [] ops[x].kind = "loop" ->
                   Left({start}) \cup
                   Left(FoldLeft(LAMBDA rs, i : Trip(rs), {start}, [i \in 1 .. most |-> i]))
              [] ops[x].kind = "if"   ->
                   UNION {Through({start}, y, loop) : y \in ChildScopes(ops, x)}
              [] OTHER -> Body({start}, loop)
    IN  {Add(r, Syncs(maps.after[x])) : r \in inside}

Runs(ops, maps, trips) ==
    {r.code : r \in RunsOf(ops, maps, trips, 1, Top,
                           [code |-> <<>>, trips |-> [x \in DOMAIN ops |-> 0]])}
=============================================================================
