------------------------- MODULE GraphSolverProofs -------------------------
(***************************************************************************)
(* Proofs about GraphSolver: the search answers "path" exactly when a      *)
(* chain of chosen pairs enforces the order, and with the least index such *)
(* a chain arrives at, for every set of pipes, pairs and questions.        *)
(***************************************************************************)
EXTENDS GraphSolver, TLAPS

USE DEF Index

(* A queue element stands for an edge on a chain.                           *)
Real(x) ==
    \E e \in Edges : OnChain(query, e, TRUE) /\ e.dst = x[2] /\ e.end = x[1]

(* Before the first element is popped.                                      *)
Fresh ==
    /\ que = {<<query.start, query.src>>}
    /\ todo = {}
    /\ distance = [k \in CorePipe |-> Far]

EndsAt(k) == k = query.dst \/ (k.core = query.dst.core /\ k.pipe \in {PipeS, PipeAll})

Continues(k, f) ==
    f.src = k \/ (k.pipe = PipeS /\ f.src.core = k.core /\ ~f.temp)

Relaxed(f) == f \in todo \/ distance[f.dst] <= f.end

(* Pipe k needs no further look: its edges are relaxed and it is no answer. *)
Expanded(k) ==
    /\ \A f \in Edges : Continues(k, f) /\ Fits(f, distance[k]) => Relaxed(f)
    /\ ~EndsAt(k)

KeysKnown == \A p \in Edges : ~p.temp => p.src \in keys

IdleClean ==
    pc = "idle" => que = {} /\ todo = {} /\ distance = [k \in CorePipe |-> Far]

Sound ==
    /\ \A x \in que : Real(x) /\ distance[x[2]] <= x[1]
    /\ \A k \in CorePipe : Reached(k) => Real(<<distance[k], k>>)
    /\ \A f \in todo : OnChain(query, f, TRUE)

Complete ==
    /\ ~FromBarrierPipe(query)
    /\ \A f \in Edges : Begins(query, f) => Relaxed(f)
    /\ \A k \in CorePipe :
          Reached(k) => <<distance[k], k>> \in que \/ Expanded(k)

SearchInv == pc = "search" => Fresh \/ (Sound /\ Complete)

SearchIInv ==
    /\ TypeOK /\ KeysKnown /\ IdleClean /\ SearchInv
    /\ PathIsReal /\ NoneIsReal /\ ResultIsLeast
-----------------------------------------------------------------------------
(* What a chain begins with is on a chain, and so is what follows it.       *)
LEMMA ChainBegins ==
    ASSUME NEW q, NEW f \in Edges, NEW temps, Begins(q, f)
    PROVE  OnChain(q, f, temps)
BY DEF OnChain, Closed

LEMMA ChainFollows ==
    ASSUME NEW q, NEW e \in Edges, NEW f \in Edges, NEW temps,
           OnChain(q, e, temps), Follows(q, e, f, temps)
    PROVE  OnChain(q, f, temps)
BY DEF OnChain, Closed

(* An edge is one of the pairs, with the indices and pipes of a pair.       *)
LEMMA EdgeType ==
    ASSUME NEW e \in Edges
    PROVE  /\ e \in Pairs
           /\ e.src \in CorePipe /\ e.dst \in CorePipe
           /\ e.start \in Index /\ e.end \in Index
           /\ e.start <= e.end
BY GraphAssumption DEF Edges, Present, Pair

LEMMA FarType == Far \in Nat /\ LastIndex \in Nat /\ Far > LastIndex
BY GraphAssumption DEF Far

(* When nothing is left to relax, an edge on a chain whose end lies before  *)
(* every queue element was reached, and is no answer.                       *)
LEMMA BehindTheQueue ==
    ASSUME TypeOK, Complete, todo = {},
           NEW i \in Nat, \A x \in que : i <= x[1],
           NEW e \in Edges, OnChain(query, e, FALSE), e.end < i
    PROVE  ~Ends(query, e)
<1> DEFINE R == {f \in Edges : distance[f.dst] <= f.end \/ i <= f.end}
<1>1. ASSUME NEW f \in Edges, Begins(query, f) PROVE f \in R
  BY <1>1 DEF Complete, Relaxed
<1>2. ASSUME NEW f \in Edges, distance[f.dst] <= f.end, f.end < i
      PROVE  Reached(f.dst) /\ Expanded(f.dst)
  <2>1. Reached(f.dst)
    BY <1>2, EdgeType, FarType DEF TypeOK, Reached
  <2>2. <<distance[f.dst], f.dst>> \notin que
    <3>1. distance[f.dst] \in Nat
      BY EdgeType, FarType DEF TypeOK
    <3>2. distance[f.dst] < i
      BY <1>2, <3>1, EdgeType
    <3> QED BY <3>1, <3>2
  <2> QED BY <2>1, <2>2, EdgeType DEF Complete
<1>3. ASSUME NEW f \in R, NEW h \in Edges, Follows(query, f, h, FALSE)
      PROVE  h \in R
  <2>0. /\ h.start \in Nat /\ h.end \in Nat /\ h.start <= h.end
        /\ f.end \in Nat /\ h.start >= f.end /\ h.end <= query.end
        /\ f.dst \in CorePipe /\ f \in Edges
    BY <1>3, EdgeType DEF Follows
  <2>1. CASE i <= f.end
    BY <2>0, <2>1
  <2>2. CASE ~(i <= f.end)
    <3>1. distance[f.dst] <= f.end /\ f.end < i
      BY <2>0, <2>2
    <3>2. Expanded(f.dst)
      BY <1>2, <2>0, <3>1
    <3>3. Continues(f.dst, h)
      BY <1>3 DEF Follows, Continues
    <3>4. Fits(h, distance[f.dst])
      BY <2>0, <3>1, FarType DEF Fits, TypeOK
    <3>5. Relaxed(h)
      BY <3>2, <3>3, <3>4 DEF Expanded
    <3> QED BY <3>5 DEF Relaxed
  <2> QED BY <2>1, <2>2
<1>4. e \in R
  <2>1. R \in SUBSET Edges
    OBVIOUS
  <2>2. Closed(query, R, FALSE)
    BY <1>1, <1>3 DEF Closed
  <2> QED BY <2>1, <2>2 DEF OnChain
<1>5. distance[e.dst] <= e.end
  BY <1>4, EdgeType
<1>6. ~EndsAt(e.dst)
  BY <1>2, <1>5 DEF Expanded
<1> QED BY <1>6 DEF EndsAt, Ends
-----------------------------------------------------------------------------
(* The type invariant and what holds besides the search.                    *)
LEMMA TypeStep ==
    ASSUME TypeOK, KeysKnown, IdleClean, [Next]_vars
    PROVE  TypeOK' /\ KeysKnown' /\ IdleClean'
<1> USE GraphAssumption, FarType
<1>1. ASSUME NEW p \in Pairs, InsertConflictPair(p)
      PROVE  TypeOK' /\ KeysKnown' /\ IdleClean'
  <2>1. count' \in [Pairs -> 0 .. MaxCopies]
    BY <1>1 DEF TypeOK, InsertConflictPair
  <2>2. Edges' \subseteq Edges \cup {p}
    BY <1>1 DEF TypeOK, InsertConflictPair, Edges, Present, IsBarrierAll
  <2>3. KeysKnown'
    BY <1>1, <2>2 DEF KeysKnown, InsertConflictPair, Edges
  <2>4. p.src \in CorePipe
    BY DEF Pair
  <2> QED BY <1>1, <2>1, <2>3, <2>4 DEF TypeOK, IdleClean, InsertConflictPair, Locals
<1>2. ASSUME NEW p \in Pairs, EraseConflictPair(p)
      PROVE  TypeOK' /\ KeysKnown' /\ IdleClean'
  <2>1. count' \in [Pairs -> 0 .. MaxCopies]
    BY <1>2 DEF TypeOK, EraseConflictPair
  <2>2. Edges' \subseteq Edges
    BY <1>2 DEF TypeOK, EraseConflictPair, Edges, Present, IsBarrierAll
  <2> QED BY <1>2, <2>1, <2>2
          DEF TypeOK, KeysKnown, IdleClean, EraseConflictPair, Locals
<1>3. ASSUME ClearTemp
      PROVE  TypeOK' /\ KeysKnown' /\ IdleClean'
  <2>1. count' \in [Pairs -> 0 .. MaxCopies]
    BY <1>3 DEF TypeOK, ClearTemp
  <2>2. Edges' \subseteq Edges
    BY <1>3 DEF TypeOK, ClearTemp, Edges, Present, IsBarrierAll
  <2> QED BY <1>3, <2>1, <2>2
          DEF TypeOK, KeysKnown, IdleClean, ClearTemp, Locals
<1>4. ASSUME count' = count PROVE Edges' = Edges
  BY <1>4 DEF Edges, Present
<1>5. ASSUME NEW q \in Queries, CheckGraphConflict(q)
      PROVE  TypeOK' /\ KeysKnown' /\ IdleClean'
  BY <1>4, <1>5 DEF TypeOK, KeysKnown, IdleClean, CheckGraphConflict
<1>6. ASSUME Search PROVE TypeOK' /\ KeysKnown' /\ IdleClean'
  <2>1. CASE PopStale
    BY <1>4, <2>1 DEF TypeOK, KeysKnown, IdleClean, PopStale
  <2>2. CASE PopAnswer
    BY <1>4, <2>2 DEF TypeOK, KeysKnown, IdleClean, PopAnswer
  <2>3. CASE PopExpand
    BY <1>4, <2>3 DEF TypeOK, KeysKnown, IdleClean, PopExpand
  <2>4. ASSUME NEW e \in Pairs, Relax(e)
        PROVE  TypeOK' /\ KeysKnown' /\ IdleClean'
    <3>1. e.end \in 0 .. LastIndex /\ e.dst \in CorePipe
      BY DEF Pair
    <3> QED BY <1>4, <2>4, <3>1 DEF TypeOK, KeysKnown, IdleClean, Relax
  <2>5. CASE NotFound
    BY <1>4, <2>5 DEF TypeOK, KeysKnown, IdleClean, NotFound
  <2> QED BY <1>6, <2>1, <2>2, <2>3, <2>4, <2>5 DEF Search
<1>7. ASSUME Return PROVE TypeOK' /\ KeysKnown' /\ IdleClean'
  BY <1>4, <1>7 DEF TypeOK, KeysKnown, IdleClean, Return, NoQuery
<1>8. CASE UNCHANGED vars
  BY <1>4, <1>8 DEF TypeOK, KeysKnown, IdleClean, vars
<1> QED BY <1>1, <1>2, <1>3, <1>5, <1>6, <1>7, <1>8 DEF Next
-----------------------------------------------------------------------------
(* Between questions the graph may change and nothing is claimed.           *)
LEMMA IdleStep ==
    ASSUME SearchIInv,
           \/ \E p \in Pairs : InsertConflictPair(p) \/ EraseConflictPair(p)
           \/ ClearTemp \/ Return
    PROVE  SearchInv' /\ PathIsReal' /\ NoneIsReal' /\ ResultIsLeast'
<1>1. pc' = "idle"
  BY DEF InsertConflictPair, EraseConflictPair, ClearTemp, Return, Locals
<1> QED BY <1>1 DEF SearchInv, PathIsReal, NoneIsReal, ResultIsLeast

LEMMA AskStep ==
    ASSUME SearchIInv, NEW q \in Queries, CheckGraphConflict(q)
    PROVE  SearchInv' /\ PathIsReal' /\ NoneIsReal' /\ ResultIsLeast'
<1>1. pc' = "barrier" \/ pc' = "search"
  BY DEF CheckGraphConflict
<1>2. pc' = "search" => Fresh'
  BY DEF CheckGraphConflict, SearchIInv, IdleClean, Fresh
<1> QED BY <1>1, <1>2 DEF SearchInv, PathIsReal, NoneIsReal, ResultIsLeast

(* What the steps of the search leave alone.                                *)
LEMMA SameQuestion ==
    ASSUME count' = count, query' = query
    PROVE  /\ Edges' = Edges
           /\ \A e, t : OnChain(query, e, t)' = OnChain(query, e, t)
           /\ FromBarrierPipe(query)' = FromBarrierPipe(query)
           /\ \A e : Ends(query, e)' = Ends(query, e)
           /\ \A k : EndsAt(k)' = EndsAt(k)
           /\ \A f : Begins(query, f)' = Begins(query, f)
           /\ \A f, i : Fits(f, i)' = Fits(f, i)
           /\ \A x : Real(x)' = Real(x)
<1>1. Edges' = Edges
  BY DEF Edges, Present
<1>2. ASSUME NEW R, NEW t PROVE Closed(query, R, t)' = Closed(query, R, t)
  BY <1>1 DEF Closed, Begins, Follows
<1>3. ASSUME NEW e, NEW t PROVE OnChain(query, e, t)' = OnChain(query, e, t)
  BY <1>1, <1>2 DEF OnChain
<1>4. ASSUME NEW x PROVE Real(x)' = Real(x)
  BY <1>1, <1>3 DEF Real
<1> QED BY <1>1, <1>3, <1>4 DEF FromBarrierPipe, Ends, EndsAt, Begins, Fits

LEMMA StaleStep ==
    ASSUME SearchIInv, PopStale
    PROVE  SearchInv' /\ PathIsReal' /\ NoneIsReal' /\ ResultIsLeast'
<1>0. count' = count /\ query' = query /\ pc = "search" /\ pc' = "search"
      /\ distance' = distance /\ todo' = todo /\ todo = {}
  BY DEF PopStale
<1>1. PICK x \in que : /\ Top(x) /\ Reached(x[2])
                       /\ distance[x[2]] < x[1] /\ que' = que \ {x}
  BY DEF PopStale
<1>2. x[2] \in CorePipe /\ x[1] \in Index
  BY DEF SearchIInv, TypeOK
<1>3. ~Fresh
  BY <1>1, <1>2, FarType DEF Fresh, Reached
<1>4. Sound /\ Complete
  BY <1>0, <1>3 DEF SearchIInv, SearchInv
<1>5. Sound'
  BY <1>0, <1>1, <1>4, SameQuestion DEF Sound, Reached
<1>6. ASSUME NEW k \in CorePipe PROVE <<distance[k], k>> # x
  BY <1>1, <1>2 DEF SearchIInv, TypeOK
<1>7. Complete'
  BY <1>0, <1>1, <1>4, <1>6, SameQuestion
     DEF Complete, Relaxed, Reached, Expanded, Continues
<1> QED BY <1>0, <1>5, <1>7 DEF SearchInv, PathIsReal, NoneIsReal, ResultIsLeast

LEMMA NotFoundStep ==
    ASSUME SearchIInv, NotFound
    PROVE  SearchInv' /\ PathIsReal' /\ NoneIsReal' /\ ResultIsLeast'
<1>0. count' = count /\ query' = query /\ pc' = "none" /\ pc = "search"
      /\ todo = {} /\ que = {}
  BY DEF NotFound
<1>1. Complete
  BY <1>0 DEF SearchIInv, SearchInv, Fresh
<1>2. ASSUME NEW e \in Edges, OnChain(query, e, FALSE) PROVE ~Ends(query, e)
  <2>1. e.end \in Nat /\ e.end < e.end + 1 /\ e.end + 1 \in Nat
    BY EdgeType
  <2>2. \A x \in que : e.end + 1 <= x[1]
    BY <1>0
  <2> QED BY <1>0, <1>1, <1>2, <2>1, <2>2, BehindTheQueue DEF SearchIInv
<1>3. NoneIsReal'
  BY <1>0, <1>1, <1>2, SameQuestion DEF NoneIsReal, Complete
<1> QED BY <1>0, <1>3 DEF SearchInv, PathIsReal, ResultIsLeast

LEMMA AnswerStep ==
    ASSUME SearchIInv, PopAnswer
    PROVE  SearchInv' /\ PathIsReal' /\ NoneIsReal' /\ ResultIsLeast'
<1>0. count' = count /\ query' = query /\ pc' = "path" /\ pc = "search"
      /\ todo = {}
  BY DEF PopAnswer
<1>1. PICK x \in que : /\ Top(x) /\ Answers(x[2]) /\ result' = x[1]
                       /\ ~(Reached(x[2]) /\ distance[x[2]] < x[1])
  BY DEF PopAnswer
<1>2. x[2] \in CorePipe /\ x[1] \in Index /\ x = <<x[1], x[2]>>
  BY DEF SearchIInv, TypeOK
<1>3. CASE Fresh
  <2>1. x[1] = query.start /\ x[2] = query.src /\ ~Reached(x[2])
    BY <1>2, <1>3 DEF Fresh, Reached
  <2>2. FromBarrierPipe(query) /\ result' = query.start
    BY <1>1, <2>1 DEF Answers, FromBarrierPipe
  <2>3. PathIsReal'
    BY <1>0, <2>2, SameQuestion DEF PathIsReal
  <2>4. ASSUME NEW e \in Edges, OnChain(query, e, FALSE)
        PROVE  query.start <= e.end
    <3> DEFINE R == {f \in Edges : query.start <= f.end}
    <3>0. query.start \in Nat
      BY <1>2, <2>1
    <3>1. R \in SUBSET Edges
      OBVIOUS
    <3>2. Closed(query, R, FALSE)
      BY <3>0, EdgeType DEF Closed, Begins, Follows
    <3> QED BY <2>4, <3>1, <3>2 DEF OnChain
  <2>5. ResultIsLeast'
    BY <1>0, <2>2, <2>4, SameQuestion DEF ResultIsLeast
  <2> QED BY <1>0, <2>3, <2>5 DEF SearchInv, NoneIsReal
<1>4. CASE ~Fresh
  <2>0. Sound /\ Complete
    BY <1>0, <1>4 DEF SearchIInv, SearchInv
  <2>1. PICK e \in Edges : OnChain(query, e, TRUE) /\ e.dst = x[2] /\ e.end = x[1]
    BY <2>0 DEF Sound, Real
  <2>2. EndsAt(x[2])
    BY <1>1 DEF Answers, EndsAt
  <2>3. Ends(query, e)
    BY <2>1, <2>2 DEF Ends, EndsAt
  <2>4. PathIsReal'
    BY <1>0, <1>1, <2>1, <2>3, SameQuestion DEF PathIsReal
  <2>5. ASSUME NEW f \in Edges, OnChain(query, f, FALSE), Ends(query, f)
        PROVE  x[1] <= f.end
    <3>1. \A y \in que : x[1] <= y[1]
      BY <1>1 DEF Top
    <3>2. x[1] \in Nat /\ f.end \in Nat /\ TypeOK
      BY <1>2, EdgeType, FarType DEF SearchIInv
    <3>3. ~(f.end < x[1])
      BY <1>0, <2>0, <2>5, <3>1, <3>2, BehindTheQueue
    <3> QED BY <3>2, <3>3
  <2>6. ResultIsLeast'
    BY <1>0, <1>1, <2>5, SameQuestion DEF ResultIsLeast
  <2> QED BY <1>0, <2>4, <2>6 DEF SearchInv, NoneIsReal
<1> QED BY <1>3, <1>4

LEMMA ExpandStep ==
    ASSUME SearchIInv, PopExpand
    PROVE  SearchInv' /\ PathIsReal' /\ NoneIsReal' /\ ResultIsLeast'
<1>0. count' = count /\ query' = query /\ pc' = "search" /\ pc = "search"
      /\ todo = {} /\ distance' = distance
  BY DEF PopExpand
<1>1. PICK x \in que :
         /\ Top(x) /\ ~Answers(x[2])
         /\ ~(Reached(x[2]) /\ distance[x[2]] < x[1])
         /\ que' = que \ {x}
         /\ todo' = {f \in Edges : f.src \in Starts(x[2]) /\ Fits(f, x[1])}
  BY DEF PopExpand
<1>2. x[2] \in CorePipe /\ x[1] \in Index /\ x = <<x[1], x[2]>>
  BY DEF SearchIInv, TypeOK
<1>3. CASE Fresh
  <2>1. x[1] = query.start /\ x[2] = query.src /\ que' = {}
    BY <1>1, <1>2, <1>3 DEF Fresh
  <2>2. \A k \in CorePipe : ~Reached(k)
    BY <1>3 DEF Fresh, Reached
  <2>3. Starts(x[2]) = {query.src}
    BY <1>2, <2>1, <2>2 DEF Starts
  <2>4. \A f \in Edges : Begins(query, f) <=> f \in todo'
    BY <1>1, <2>1, <2>3 DEF Begins, Fits
  <2>5. Sound'
    BY <1>0, <1>1, <2>1, <2>2, <2>4, SameQuestion, ChainBegins DEF Sound, Reached
  <2>6. ~FromBarrierPipe(query)
    BY <1>1, <2>1 DEF Answers, FromBarrierPipe
  <2>7. Complete'
    BY <1>0, <2>2, <2>4, <2>6, SameQuestion DEF Complete, Relaxed, Reached
  <2> QED BY <1>0, <2>5, <2>7 DEF SearchInv, PathIsReal, NoneIsReal, ResultIsLeast
<1>4. CASE ~Fresh
  <2>0. Sound /\ Complete
    BY <1>0, <1>4 DEF SearchIInv, SearchInv
  <2>1. PICK e \in Edges : OnChain(query, e, TRUE) /\ e.dst = x[2] /\ e.end = x[1]
    BY <2>0 DEF Sound, Real
  <2>2. distance[x[2]] = x[1] /\ Reached(x[2])
    <3>1. distance[x[2]] <= x[1] /\ distance[x[2]] \in Nat
      BY <1>2, <2>0, FarType DEF Sound, SearchIInv, TypeOK
    <3> QED BY <1>1, <1>2, <3>1, FarType DEF Reached
  <2>3. \A f \in todo' : f \in Edges /\ Follows(query, e, f, TRUE)
    BY <1>1, <2>1 DEF Starts, Follows, Fits
  <2>4. \A f \in todo' : OnChain(query, f, TRUE)
    BY <2>1, <2>3, ChainFollows
  <2>5. Sound'
    BY <1>0, <1>1, <2>0, <2>4, SameQuestion DEF Sound, Reached
  <2>6. ASSUME NEW f \in Edges, Continues(x[2], f), Fits(f, x[1])
        PROVE  f \in todo'
    BY <1>1, <2>2, <2>6 DEF Continues, Starts, SearchIInv, KeysKnown
  <2>7. Expanded(x[2])'
    <3>1. ~EndsAt(x[2])
      BY <1>1, <2>2 DEF Answers, EndsAt
    <3> QED BY <1>0, <2>2, <2>6, <3>1, SameQuestion
            DEF Expanded, Relaxed, Continues
  <2>8. ASSUME NEW k \in CorePipe, Reached(k)
        PROVE  <<distance[k], k>> \in que' \/ Expanded(k)'
    <3>1. CASE k = x[2]
      BY <2>7, <3>1
    <3>2. CASE k # x[2] /\ <<distance[k], k>> \in que
      BY <1>1, <1>2, <3>2
    <3>3. CASE Expanded(k)
      BY <1>0, <3>3, SameQuestion DEF Expanded, Relaxed, Continues
    <3> QED BY <2>0, <2>8, <3>1, <3>2, <3>3 DEF Complete
  <2>9. Complete'
    BY <1>0, <2>0, <2>8, SameQuestion DEF Complete, Relaxed, Reached
  <2> QED BY <1>0, <2>5, <2>9 DEF SearchInv, PathIsReal, NoneIsReal, ResultIsLeast
<1> QED BY <1>3, <1>4

LEMMA RelaxStep ==
    ASSUME SearchIInv, NEW e \in Pairs, Relax(e)
    PROVE  SearchInv' /\ PathIsReal' /\ NoneIsReal' /\ ResultIsLeast'
<1>0. /\ count' = count /\ query' = query /\ pc' = "search" /\ pc = "search"
      /\ e \in todo /\ todo' = todo \ {e}
  BY DEF Relax
<1>1. Sound /\ Complete
  BY <1>0 DEF SearchIInv, SearchInv, Fresh
<1>2. e \in Edges /\ e.end \in Index /\ e.dst \in CorePipe
  BY <1>0, EdgeType DEF SearchIInv, TypeOK
<1>3. /\ distance'[e.dst] <= e.end
      /\ \A k \in CorePipe : distance'[k] <= distance[k] /\ distance[k] \in Nat
      /\ \A k \in CorePipe : k # e.dst => distance'[k] = distance[k]
      /\ distance'[e.dst] \in Nat
  BY <1>2, FarType DEF Relax, Improves, SearchIInv, TypeOK
<1>4. CASE Improves(e)
  <2>0. /\ distance' = [distance EXCEPT ![e.dst] = e.end]
        /\ que' = que \cup {<<e.end, e.dst>>}
        /\ distance'[e.dst] = e.end
    BY <1>2, <1>4 DEF Relax, SearchIInv, TypeOK
  <2>1. Real(<<e.end, e.dst>>)
    BY <1>0, <1>1, <1>2 DEF Sound, Real
  <2>2. \A x : Real(x)' = Real(x)
    BY <1>0, SameQuestion
  <2>3. ASSUME NEW x \in que' PROVE Real(x) /\ distance'[x[2]] <= x[1]
    <3>1. CASE x \in que
      <4>1. x[2] \in CorePipe /\ x[1] \in Nat
        BY <3>1 DEF SearchIInv, TypeOK
      <4>2. distance[x[2]] <= x[1] /\ Real(x)
        BY <1>1, <3>1 DEF Sound
      <4>3. distance'[x[2]] \in Nat
        BY <1>3, <4>1
      <4> QED BY <1>3, <4>1, <4>2, <4>3
    <3>2. CASE x = <<e.end, e.dst>>
      BY <1>2, <2>0, <2>1, <3>2
    <3> QED BY <2>0, <3>1, <3>2
  <2>4. ASSUME NEW k \in CorePipe, Reached(k)' PROVE Real(<<distance'[k], k>>)
    BY <1>1, <1>3, <2>0, <2>1, <2>4 DEF Sound, Reached
  <2>5. Sound'
    BY <1>0, <1>1, <2>2, <2>3, <2>4, SameQuestion DEF Sound
  <2>6. ASSUME NEW f \in Edges, Relaxed(f) PROVE Relaxed(f)'
    BY <1>0, <1>3, <2>6, EdgeType DEF Relaxed
  <2>7. ASSUME NEW k \in CorePipe, Reached(k)'
        PROVE  <<distance'[k], k>> \in que' \/ Expanded(k)'
    <3>1. CASE k = e.dst
      BY <2>0, <3>1
    <3>2. CASE k # e.dst
      <4>1. distance'[k] = distance[k] /\ Reached(k)
        BY <1>3, <2>7, <3>2 DEF Reached
      <4>2. Expanded(k) => Expanded(k)'
        BY <1>0, <2>6, <4>1, SameQuestion DEF Expanded, Continues
      <4> QED BY <1>1, <2>0, <4>1, <4>2 DEF Complete
    <3> QED BY <3>1, <3>2
  <2>8. Complete'
    BY <1>0, <1>1, <2>6, <2>7, SameQuestion DEF Complete
  <2> QED BY <1>0, <2>5, <2>8 DEF SearchInv, PathIsReal, NoneIsReal, ResultIsLeast
<1>5. CASE ~Improves(e)
  <2>0. distance' = distance /\ que' = que
    BY <1>5 DEF Relax
  <2>1. Sound'
    BY <1>0, <1>1, <2>0, SameQuestion DEF Sound, Reached
  <2>2. ASSUME NEW f \in Edges, Relaxed(f) PROVE Relaxed(f)'
    BY <1>0, <1>3, <2>0, <2>2, EdgeType DEF Relaxed
  <2>3. Complete'
    BY <1>0, <1>1, <2>0, <2>2, SameQuestion
       DEF Complete, Reached, Expanded, Continues
  <2> QED BY <1>0, <2>1, <2>3 DEF SearchInv, PathIsReal, NoneIsReal, ResultIsLeast
<1> QED BY <1>4, <1>5
-----------------------------------------------------------------------------
LEMMA SearchInit == Init => SearchIInv
<1> SUFFICES ASSUME Init PROVE SearchIInv
  OBVIOUS
<1>1. Edges = {}
  BY DEF Init, Edges, Present
<1>2. TypeOK
  BY <1>1, GraphAssumption, FarType DEF Init, TypeOK, NoQuery
<1> QED BY <1>1, <1>2 DEF SearchIInv, Init, KeysKnown, IdleClean, SearchInv,
                          PathIsReal, NoneIsReal, ResultIsLeast

LEMMA SearchStep == SearchIInv /\ [Next]_vars => SearchIInv'
<1> SUFFICES ASSUME SearchIInv, [Next]_vars PROVE SearchIInv'
  OBVIOUS
<1>1. TypeOK' /\ KeysKnown' /\ IdleClean'
  BY TypeStep DEF SearchIInv
<1>2. SearchInv' /\ PathIsReal' /\ NoneIsReal' /\ ResultIsLeast'
  <2>1. CASE \/ \E p \in Pairs : InsertConflictPair(p) \/ EraseConflictPair(p)
             \/ ClearTemp \/ Return
    BY <2>1, IdleStep
  <2>2. CASE \E q \in Queries : CheckGraphConflict(q)
    BY <2>2, AskStep
  <2>3. CASE Search
    BY <2>3, StaleStep, AnswerStep, ExpandStep, RelaxStep, NotFoundStep DEF Search
  <2>4. CASE UNCHANGED vars
    <3>1. /\ count' = count /\ query' = query /\ pc' = pc /\ que' = que
          /\ distance' = distance /\ todo' = todo /\ result' = result
      BY <2>4 DEF vars
    <3>2. Sound' = Sound /\ Fresh' = Fresh
      BY <3>1, SameQuestion DEF Sound, Fresh, Reached
    <3>3. Complete' = Complete
      BY <3>1, SameQuestion DEF Complete, Relaxed, Reached, Expanded, Continues
    <3> QED BY <3>1, <3>2, <3>3, SameQuestion
            DEF SearchIInv, SearchInv, PathIsReal, NoneIsReal, ResultIsLeast
  <2> QED BY <2>1, <2>2, <2>3, <2>4 DEF Next
<1> QED BY <1>1, <1>2 DEF SearchIInv

LEMMA SearchIInvHolds == Spec => []SearchIInv
<1> QED BY SearchInit, SearchStep, PTL DEF Spec

(* The search keeps its types.                                              *)
THEOREM GraphTypeCorrect == Spec => []TypeOK
<1>1. SearchIInv => TypeOK
  BY DEF SearchIInv
<1> QED BY <1>1, SearchIInvHolds, PTL

(* A sync is only left out when a chain of chosen pairs enforces the order. *)
THEOREM GraphSound == Spec => []PathIsReal
<1>1. SearchIInv => PathIsReal
  BY DEF SearchIInv
<1> QED BY <1>1, SearchIInvHolds, PTL

(* The search finds a chain whenever there is one.                          *)
THEOREM GraphComplete == Spec => []NoneIsReal
<1>1. SearchIInv => NoneIsReal
  BY DEF SearchIInv
<1> QED BY <1>1, SearchIInvHolds, PTL

(* No chain arrives earlier than the index the search returns.              *)
THEOREM GraphLeast == Spec => []ResultIsLeast
<1>1. SearchIInv => ResultIsLeast
  BY DEF SearchIInv
<1> QED BY <1>1, SearchIInvHolds, PTL
=============================================================================
