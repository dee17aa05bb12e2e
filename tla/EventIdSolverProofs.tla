------------------------ MODULE EventIdSolverProofs ------------------------
(***************************************************************************)
(* Theorems about EventIdSolver, for every number of nodes, pairs and ids. *)
(*                                                                         *)
(* The inductive invariant ties the action stack to the graph: each entry  *)
(* of `log' undoes one change, `trail' holds the graph before it, and each *)
(* of these graphs is well formed.  Undoing then needs no case analysis:   *)
(* the graph it leaves is the one in `trail'.                              *)
(***************************************************************************)
EXTENDS EventIdSolver, FiniteSetTheorems, SequenceTheorems, TLAPS

FiniteIds(h) == \A n \in Slot : IsFiniteSet(h.ids[n])
GoodGraph == {h \in GraphType : GraphOK(h) /\ FiniteIds(h)}

(* The newest node is the one undone. *)
NewestUndone(stack, before) ==
    \A i \in 1 .. Len(stack) :
        stack[i].act = "addNode" => stack[i].node = before[i].count + 1

History(stack, before, now) ==
    /\ stack \in Seq(EntryType) /\ before \in Seq(GoodGraph)
    /\ Len(before) = Len(stack)
    /\ now \in GoodGraph
    /\ Inverts(stack, before, now)
    /\ NewestUndone(stack, before)

(* Logging one more change together with its inverse keeps the history exact. *)
LEMMA PushHistory ==
    ASSUME NEW stack, NEW before, NEW now, History(stack, before, now),
           NEW e \in EntryType, NEW h \in GoodGraph, Undone(e, h) = now,
           e.act = "addNode" => e.node = now.count + 1
    PROVE  History(Append(stack, e), Append(before, now), h)
<1> DEFINE s == Append(stack, e)
           b == Append(before, now)
<1>1. /\ s \in Seq(EntryType) /\ b \in Seq(GoodGraph)
      /\ Len(s) = Len(stack) + 1 /\ Len(b) = Len(stack) + 1
      /\ Len(stack) \in Nat
      /\ \A i \in 1 .. Len(stack) : s[i] = stack[i] /\ b[i] = before[i]
      /\ s[Len(stack) + 1] = e /\ b[Len(stack) + 1] = now
  BY AppendProperties, LenProperties DEF History
<1>2. Inverts(s, b, h)
  <2> SUFFICES ASSUME NEW i \in 1 .. Len(s)
               PROVE  b[i] = Undone(s[i], IF i = Len(s) THEN h ELSE b[i + 1])
    BY DEF Inverts
  <2>1. CASE i = Len(stack) + 1
    BY <1>1, <2>1
  <2>2. CASE i = Len(stack)
    <3>1. before[i] = Undone(stack[i], now)
      BY <1>1, <2>2 DEF History, Inverts
    <3> QED BY <1>1, <2>2, <3>1
  <2>3. CASE i < Len(stack)
    <3>1. before[i] = Undone(stack[i], before[i + 1])
      BY <1>1, <2>3 DEF History, Inverts
    <3> QED BY <1>1, <2>3, <3>1
  <2> QED BY <1>1, <2>1, <2>2, <2>3
<1>3. NewestUndone(s, b)
  <2> SUFFICES ASSUME NEW i \in 1 .. Len(s), s[i].act = "addNode"
               PROVE  s[i].node = b[i].count + 1
    BY DEF NewestUndone
  <2>1. CASE i = Len(stack) + 1
    BY <1>1, <2>1
  <2>2. CASE i \in 1 .. Len(stack)
    BY <1>1, <2>2 DEF History, NewestUndone
  <2> QED BY <1>1, <2>1, <2>2
<1> QED BY <1>1, <1>2, <1>3 DEF History

(* Popping the newest entry keeps the history exact, and the graph it was
   pushed for is what undoing that entry gives. *)
LEMMA PopHistory ==
    ASSUME NEW stack, NEW before, NEW now, History(stack, before, now),
           stack # <<>>
    PROVE  /\ History(Pop(stack), Pop(before), before[Len(stack)])
           /\ before[Len(stack)] = Undone(stack[Len(stack)], now)
<1> DEFINE k == Len(stack)
           s == Pop(stack)
           b == Pop(before)
           h == before[k]
<1>1. /\ k \in Nat /\ k > 0 /\ Len(before) = k
      /\ h \in GoodGraph
  BY LenProperties, EmptySeq, ElementOfSeq DEF History
<1>2. /\ s \in Seq(EntryType) /\ Len(s) = k - 1
      /\ \A i \in 1 .. k - 1 : s[i] = stack[i]
  BY <1>1, SubSeqProperties DEF History, Pop
<1>3. /\ b \in Seq(GoodGraph) /\ Len(b) = k - 1
      /\ \A i \in 1 .. k - 1 : b[i] = before[i]
  BY <1>1, SubSeqProperties DEF History, Pop
<1>4. h = Undone(stack[k], now)
  BY <1>1 DEF History, Inverts
<1>5. Inverts(s, b, h)
  <2> SUFFICES ASSUME NEW i \in 1 .. k - 1
               PROVE  b[i] = Undone(s[i], IF i = k - 1 THEN h ELSE b[i + 1])
    BY <1>2 DEF Inverts
  <2>1. before[i] = Undone(stack[i], before[i + 1])
    BY <1>1 DEF History, Inverts
  <2> QED BY <1>1, <1>2, <1>3, <2>1
<1>6. NewestUndone(s, b)
  BY <1>1, <1>2, <1>3 DEF History, NewestUndone
<1> QED BY <1>1, <1>2, <1>3, <1>4, <1>5, <1>6 DEF History
-----------------------------------------------------------------------------
(***************************************************************************)
(* Every change keeps the graph good, and Revert is its left inverse.      *)
(***************************************************************************)
Parts(h) ==
    /\ h.count \in 0 .. MaxNodes
    /\ h.kind \in [Slot -> Kinds \cup {Blank}]
    /\ h.adj \in [Slot -> [Slot -> Nat]]
    /\ h.sum \in [Slot -> Int]
    /\ h.owner \in [Pair -> 0 .. MaxNodes]
    /\ h.ids \in [Slot -> SUBSET Nat]
    /\ h.stale \in BOOLEAN

Build(c, k, a, s, o, i, b) ==
    [count |-> c, kind |-> k, adj |-> a, sum |-> s, owner |-> o, ids |-> i,
     stale |-> b]

SetEdges(h, a, s) == [h EXCEPT !.adj = a, !.sum = s]

(* Adding and removing an edge touch adjacency and degree sums only. *)
LEMMA EdgeFields ==
    ASSUME NEW c, NEW k, NEW a, NEW s, NEW o, NEW i, NEW b, NEW a2, NEW s2
    PROVE  SetEdges(Build(c, k, a, s, o, i, b), a2, s2)
              = Build(c, k, a2, s2, o, i, b)
<1>1. SetEdges(Build(c, k, a, s, o, i, b), a2, s2)
         = [[Build(c, k, a, s, o, i, b) EXCEPT !.adj = a2] EXCEPT !.sum = s2]
  BY DEF SetEdges
<1>2. [Build(c, k, a, s, o, i, b) EXCEPT !.adj = a2] = Build(c, k, a2, s, o, i, b)
  BY DEF Build
<1>3. [Build(c, k, a2, s, o, i, b) EXCEPT !.sum = s2] = Build(c, k, a2, s2, o, i, b)
  BY DEF Build
<1> QED BY <1>1, <1>2, <1>3

(* A well-typed graph is the record of its parts. *)
LEMMA GraphParts ==
    ASSUME NEW h \in GraphType
    PROVE  /\ Parts(h)
           /\ h = Build(h.count, h.kind, h.adj, h.sum, h.owner, h.ids, h.stale)
BY DEF GraphType, Parts, Build

(* A record with well-typed parts is a well-typed graph. *)
LEMMA BuiltGraph ==
    ASSUME NEW c, NEW k, NEW a, NEW s, NEW o, NEW i, NEW b,
           Parts(Build(c, k, a, s, o, i, b))
    PROVE  Build(c, k, a, s, o, i, b) \in GraphType
BY DEF GraphType, Parts, Build

(* The parts of a well-formed graph, and what holds of them. *)
LEMMA GoodParts ==
    ASSUME NEW h \in GoodGraph
    PROVE  /\ Parts(h) /\ GraphOK(h) /\ FiniteIds(h)
           /\ h = Build(h.count, h.kind, h.adj, h.sum, h.owner, h.ids, h.stale)
           /\ h.count \in Nat
           /\ \A n \in Live(h) : n \in Slot /\ n \in 0 .. MaxNodes
           /\ \A n \in Live(h) : h.kind[n] \in Kinds
<1>1. h \in GraphType /\ GraphOK(h) /\ FiniteIds(h)
  BY DEF GoodGraph
<1>2. Parts(h) /\ h = Build(h.count, h.kind, h.adj, h.sum, h.owner, h.ids, h.stale)
  BY <1>1, GraphParts
<1>3. h.count \in 0 .. MaxNodes /\ MaxNodes \in Nat
  BY <1>2, SolverAssumption DEF Parts
<1>4. \A n \in Live(h) : n \in Slot /\ n \in 0 .. MaxNodes
  BY <1>3 DEF Live, Slot
<1>5. \A n \in Live(h) : h.kind[n] \in Kinds
  BY <1>1 DEF GraphOK
<1> QED BY <1>1, <1>2, <1>3, <1>4, <1>5

(* A graph of well-typed parts that is a graph, with finite ids, is well formed. *)
LEMMA MakeGood ==
    ASSUME NEW c, NEW k, NEW a, NEW s, NEW o, NEW i, NEW b,
           Parts(Build(c, k, a, s, o, i, b)),
           GraphOK(Build(c, k, a, s, o, i, b)),
           FiniteIds(Build(c, k, a, s, o, i, b))
    PROVE  Build(c, k, a, s, o, i, b) \in GoodGraph
BY BuiltGraph DEF GoodGraph

(* addNode keeps the graph well formed and removeNode undoes it. *)
LEMMA NodeChange ==
    ASSUME NEW h \in GoodGraph, h.count < MaxNodes, NEW k \in Kinds
    PROVE  /\ WithNode(h, k) \in GoodGraph
           /\ WithoutNode(WithNode(h, k)) = h
           /\ WithNode(h, k).count = h.count + 1
           /\ WithNode(h, k).owner = h.owner /\ WithNode(h, k).ids = h.ids
<1> DEFINE n == h.count + 1
           kind == [h.kind EXCEPT ![n] = k]
           w == Build(n, kind, h.adj, h.sum, h.owner, h.ids, h.stale)
<1>1. /\ Parts(h) /\ GraphOK(h) /\ FiniteIds(h)
      /\ h = Build(h.count, h.kind, h.adj, h.sum, h.owner, h.ids, h.stale)
      /\ h.count \in Nat /\ MaxNodes \in Nat
  BY GoodParts, SolverAssumption
<1>2. n \in Slot
  BY <1>1 DEF Slot
<1>3. WithNode(h, k) = w
  <2>1. WithNode(h, k) = [h EXCEPT !.count = n, !.kind = kind]
    BY <1>1 DEF WithNode
  <2> HIDE DEF n, kind
  <2> QED BY <1>1, <2>1 DEF Build
<1>4. Parts(w)
  BY <1>1, <1>2 DEF Parts, Build, Slot
<1>5. GraphOK(w) /\ FiniteIds(w)
  <2> HIDE DEF kind
  <2>1. /\ kind[n] = k
        /\ \A x \in Slot \ {n} : kind[x] = h.kind[x]
    BY <1>1, <1>2 DEF Parts, kind
  <2>2. Live(w) = Live(h) \cup {n}
    BY <1>1 DEF Live, Build
  <2>3. \A x \in Live(w) : x \in Slot
    BY <1>4, <2>2, <1>2, GoodParts
  <2> HIDE DEF n
  <2>4. /\ w.adj = h.adj /\ w.sum = h.sum /\ w.owner = h.owner /\ w.ids = h.ids
        /\ w.kind = kind /\ w.count = n
    BY DEF Build
  <2>5. n = h.count + 1
    BY DEF n
  <2>6. \A x \in Slot \ Live(w) : x \in Slot \ Live(h) /\ x # n
    BY <2>2
  <2>7. \A p \in Pair : h.owner[p] \in Nat
    BY <1>1 DEF Parts
  <2> HIDE DEF w
  <2>8. \A x, y \in Slot : h.adj[x][y] > 0 => x # y /\ x <= n
    <3>1. \A x, y \in Slot : h.adj[x][y] > 0 => x # y /\ x <= h.count
      BY <1>1 DEF GraphOK
    <3>2. \A x \in Slot : x \in Int
      BY DEF Slot
    <3> QED BY <1>1, <2>5, <3>1, <3>2
  <2>9. \A x \in Live(w) : kind[x] \in Kinds
    BY <1>1, <2>1, <2>2, <2>3 DEF GraphOK
  <2>10. \A p \in Pair : h.owner[p] <= n
    BY <1>1, <2>5, <2>7 DEF GraphOK
  <2> QED BY <1>1, <2>1, <2>4, <2>6, <2>8, <2>9, <2>10 DEF GraphOK, FiniteIds
<1>6. w \in GoodGraph
  BY <1>4, <1>5, MakeGood
<1>7. [kind EXCEPT ![n] = Blank] = h.kind
  <2>1. n \in Slot \ Live(h)
    BY <1>1, <1>2 DEF Live
  <2>2. h.kind[n] = Blank
    BY <1>1, <2>1 DEF GraphOK
  <2> QED BY <1>1, <1>2, <2>2 DEF Parts
<1>8. WithoutNode(w) = h
  <2>1. n - 1 = h.count
    BY <1>1
  <2>2. WithoutNode(w) = [w EXCEPT !.count = n - 1, !.kind = [kind EXCEPT ![n] = Blank]]
    BY DEF WithoutNode, Build
  <2> HIDE DEF n, kind
  <2> QED BY <1>1, <1>7, <2>1, <2>2 DEF Build
<1> QED BY <1>3, <1>6, <1>8 DEF Build

(* Mapping a pair to a live node keeps the graph well formed. *)
LEMMA PairChange ==
    ASSUME NEW h \in GoodGraph, NEW n \in Live(h), NEW p \in Pair, h.owner[p] = 0
    PROVE  /\ WithPair(h, n, p) \in GoodGraph
           /\ WithPair(WithPair(h, n, p), 0, p) = h
           /\ WithPair(h, n, p).count = h.count /\ WithPair(h, n, p).ids = h.ids
<1> DEFINE owner == [h.owner EXCEPT ![p] = n]
           w == Build(h.count, h.kind, h.adj, h.sum, owner, h.ids, h.stale)
<1>1. /\ Parts(h) /\ GraphOK(h) /\ FiniteIds(h)
      /\ h = Build(h.count, h.kind, h.adj, h.sum, h.owner, h.ids, h.stale)
      /\ h.count \in Nat /\ n \in 0 .. MaxNodes
  BY GoodParts
<1>2. WithPair(h, n, p) = w
  BY <1>1 DEF WithPair, Build
<1>3. Parts(w)
  BY <1>1 DEF Parts, Build
<1>4. GraphOK(w) /\ FiniteIds(w)
  BY <1>1 DEF GraphOK, FiniteIds, Parts, Build, Live
<1>5. w \in GoodGraph
  BY <1>3, <1>4, MakeGood
<1>6. [owner EXCEPT ![p] = 0] = h.owner
  BY <1>1 DEF Parts
<1>7. WithPair(w, 0, p) = h
  BY <1>1, <1>6 DEF WithPair, Build
<1> QED BY <1>2, <1>5, <1>7 DEF Build

(* Giving a live node finitely many ids keeps the graph well formed; giving the
   old ones back undoes it. *)
LEMMA IdsChange ==
    ASSUME NEW h \in GoodGraph, NEW n \in Live(h), NEW s \in SUBSET Nat,
           IsFiniteSet(s)
    PROVE  /\ WithIds(h, n, s) \in GoodGraph
           /\ WithIds(WithIds(h, n, s), n, h.ids[n]) = h
           /\ WithIds(h, n, s).ids = [h.ids EXCEPT ![n] = s]
           /\ WithIds(h, n, s).count = h.count /\ WithIds(h, n, s).kind = h.kind
           /\ WithIds(h, n, s).adj = h.adj /\ WithIds(h, n, s).stale = h.stale
           /\ Structure(WithIds(h, n, s)) = Structure(h)
<1> DEFINE ids == [h.ids EXCEPT ![n] = s]
           w == Build(h.count, h.kind, h.adj, h.sum, h.owner, ids, h.stale)
<1>1. /\ Parts(h) /\ GraphOK(h) /\ FiniteIds(h)
      /\ h = Build(h.count, h.kind, h.adj, h.sum, h.owner, h.ids, h.stale)
      /\ n \in Slot
  BY GoodParts
<1>2. WithIds(h, n, s) = w
  BY <1>1 DEF WithIds, Build
<1>3. Parts(w)
  BY <1>1 DEF Parts, Build
<1>4. GraphOK(w) /\ FiniteIds(w)
  BY <1>1 DEF GraphOK, FiniteIds, Parts, Build, Live
<1>5. w \in GoodGraph
  BY <1>3, <1>4, MakeGood
<1>6. [ids EXCEPT ![n] = h.ids[n]] = h.ids
  BY <1>1 DEF Parts
<1>7. WithIds(w, n, h.ids[n]) = h
  BY <1>1, <1>6 DEF WithIds, Build
<1> QED BY <1>2, <1>5, <1>7 DEF Build, Structure

(* needRecalculateEventIds can be set and set back. *)
LEMMA StaleChange ==
    ASSUME NEW h \in GoodGraph, NEW b \in BOOLEAN
    PROVE  /\ WithStale(h, b) \in GoodGraph
           /\ WithStale(WithStale(h, b), h.stale) = h
           /\ WithStale(h, b).count = h.count /\ WithStale(h, b).kind = h.kind
           /\ WithStale(h, b).adj = h.adj /\ WithStale(h, b).ids = h.ids
           /\ WithStale(h, b).stale = b
           /\ Structure(WithStale(h, b)) = Structure(h)
<1> DEFINE w == Build(h.count, h.kind, h.adj, h.sum, h.owner, h.ids, b)
<1>1. /\ Parts(h) /\ GraphOK(h) /\ FiniteIds(h)
      /\ h = Build(h.count, h.kind, h.adj, h.sum, h.owner, h.ids, h.stale)
  BY GoodParts
<1>2. WithStale(h, b) = w
  BY <1>1 DEF WithStale, Build
<1>3. Parts(w)
  BY <1>1 DEF Parts, Build
<1>4. GraphOK(w) /\ FiniteIds(w)
  BY <1>1 DEF GraphOK, FiniteIds, Build, Live
<1>5. w \in GoodGraph
  BY <1>3, <1>4, MakeGood
<1>6. WithStale(w, h.stale) = h
  BY <1>1 DEF WithStale, Build
<1> QED BY <1>2, <1>5, <1>6 DEF Build, Structure

(* An edge between two nodes, undone: the frequencies and both degree sums  *)
(* return to what they were.                                                *)
LEMMA EdgeChange ==
    ASSUME NEW h \in GoodGraph, NEW a \in Live(h), NEW b \in Live(h), a # b
    PROVE  /\ WithEdge(h, a, b) \in GoodGraph
           /\ WithoutEdge(WithEdge(h, a, b), a, b) = h
           /\ WithEdge(h, a, b).count = h.count
           /\ WithEdge(h, a, b).stale = h.stale
<1> DEFINE da == Gain(h, a, b, 0)
           db == Gain(h, b, a, 0)
           adj == Bump(h.adj, a, b, 1)
           sum == [h.sum EXCEPT ![a] = h.sum[a] + da, ![b] = h.sum[b] + db]
           w == Build(h.count, h.kind, adj, sum, h.owner, h.ids, h.stale)
<1>1. /\ Parts(h) /\ GraphOK(h) /\ FiniteIds(h)
      /\ h = Build(h.count, h.kind, h.adj, h.sum, h.owner, h.ids, h.stale)
      /\ a \in Slot /\ b \in Slot
      /\ h.kind[a] \in Kinds /\ h.kind[b] \in Kinds
  BY GoodParts
<1>2. h.adj \in [Slot -> [Slot -> Nat]] /\ h.sum \in [Slot -> Int]
  BY <1>1 DEF Parts
<1>3. da \in Nat /\ db \in Nat
  BY <1>1, SolverAssumption DEF Kind, Gain
<1>4. WithEdge(h, a, b) = w
  <2>1. WithEdge(h, a, b) = [h EXCEPT !.adj = adj, !.sum = sum]
    BY DEF WithEdge
  <2> HIDE DEF adj, sum
  <2> QED BY <1>1, <2>1 DEF Build
<1>5. /\ adj \in [Slot -> [Slot -> Nat]]
      /\ \A x, y \in Slot :
             adj[x][y] = IF <<x, y>> \in {<<a, b>>, <<b, a>>}
                         THEN h.adj[x][y] + 1 ELSE h.adj[x][y]
  BY <1>1, <1>2 DEF Bump
<1> HIDE DEF da, db
<1>6. /\ sum \in [Slot -> Int]
      /\ \A x \in Slot \ {a, b} : sum[x] = h.sum[x]
      /\ sum[a] = h.sum[a] + da /\ sum[b] = h.sum[b] + db
  BY <1>1, <1>2, <1>3
<1> HIDE DEF adj, sum
<1>7. Parts(w)
  BY <1>1, <1>5, <1>6 DEF Parts, Build
<1>8. GraphOK(w) /\ FiniteIds(w)
  <2>1. /\ w.adj = adj /\ w.sum = sum /\ w.owner = h.owner /\ w.ids = h.ids
        /\ w.kind = h.kind /\ w.count = h.count /\ Live(w) = Live(h)
    BY DEF Build, Live
  <2>2. \A x, y \in Slot : adj[x][y] = adj[y][x]
    BY <1>1, <1>5 DEF GraphOK
  <2>3. \A x, y \in Slot : adj[x][y] > 0 => x # y /\ x <= h.count
    <3> SUFFICES ASSUME NEW x \in Slot, NEW y \in Slot, adj[x][y] > 0
                 PROVE  x # y /\ x <= h.count
      OBVIOUS
    <3>1. CASE <<x, y>> \in {<<a, b>>, <<b, a>>}
      <4>1. x \in Live(h) /\ x # y
        BY <3>1
      <4> QED BY <1>1, <4>1 DEF Live, Parts
    <3>2. CASE <<x, y>> \notin {<<a, b>>, <<b, a>>}
      BY <1>1, <1>5, <3>2 DEF GraphOK
    <3> QED BY <3>1, <3>2
  <2>4. \A x \in Slot \ Live(h) : sum[x] = 0
    BY <1>1, <1>6 DEF GraphOK
  <2> QED BY <1>1, <2>1, <2>2, <2>3, <2>4 DEF GraphOK, FiniteIds
<1>9. w \in GoodGraph
  BY <1>7, <1>8, MakeGood
<1>10. Bump(adj, a, b, -1) = h.adj
  BY <1>2, <1>5 DEF Bump
<1>11. Gain(w, a, b, 1) = da /\ Gain(w, b, a, 1) = db
  <2>1. w.adj = adj /\ w.kind = h.kind
    BY DEF Build
  <2>2. adj[a][b] = h.adj[a][b] + 1 /\ adj[b][a] = h.adj[b][a] + 1
    BY <1>1, <1>5
  <2>3. h.adj[a][b] \in Nat /\ h.adj[b][a] \in Nat
    BY <1>1, <1>2
  <2> HIDE DEF w
  <2> QED BY <2>1, <2>2, <2>3 DEF Gain, da, db
<1>12. [sum EXCEPT ![a] = sum[a] - da, ![b] = sum[b] - db] = h.sum
  <2> DEFINE f == [sum EXCEPT ![a] = sum[a] - da, ![b] = sum[b] - db]
  <2>1. /\ f[a] = sum[a] - da /\ f[b] = sum[b] - db
        /\ \A x \in Slot \ {a, b} : f[x] = sum[x]
        /\ f \in [Slot -> Int]
    BY <1>1, <1>2, <1>3, <1>6
  <2> HIDE DEF f
  <2>2. h.sum[a] \in Int /\ h.sum[b] \in Int
    BY <1>1, <1>2
  <2>3. \A x \in Slot : f[x] = h.sum[x]
    BY <1>3, <1>6, <2>1, <2>2
  <2>4. f = h.sum
    BY <1>2, <2>1, <2>3
  <2> QED BY <2>4 DEF f
<1>13. WithoutEdge(w, a, b) = h
  <2> DEFINE adj0 == Bump(adj, a, b, -1)
             sum0 == [sum EXCEPT ![a] = sum[a] - da, ![b] = sum[b] - db]
  <2>1. WithoutEdge(w, a, b) = SetEdges(w, adj0, sum0)
    <3>1. w.adj = adj /\ w.sum = sum
      BY DEF Build
    <3> QED BY <1>11, <3>1 DEF WithoutEdge, SetEdges
  <2> HIDE DEF adj0, sum0
  <2>2. SetEdges(w, adj0, sum0)
           = Build(h.count, h.kind, adj0, sum0, h.owner, h.ids, h.stale)
    BY EdgeFields
  <2> QED BY <1>1, <1>10, <1>12, <2>1, <2>2 DEF adj0, sum0
<1> QED BY <1>4, <1>9, <1>13 DEF Build
-----------------------------------------------------------------------------
(***************************************************************************)
(* Finite sets of numbers, and the ids the choosers return.                *)
(***************************************************************************)
LEMMA FiniteMax ==
    ASSUME NEW S \in SUBSET Nat, IsFiniteSet(S), S # {}
    PROVE  MaxOf(S) \in S /\ \A y \in S : y <= MaxOf(S)
<1> DEFINE Above(x) == {y \in S : y > x}
           T == {Above(x) : x \in S}
<1>1. IsWellFoundedOn(StrictSubsetOrdering(S), FiniteSubsetsOf(S))
  BY FS_StrictSubsetOrderingWellFounded
<1>2. T \subseteq FiniteSubsetsOf(S) /\ T # {}
  <2>1. \A x \in S : Above(x) \in SUBSET S
    OBVIOUS
  <2>2. \A x \in S : IsFiniteSet(Above(x))
    BY <2>1, FS_Subset
  <2> QED BY <2>1, <2>2 DEF FiniteSubsetsOf
<1>3. PICK U \in T : \A V \in T : <<V, U>> \notin StrictSubsetOrdering(S)
  BY <1>1, <1>2, WFMin
<1>4. PICK x \in S : U = Above(x)
  BY <1>3
<1>5. \A y \in S : y <= x
  <2> SUFFICES ASSUME NEW y \in S, y > x
               PROVE  FALSE
    OBVIOUS
  <2>1. Above(y) \in T
    OBVIOUS
  <2>2. Above(y) \subseteq Above(x) /\ Above(y) # Above(x)
    <3>1. y \in Above(x) /\ y \notin Above(y)
      OBVIOUS
    <3>2. \A z \in Above(y) : z \in Above(x)
      OBVIOUS
    <3> QED BY <3>1, <3>2
  <2>3. <<Above(y), U>> \in StrictSubsetOrdering(S)
    BY <1>4, <2>2 DEF StrictSubsetOrdering
  <2> QED BY <1>3, <2>1, <2>3
<1> QED BY <1>5 DEF MaxOf

(* The n smallest members of a finite set are finitely many. *)
LEMMA FiniteLowest ==
    ASSUME NEW S \in SUBSET Nat, IsFiniteSet(S), NEW n \in Nat
    PROVE  /\ Lowest(n, S) \subseteq S /\ IsFiniteSet(Lowest(n, S))
           /\ Highest(n, S) \subseteq S /\ IsFiniteSet(Highest(n, S))
BY FS_Subset DEF Lowest, Highest

(* Somebody is lowest: counting the members of S from below reaches S.      *)
LEMMA LowestExists ==
    ASSUME NEW S \in SUBSET Nat, IsFiniteSet(S), S # {}, NEW n \in Nat \ {0}
    PROVE  Lowest(n, S) # {}
<1> DEFINE Below(x) == {y \in S : y < x}
           T == {Below(x) : x \in S}
<1>1. IsWellFoundedOn(StrictSubsetOrdering(S), FiniteSubsetsOf(S))
  BY FS_StrictSubsetOrderingWellFounded
<1>2. T \subseteq FiniteSubsetsOf(S) /\ T # {}
  <2>1. \A x \in S : Below(x) \in SUBSET S
    OBVIOUS
  <2>2. \A x \in S : IsFiniteSet(Below(x))
    BY <2>1, FS_Subset
  <2> QED BY <2>1, <2>2 DEF FiniteSubsetsOf
<1>3. PICK U \in T : \A V \in T : <<V, U>> \notin StrictSubsetOrdering(S)
  BY <1>1, <1>2, WFMin
<1>4. PICK x \in S : U = Below(x)
  BY <1>3
<1>5. Below(x) = {}
  <2> SUFFICES ASSUME NEW y \in S, y < x
               PROVE  FALSE
    OBVIOUS
  <2>1. Below(y) \in T
    OBVIOUS
  <2>2. Below(y) \subseteq Below(x) /\ Below(y) # Below(x)
    <3>1. y \in Below(x) /\ y \notin Below(y)
      OBVIOUS
    <3>2. \A z \in Below(y) : z \in Below(x)
      OBVIOUS
    <3> QED BY <3>1, <3>2
  <2>3. <<Below(y), U>> \in StrictSubsetOrdering(S)
    BY <1>4, <2>2 DEF StrictSubsetOrdering
  <2> QED BY <1>3, <2>1, <2>3
<1>6. Cardinality(Below(x)) = 0
  BY <1>5, FS_EmptySet
<1> QED BY <1>6 DEF Lowest
-----------------------------------------------------------------------------
(***************************************************************************)
(* The inductive invariant.  `next' gets no type: the code's remainder by  *)
(* eventIdsNumMax has no value when that is zero, and no id depends on it. *)
(***************************************************************************)
CalcType(x) ==
    [ret : {"none", "judge", "resize", "finish"}, roundRobin : BOOLEAN,
     left : SUBSET Slot, value : [Slot -> Int], order : Seq(Slot), top : Nat,
     next : {x}]

(* The marker is the first entry of the stack and the only marker in it.    *)
Marked(stack) ==
    /\ stack # <<>> /\ stack[1].act = "none"
    /\ \A i \in 2 .. Len(stack) : stack[i].act # "none"

Placed ==
    /\ pc \in Phases
    /\ pc \in Calculating => calc.ret # "none"
    /\ InTransaction => Marked(log)
    /\ pc = "idle" => log = <<>>
    /\ InTransaction /\ pc \notin {"open", "undo"} => cur \in Live(g)
    /\ pc = "link" => todo \subseteq Live(g)
    /\ pc \in Calculating =>
           /\ calc.left \subseteq Live(g)
           /\ \A i \in 1 .. Len(calc.order) : calc.order[i] \in Live(g)

Locals ==
    /\ maxNum \in Nat /\ reserved \in SUBSET Nat /\ IsFiniteSet(reserved)
    /\ calc \in CalcType(calc.next)
    /\ cur \in 0 .. MaxNodes /\ todo \in SUBSET Slot

IInv ==
    /\ History(log, trail, g)
    /\ Locals
    /\ Placed

(* A node has finitely many neighbours. *)
LEMMA NeighboursFinite ==
    ASSUME NEW h \in GoodGraph, NEW D \in SUBSET Slot
    PROVE  /\ UNION {h.ids[m] : m \in D} \in SUBSET Nat
           /\ IsFiniteSet(UNION {h.ids[m] : m \in D})
<1> DEFINE R == {h.ids[m] : m \in D}
           f == [m \in D |-> h.ids[m]]
<1>1. h.ids \in [Slot -> SUBSET Nat] /\ FiniteIds(h)
  BY GoodParts DEF Parts
<1>2. IsFiniteSet(Slot)
  BY SolverAssumption, FS_Interval DEF Slot
<1>3. IsFiniteSet(D)
  BY <1>2, FS_Subset
<1>4. f \in Surjection(D, R)
  BY DEF Surjection
<1>5. IsFiniteSet(R)
  BY <1>3, <1>4, FS_Surjection
<1>6. \A T \in R : IsFiniteSet(T) /\ T \in SUBSET Nat
  BY <1>1 DEF FiniteIds
<1>7. IsFiniteSet(UNION R)
  BY <1>5, <1>6, FS_UNION
<1> QED BY <1>6, <1>7

(* Finitely many ids are closed to a node: its neighbours' and the reserved. *)
LEMMA TakenFinite ==
    ASSUME g \in GoodGraph, reserved \in SUBSET Nat, IsFiniteSet(reserved),
           NEW n \in Slot
    PROVE  Taken(n) \in SUBSET Nat /\ IsFiniteSet(Taken(n))
<1> DEFINE U == UNION {g.ids[m] : m \in Adjacent(g, n)}
<1>1. Adjacent(g, n) \in SUBSET Slot
  BY GoodParts DEF Adjacent
<1>2. U \in SUBSET Nat /\ IsFiniteSet(U)
  BY <1>1, NeighboursFinite
<1>3. Taken(n) = U \cup reserved
  BY DEF Taken
<1> HIDE DEF U
<1>4. IsFiniteSet(U \cup reserved)
  BY <1>2, FS_Union
<1> QED BY <1>2, <1>3, <1>4

(* getChosenEventIds returns a finite, non-empty set of ids: there is always *)
(* a free id below the number of ids asked for plus the number of ids taken. *)
LEMMA ChosenFinite ==
    ASSUME g \in GoodGraph, reserved \in SUBSET Nat, IsFiniteSet(reserved),
           maxNum \in Nat, calc.top \in Nat, NEW n \in Live(g)
    PROVE  /\ ChosenIds(n) \in SUBSET Nat /\ IsFiniteSet(ChosenIds(n))
           /\ ChosenIds(n) # {}
           /\ LastChosen(n) \in Nat
           /\ \A e \in ChosenIds(n) : e <= Max2(calc.top, LastChosen(n)) \/ e < maxNum
<1> DEFINE k == g.kind[n].num
           B == (0 .. k + Cardinality(Taken(n))) \ Taken(n)
           H == (0 .. Max2(calc.top, maxNum - 1)) \ Taken(n)
<1>1. /\ n \in Slot /\ g.kind[n] \in Kinds
  BY GoodParts
<1>2. /\ k \in Nat \ {0}
      /\ g.kind[n].pin # NoPin => g.kind[n].pin \in Nat
  BY <1>1, SolverAssumption DEF Kind
<1>3. Taken(n) \in SUBSET Nat /\ IsFiniteSet(Taken(n)) /\ Cardinality(Taken(n)) \in Nat
  BY <1>1, TakenFinite, FS_CardinalityType
<1>4. CASE IsPinned(n)
  <2>1. ChosenIds(n) = {g.kind[n].pin} /\ g.kind[n].pin \in Nat
    BY <1>2, <1>4 DEF ChosenIds, IsPinned
  <2>2. IsFiniteSet(ChosenIds(n)) /\ ChosenIds(n) \in SUBSET Nat /\ ChosenIds(n) # {}
    BY <2>1, FS_Singleton
  <2>3. LastChosen(n) = MaxOf(ChosenIds(n))
    BY <1>4 DEF LastChosen
  <2> QED BY <2>2, <2>3, FiniteMax DEF Max2
<1>5. CASE ~IsPinned(n) /\ ~g.kind[n].rev
  <2>1. ChosenIds(n) = Lowest(k, B)
    BY <1>5 DEF ChosenIds
  <2>2. LastChosen(n) = MaxOf(ChosenIds(n))
    BY <1>5 DEF LastChosen
  <2>3. /\ IsFiniteSet(0 .. k + Cardinality(Taken(n)))
        /\ Cardinality(0 .. k + Cardinality(Taken(n))) = k + Cardinality(Taken(n)) + 1
    <3>1. k + Cardinality(Taken(n)) \in Nat
      BY <1>2, <1>3
    <3> DEFINE last == k + Cardinality(Taken(n))
    <3>2. /\ IsFiniteSet(0 .. last)
          /\ Cardinality(0 .. last) = IF 0 > last THEN 0 ELSE last - 0 + 1
      <4> HIDE DEF last
      <4>1. last \in Int /\ 0 \in Int
        BY <3>1 DEF last
      <4> QED BY <4>1, FS_Interval
    <3> QED BY <3>1, <3>2
  <2>4. B \in SUBSET Nat /\ IsFiniteSet(B)
    <3>1. IsFiniteSet(B)
      BY <2>3, FS_Difference
    <3> QED BY <3>1
  <2>5. B # {}
    <3> SUFFICES ASSUME B = {}
                 PROVE  FALSE
      OBVIOUS
    <3>1. (0 .. k + Cardinality(Taken(n))) \in SUBSET Taken(n)
      OBVIOUS
    <3>2. Cardinality(0 .. k + Cardinality(Taken(n))) <= Cardinality(Taken(n))
      BY <1>3, <3>1, FS_Subset
    <3> QED BY <1>2, <1>3, <2>3, <3>2
  <2>6. /\ ChosenIds(n) \subseteq B /\ IsFiniteSet(ChosenIds(n))
        /\ ChosenIds(n) # {}
    <3> HIDE DEF k, B
    <3> QED BY <1>2, <2>1, <2>4, <2>5, FiniteLowest, LowestExists
  <2> QED BY <2>2, <2>4, <2>6, FiniteMax DEF Max2
<1>6. CASE ~IsPinned(n) /\ g.kind[n].rev
  <2> DEFINE I == calc.top + 1 .. calc.top + Missing(n)
  <2>1. ChosenIds(n) = HighIds(n) \cup I
    BY <1>6 DEF ChosenIds
  <2>2. H \in SUBSET Nat /\ IsFiniteSet(H)
    <3>1. Max2(calc.top, maxNum - 1) \in Int
      BY DEF Max2
    <3>2. IsFiniteSet(0 .. Max2(calc.top, maxNum - 1))
      BY <3>1, FS_Interval
    <3>3. IsFiniteSet(H)
      BY <3>2, FS_Difference
    <3> QED BY <3>3
  <2>3. HighIds(n) \subseteq H /\ IsFiniteSet(HighIds(n))
    BY <1>2, <2>2, FiniteLowest DEF HighIds
  <2>4. Missing(n) \in Int /\ Missing(n) = k - Cardinality(HighIds(n))
    BY <1>2, <2>3, FS_CardinalityType DEF Missing
  <2>5. I \in SUBSET Nat /\ IsFiniteSet(I)
    <3>1. calc.top + 1 \in Int /\ calc.top + Missing(n) \in Int
      BY <2>4
    <3>2. IsFiniteSet(I)
      BY <3>1, FS_Interval
    <3> QED BY <2>4, <3>2
  <2>6. ChosenIds(n) \in SUBSET Nat /\ IsFiniteSet(ChosenIds(n))
    BY <2>1, <2>2, <2>3, <2>5, FS_Union
  <2>7. \A e \in HighIds(n) : e <= calc.top \/ e < maxNum
    BY <2>2, <2>3 DEF Max2
  <2>8. CASE Missing(n) > 0
    <3>1. LastChosen(n) = calc.top + Missing(n)
      BY <1>6, <2>8 DEF LastChosen
    <3>2. calc.top + Missing(n) \in I
      BY <2>4, <2>8
    <3> QED BY <2>1, <2>4, <2>6, <2>7, <2>8, <3>1, <3>2 DEF Max2
  <2>9. CASE ~(Missing(n) > 0)
    <3>1. LastChosen(n) = MaxOf(ChosenIds(n))
      BY <2>9 DEF LastChosen
    <3>2. HighIds(n) # {}
      <4>1. Cardinality(HighIds(n)) # 0
        BY <1>2, <2>3, <2>4, <2>9, FS_CardinalityType
      <4> QED BY <4>1, FS_EmptySet
    <3> QED BY <2>1, <2>6, <3>1, <3>2, FiniteMax DEF Max2
  <2> QED BY <2>8, <2>9
<1> QED BY <1>4, <1>5, <1>6

(* getRoundRobinEventIds returns finitely many natural numbers. *)
LEMMA RoundRobinFinite ==
    ASSUME g \in GoodGraph, maxNum \in Nat, NEW n \in Live(g)
    PROVE  RoundRobinIds(n) \in SUBSET Nat /\ IsFiniteSet(RoundRobinIds(n))
<1>1. g.kind[n] \in Kinds
  BY GoodParts
<1>2. /\ g.kind[n].num \in Nat
      /\ g.kind[n].pin # NoPin => g.kind[n].pin \in Nat
  BY <1>1, SolverAssumption DEF Kind
<1>3. \A from : FreeFrom(from, n) \in SUBSET Nat /\ IsFiniteSet(FreeFrom(from, n))
  <2> TAKE from
  <2> DEFINE F == {x \in 0 .. maxNum : x >= from} \ Taken(n)
  <2>1. F \in SUBSET (0 .. maxNum) /\ IsFiniteSet(0 .. maxNum)
    BY FS_Interval
  <2>2. F \in SUBSET Nat /\ IsFiniteSet(F)
    <3> HIDE DEF F
    <3>1. IsFiniteSet(F)
      BY <2>1, FS_Subset
    <3> QED BY <2>1, <3>1
  <2>3. FreeFrom(from, n) = Lowest(g.kind[n].num, F)
    BY DEF FreeFrom
  <2> HIDE DEF F
  <2> QED BY <1>2, <2>2, <2>3, FiniteLowest
<1>4. CASE IsPinned(n)
  BY <1>2, <1>4, FS_Singleton DEF RoundRobinIds, IsPinned
<1>5. CASE ~IsPinned(n)
  BY <1>3, <1>5 DEF RoundRobinIds
<1> QED BY <1>4, <1>5
-----------------------------------------------------------------------------
(***************************************************************************)
(* What one logged change does to the stack.                               *)
(***************************************************************************)
LEMMA PushMarked ==
    ASSUME NEW stack, NEW before, NEW now, History(stack, before, now),
           NEW e, e.act # "none", Marked(stack)
    PROVE  Marked(Append(stack, e)) /\ Append(before, now)[1] = before[1]
<1>1. /\ stack \in Seq(EntryType) /\ before \in Seq(GoodGraph)
      /\ Len(before) = Len(stack)
  BY DEF History
<1>2. Len(stack) \in Nat /\ Len(stack) > 0
  BY <1>1, EmptySeq, LenProperties DEF Marked
<1>3. /\ Len(Append(stack, e)) = Len(stack) + 1
      /\ \A i \in 1 .. Len(stack) : Append(stack, e)[i] = stack[i]
      /\ Append(stack, e)[Len(stack) + 1] = e
      /\ Append(stack, e) # <<>>
  BY <1>1
<1>4. Append(before, now)[1] = before[1]
  BY <1>1, <1>2
<1> QED BY <1>2, <1>3, <1>4 DEF Marked

(* A marker on top of the stack is the only entry.                          *)
LEMMA OnlyMarker ==
    ASSUME NEW stack, NEW before, NEW now, History(stack, before, now),
           Marked(stack), stack[Len(stack)].act = "none"
    PROVE  Len(stack) = 1
<1>1. stack \in Seq(EntryType) /\ stack # <<>>
  BY DEF History, Marked
<1>2. Len(stack) \in Nat /\ Len(stack) > 0
  BY <1>1, EmptySeq, LenProperties
<1>3. \A i \in 2 .. Len(stack) : stack[i].act # "none"
  BY DEF Marked
<1> DEFINE k == Len(stack)
<1>4. /\ k \in Nat /\ k > 0 /\ k = Len(stack) /\ stack[k].act = "none"
      /\ \A i \in 2 .. k : stack[i].act # "none"
  BY <1>2, <1>3
<1> HIDE DEF k
<1>5. k \in 2 .. k \/ k = 1
  BY <1>4
<1>6. k \notin 2 .. k
  BY <1>4
<1> QED BY <1>4, <1>5, <1>6

(* assignEventIds keeps the history exact, and leaves all but the ids alone. *)
LEMMA LoggedIds ==
    ASSUME History(log, trail, g), NEW n \in Live(g), NEW s \in SUBSET Nat,
           IsFiniteSet(s), AssignIds(n, s)
    PROVE  /\ History(log', trail', g')
           /\ Marked(log) => Marked(log') /\ trail'[1] = trail[1]
           /\ g'.count = g.count /\ g'.kind = g.kind /\ g'.adj = g.adj
           /\ g'.stale = g.stale /\ Structure(g') = Structure(g)
           /\ g'.ids = [g.ids EXCEPT ![n] = s]
<1> DEFINE e == [act |-> "assignIds", node |-> n, old |-> g.ids[n]]
           h == WithIds(g, n, s)
<1>1. g \in GoodGraph /\ n \in Slot /\ g.ids \in [Slot -> SUBSET Nat]
  BY GoodParts DEF History, Parts
<1>2. CASE g.ids[n] = s
  <2>1. UNCHANGED <<g, log, trail>>
    BY <1>2 DEF AssignIds, SameGraph
  <2>2. g.ids = [g.ids EXCEPT ![n] = s]
    BY <1>1, <1>2
  <2> QED BY <2>1, <2>2
<1>3. CASE g.ids[n] # s
  <2>1. g' = h /\ log' = Append(log, e) /\ trail' = Append(trail, g)
    BY <1>3 DEF AssignIds, Do
  <2>2. e \in EntryType /\ e.act # "none" /\ e.act # "addNode"
    BY <1>1 DEF EntryType
  <2>3. /\ h \in GoodGraph /\ WithIds(h, n, g.ids[n]) = g
        /\ h.ids = [g.ids EXCEPT ![n] = s]
        /\ h.count = g.count /\ h.kind = g.kind /\ h.adj = g.adj
        /\ h.stale = g.stale /\ Structure(h) = Structure(g)
    BY <1>1, IdsChange
  <2>4. Undone(e, h) = g
    BY <2>3 DEF Undone, Revert
  <2> HIDE DEF e, h
  <2>5. History(log', trail', g')
    BY <2>1, <2>2, <2>3, <2>4, PushHistory
  <2>6. Marked(log) => Marked(log') /\ trail'[1] = trail[1]
    <3>1. ASSUME Marked(log)
          PROVE  Marked(Append(log, e)) /\ Append(trail, g)[1] = trail[1]
      BY <2>2, <3>1, PushMarked
    <3> QED BY <2>1, <3>1
  <2> QED BY <2>1, <2>3, <2>5, <2>6
<1> QED BY <1>2, <1>3

(* assignNeedRecalc keeps the history exact, and leaves all but the flag alone. *)
LEMMA LoggedStale ==
    ASSUME History(log, trail, g), NEW b \in BOOLEAN, AssignNeedRecalc(b)
    PROVE  /\ History(log', trail', g')
           /\ Marked(log) => Marked(log') /\ trail'[1] = trail[1]
           /\ g'.count = g.count /\ g'.kind = g.kind /\ g'.adj = g.adj
           /\ g'.ids = g.ids /\ Structure(g') = Structure(g)
           /\ g'.stale = b
<1> DEFINE e == [act |-> "assignRecalc", old |-> g.stale]
           h == WithStale(g, b)
<1>1. g \in GoodGraph /\ g.stale \in BOOLEAN
  BY GoodParts DEF History, Parts
<1>2. CASE g.stale = b
  BY <1>2 DEF AssignNeedRecalc, SameGraph
<1>3. CASE g.stale # b
  <2>1. g' = h /\ log' = Append(log, e) /\ trail' = Append(trail, g)
    BY <1>3 DEF AssignNeedRecalc, Do
  <2>2. e \in EntryType /\ e.act # "none" /\ e.act # "addNode"
    BY <1>1 DEF EntryType
  <2>3. /\ h \in GoodGraph /\ WithStale(h, g.stale) = g
        /\ h.count = g.count /\ h.kind = g.kind /\ h.adj = g.adj
        /\ h.ids = g.ids /\ h.stale = b /\ Structure(h) = Structure(g)
    BY <1>1, StaleChange
  <2>4. Undone(e, h) = g
    BY <2>3 DEF Undone, Revert
  <2> HIDE DEF e, h
  <2>5. History(log', trail', g')
    BY <2>1, <2>2, <2>3, <2>4, PushHistory
  <2>6. Marked(log) => Marked(log') /\ trail'[1] = trail[1]
    <3>1. ASSUME Marked(log)
          PROVE  Marked(Append(log, e)) /\ Append(trail, g)[1] = trail[1]
      BY <2>2, <3>1, PushMarked
    <3> QED BY <2>1, <3>1
  <2> QED BY <2>1, <2>3, <2>5, <2>6
<1> QED BY <1>2, <1>3
-----------------------------------------------------------------------------
(***************************************************************************)
(* The invariant holds at first and is kept by every action.               *)
(***************************************************************************)
LEMMA InitInvariant == Init => IInv
<1> SUFFICES ASSUME Init
             PROVE  IInv
  OBVIOUS
<1> DEFINE kind == [n \in Slot |-> Blank]
           adj == [a \in Slot |-> [b \in Slot |-> 0]]
           sum == [n \in Slot |-> 0]
           owner == [p \in Pair |-> 0]
           ids == [n \in Slot |-> {}]
<1>1. g = Build(0, kind, adj, sum, owner, ids, FALSE)
  BY DEF Init, EmptyGraph, Build
<1>2. MaxNodes \in Nat
  BY SolverAssumption
<1>3. Parts(Build(0, kind, adj, sum, owner, ids, FALSE))
  BY <1>2 DEF Parts, Build
<1>4. GraphOK(Build(0, kind, adj, sum, owner, ids, FALSE))
  BY DEF GraphOK, Live, Build
<1>5. FiniteIds(Build(0, kind, adj, sum, owner, ids, FALSE))
  BY FS_EmptySet DEF FiniteIds, Build
<1>6. g \in GoodGraph
  <2> HIDE DEF kind, adj, sum, owner, ids
  <2> QED BY <1>1, <1>3, <1>4, <1>5, MakeGood
<1>7. History(log, trail, g)
  <2>1. log = <<>> /\ trail = <<>>
    BY DEF Init
  <2> QED BY <1>6, <2>1 DEF History, Inverts, NewestUndone
<1>8. Locals
  <2>1. /\ maxNum \in Nat /\ reserved \in SUBSET Nat /\ IsFiniteSet(reserved)
        /\ cur \in 0 .. MaxNodes /\ todo \in SUBSET Slot
    BY <1>2, SolverAssumption DEF Init
  <2>2. calc \in CalcType(calc.next)
    BY DEF Init, NoCalc, CalcType
  <2> QED BY <2>1, <2>2 DEF Locals
<1>9. Placed
  BY DEF Init, Placed, Phases, Calculating, InTransaction, NoCalc
<1> QED BY <1>7, <1>8, <1>9 DEF IInv

(* What the invariant says of the graph, the parts every action needs.      *)
LEMMA GraphFacts ==
    ASSUME IInv
    PROVE  /\ g \in GoodGraph /\ g.count \in Nat /\ MaxNodes \in Nat
           /\ g.count <= MaxNodes
           /\ Live(g) \in SUBSET Slot
           /\ Live(g) \in SUBSET (0 .. MaxNodes)
<1>1. g \in GoodGraph
  BY DEF IInv, History
<1>2. Parts(g) /\ \A n \in Live(g) : n \in Slot /\ n \in 0 .. MaxNodes
  BY <1>1, GoodParts
<1> QED BY <1>1, <1>2, SolverAssumption DEF Parts

(* calcEventIds starts with no node cleared.                                *)
Started(r, left, value) ==
    [ret |-> r, roundRobin |-> FALSE, left |-> left, value |-> value,
     order |-> <<>>, top |-> 0, next |-> 0]

(* The locals calcEventIds starts with have their types. *)
LEMMA StartedType ==
    ASSUME NEW r \in {"judge", "resize", "finish"}, NEW left \in SUBSET Slot,
           NEW value \in [Slot -> Int]
    PROVE  /\ Started(r, left, value) \in CalcType(0)
           /\ Started(r, left, value).left = left
           /\ Started(r, left, value).order = <<>>
           /\ Started(r, left, value).ret = r
           /\ Started(r, left, value).next = 0
<1>1. /\ <<>> \in Seq(Slot) /\ 0 \in Nat
      /\ r \in {"none", "judge", "resize", "finish"}
  OBVIOUS
<1> QED BY <1>1 DEF Started, CalcType

(* Entering calcEventIds establishes its local invariant. *)
LEMMA StartLocals ==
    ASSUME IInv, NEW r \in {"judge", "resize", "finish"}, StartCalc(r)
    PROVE  /\ calc' \in CalcType(calc'.next)
           /\ calc'.left = Live(g) /\ calc'.order = <<>> /\ calc'.ret = r
<1> DEFINE value == [n \in Slot |-> 0]
<1>1. Live(g) \in SUBSET Slot /\ value \in [Slot -> Int]
  BY GraphFacts
<1>2. calc' = Started(r, Live(g), value)
  BY DEF StartCalc, NoCalc, Started
<1> HIDE DEF value
<1> QED BY <1>1, <1>2, StartedType

(* Opening a transaction preserves the invariant. *)
LEMMA PushActionNoneStep == IInv /\ PushActionNone => IInv'
<1> SUFFICES ASSUME IInv, PushActionNone
             PROVE  IInv'
  OBVIOUS
<1> DEFINE e == [act |-> "none"]
<1>1. History(log', trail', g')
  <2>1. e \in EntryType /\ Undone(e, g) = g /\ e.act # "addNode"
    BY DEF EntryType, Undone
  <2>2. g' = g /\ log' = Append(log, e) /\ trail' = Append(trail, g)
    BY DEF PushActionNone, Do
  <2> HIDE DEF e
  <2> QED BY <2>1, <2>2, GraphFacts, PushHistory DEF IInv
<1>2. Marked(log')
  <2>1. log' = <<e>>
    BY DEF PushActionNone, Do, IInv, Placed
  <2> QED BY <2>1 DEF Marked
<1>3. Locals'
  BY DEF IInv, Locals, PushActionNone
<1>4. Placed'
  BY <1>2 DEF IInv, Placed, PushActionNone, Phases, InTransaction, Calculating
<1> QED BY <1>1, <1>3, <1>4 DEF IInv

(* createNode preserves the invariant, through its three logged changes. *)
LEMMA CreateNodeStep ==
    ASSUME IInv, NEW k \in Kinds, NEW p \in Pair, CreateNode(k, p)
    PROVE  IInv' /\ trail'[1] = trail[1]
<1> DEFINE n == g.count + 1
           h1 == WithNode(g, k)
           h2 == WithPair(h1, n, p)
           h3 == WithIds(h2, n, 0 .. k.num - 1)
           e1 == [act |-> "addNode", node |-> n]
           e2 == [act |-> "insertPair", node |-> n, pair |-> p]
           e3 == [act |-> "assignIds", node |-> n, old |-> {}]
<1>1. /\ pc = "open" /\ g.count < MaxNodes /\ g.owner[p] = 0
      /\ g' = h3
      /\ log' = Append(Append(Append(log, e1), e2), e3)
      /\ trail' = Append(Append(Append(trail, g), h1), h2)
      /\ cur' = n /\ pc' = "pair"
      /\ UNCHANGED <<maxNum, reserved, todo, calc>>
  BY DEF CreateNode, FreshPair
<1>2. /\ g \in GoodGraph /\ g.count \in Nat /\ MaxNodes \in Nat
      /\ History(log, trail, g) /\ Locals /\ Placed
  BY GraphFacts DEF IInv
<1>3. n \in Slot /\ n \in 0 .. MaxNodes
  BY <1>1, <1>2 DEF Slot
<1>4. /\ h1 \in GoodGraph /\ WithoutNode(h1) = g /\ h1.count = n
      /\ h1.owner = g.owner /\ h1.ids = g.ids
  BY <1>1, <1>2, NodeChange
<1>5. n \in Live(h1)
  BY <1>2, <1>4 DEF Live
<1>6. /\ h2 \in GoodGraph /\ WithPair(h2, 0, p) = h1
      /\ h2.count = n /\ h2.ids = g.ids
  <2> HIDE DEF h1, n
  <2> QED BY <1>1, <1>4, <1>5, PairChange
<1>7. g.ids[n] = {}
  <2>1. n \in Slot \ Live(g)
    BY <1>2, <1>3 DEF Live
  <2>2. GraphOK(g)
    BY <1>2 DEF GoodGraph
  <2> QED BY <2>1, <2>2 DEF GraphOK
<1>8. 0 .. k.num - 1 \in SUBSET Nat /\ IsFiniteSet(0 .. k.num - 1)
  <2>1. k.num \in Int
    BY SolverAssumption DEF Kind
  <2> DEFINE last == k.num - 1
  <2>2. last \in Int
    BY <2>1
  <2>3. 0 .. last \in SUBSET Nat
    OBVIOUS
  <2>4. IsFiniteSet(0 .. last)
    <3> HIDE DEF last
    <3> QED BY <2>2, FS_Interval
  <2> QED BY <2>3, <2>4
<1>9. h3 \in GoodGraph /\ WithIds(h3, n, {}) = h2 /\ h3.count = n
  <2> DEFINE s == 0 .. k.num - 1
  <2>1. n \in Live(h2)
    BY <1>5, <1>4, <1>6 DEF Live
  <2>2. h2.ids[n] = {}
    BY <1>6, <1>7
  <2>3. s \in SUBSET Nat /\ IsFiniteSet(s)
    BY <1>8
  <2> HIDE DEF h2, n, s
  <2>4. /\ WithIds(h2, n, s) \in GoodGraph
        /\ WithIds(WithIds(h2, n, s), n, h2.ids[n]) = h2
        /\ WithIds(h2, n, s).count = h2.count
    BY <1>6, <2>1, <2>3, IdsChange
  <2> QED BY <1>6, <2>2, <2>4 DEF s
<1>10. /\ e1 \in EntryType /\ e2 \in EntryType /\ e3 \in EntryType
       /\ e1.act # "none" /\ e2.act # "none" /\ e3.act # "none"
       /\ e2.act # "addNode" /\ e3.act # "addNode" /\ e1.node = n
  BY <1>3 DEF EntryType
<1>11. Undone(e1, h1) = g /\ Undone(e2, h2) = h1 /\ Undone(e3, h3) = h2
  BY <1>4, <1>6, <1>9 DEF Undone, Revert
<1>12. n = g.count + 1
  OBVIOUS
<1> HIDE DEF e1, e2, e3, h1, h2, h3, n
<1>13. History(Append(log, e1), Append(trail, g), h1)
  BY <1>2, <1>4, <1>10, <1>11, <1>12, PushHistory
<1>14. History(Append(Append(log, e1), e2), Append(Append(trail, g), h1), h2)
  BY <1>6, <1>10, <1>11, <1>13, PushHistory
<1>15. History(log', trail', g')
  BY <1>1, <1>9, <1>10, <1>11, <1>14, PushHistory
<1>16. Marked(log') /\ trail'[1] = trail[1]
  <2>1. Marked(log)
    BY <1>1, <1>2 DEF Placed, InTransaction
  <2>2. Marked(Append(log, e1)) /\ Append(trail, g)[1] = trail[1]
    BY <1>2, <1>10, <2>1, PushMarked
  <2>3. /\ Marked(Append(Append(log, e1), e2))
        /\ Append(Append(trail, g), h1)[1] = trail[1]
    BY <1>13, <1>10, <2>2, PushMarked
  <2> QED BY <1>1, <1>14, <1>10, <2>3, PushMarked
<1>17. Locals'
  BY <1>1, <1>2, <1>3 DEF Locals
<1>18. cur' \in Live(g')
  BY <1>1, <1>2, <1>9, <1>12 DEF Live
<1>19. Placed'
  BY <1>1, <1>16, <1>18 DEF Placed, InTransaction, Calculating, Phases
<1> QED BY <1>15, <1>16, <1>17, <1>19 DEF IInv

(* A pair put on a live node, by reuse or as an extra pair.                 *)
LEMMA PairStep ==
    ASSUME IInv, NEW n \in Live(g), NEW p \in Pair, FreshPair(p),
           Do([act |-> "insertPair", node |-> n, pair |-> p], WithPair(g, n, p)),
           pc \in {"open", "checked"}, pc' = "pair", cur' = n,
           UNCHANGED <<maxNum, reserved, todo, calc>>
    PROVE  IInv' /\ trail'[1] = trail[1]
<1> DEFINE e == [act |-> "insertPair", node |-> n, pair |-> p]
           h == WithPair(g, n, p)
<1>1. /\ g \in GoodGraph /\ History(log, trail, g) /\ Locals /\ Placed
      /\ n \in Slot /\ n \in 0 .. MaxNodes
  BY GraphFacts DEF IInv
<1>2. g' = h /\ log' = Append(log, e) /\ trail' = Append(trail, g)
  BY DEF Do
<1>3. h \in GoodGraph /\ WithPair(h, 0, p) = g /\ h.count = g.count
  BY <1>1, PairChange DEF FreshPair
<1>4. e \in EntryType /\ e.act # "none" /\ e.act # "addNode"
  BY <1>1 DEF EntryType
<1>5. Undone(e, h) = g
  BY <1>3 DEF Undone, Revert
<1>6. Marked(log)
  BY <1>1 DEF Placed, InTransaction
<1> HIDE DEF e, h
<1>7. History(log', trail', g')
  BY <1>1, <1>2, <1>3, <1>4, <1>5, PushHistory
<1>8. Marked(log') /\ trail'[1] = trail[1]
  BY <1>1, <1>2, <1>4, <1>6, PushMarked
<1>9. Locals'
  BY <1>1 DEF Locals
<1>10. Placed'
  BY <1>2, <1>3, <1>8 DEF Placed, InTransaction, Calculating, Phases, Live
<1> QED BY <1>7, <1>8, <1>9, <1>10 DEF IInv

(* addEdge preserves the invariant, with or without asking to recalculate. *)
LEMMA AddEdgeStep == IInv /\ AddEdge => IInv' /\ trail'[1] = trail[1]
<1> SUFFICES ASSUME IInv, AddEdge
             PROVE  IInv' /\ trail'[1] = trail[1]
  OBVIOUS
<1>1. /\ g \in GoodGraph /\ History(log, trail, g) /\ Locals /\ Placed
      /\ pc = "link" /\ cur \in Live(g) /\ todo \subseteq Live(g)
      /\ Live(g) \in SUBSET Slot
      /\ Marked(log)
  BY GraphFacts DEF IInv, Placed, InTransaction, Calculating, AddEdge
<1>2. PICK m \in todo :
          /\ todo' = todo \ {m}
          /\ \/ m = cur /\ SameGraph
             \/ /\ m # cur /\ ~g.stale
                /\ g' = WithStale(WithEdge(g, cur, m), TRUE)
                /\ log' = Append(Append(log,
                              [act |-> "addEdge", node |-> cur, other |-> m]),
                              [act |-> "assignRecalc", old |-> FALSE])
                /\ trail' = Append(Append(trail, g), WithEdge(g, cur, m))
             \/ /\ m # cur
                /\ Do([act |-> "addEdge", node |-> cur, other |-> m],
                      WithEdge(g, cur, m))
  BY DEF AddEdge
<1>3. UNCHANGED <<maxNum, reserved, pc, cur, calc>>
  BY DEF AddEdge
<1>4. Locals'
  BY <1>1, <1>2, <1>3 DEF Locals
<1> DEFINE h == WithEdge(g, cur, m)
           h2 == WithStale(h, TRUE)
           e == [act |-> "addEdge", node |-> cur, other |-> m]
           e2 == [act |-> "assignRecalc", old |-> FALSE]
<1>5. e \in EntryType /\ e.act # "none" /\ e.act # "addNode"
  BY <1>1 DEF EntryType
<1>6. e2 \in EntryType /\ e2.act # "none" /\ e2.act # "addNode"
  BY DEF EntryType
<1>7. ASSUME m # cur
      PROVE  /\ h \in GoodGraph /\ WithoutEdge(h, cur, m) = g
             /\ h.count = g.count /\ h.stale = g.stale
  BY <1>1, <1>7, EdgeChange
<1>8. ASSUME m # cur
      PROVE  Undone(e, h) = g
  BY <1>7, <1>8 DEF Undone, Revert
<1>9. ASSUME m # cur
      PROVE  /\ h2 \in GoodGraph /\ WithStale(h2, g.stale) = h
             /\ h2.count = g.count
  <2> HIDE DEF h
  <2> QED BY <1>7, <1>9, StaleChange
<1>10. ASSUME m # cur, ~g.stale
       PROVE  Undone(e2, h2) = h
  <2>1. g.stale \in BOOLEAN
    BY <1>1, GoodParts DEF Parts
  <2>2. g.stale = FALSE
    BY <1>10, <2>1
  <2> HIDE DEF h2, h
  <2> QED BY <1>9, <1>10, <2>2 DEF Undone, Revert
<1>11. /\ g'.count = g.count /\ History(log', trail', g') /\ Marked(log')
       /\ trail'[1] = trail[1]
  <2>1. CASE m = cur /\ SameGraph
    BY <1>1, <2>1 DEF SameGraph
  <2>2. CASE m # cur /\ g' = h /\ log' = Append(log, e) /\ trail' = Append(trail, g)
    <3> HIDE DEF h, e
    <3>1. History(log', trail', g')
      BY <1>1, <1>5, <1>7, <1>8, <2>2, PushHistory
    <3>2. Marked(log') /\ trail'[1] = trail[1]
      BY <1>1, <1>5, <2>2, PushMarked
    <3> QED BY <1>7, <2>2, <3>1, <3>2
  <2>3. CASE /\ m # cur /\ ~g.stale
             /\ g' = h2
             /\ log' = Append(Append(log, e), e2)
             /\ trail' = Append(Append(trail, g), h)
    <3> HIDE DEF h, h2, e, e2
    <3>1. History(Append(log, e), Append(trail, g), h)
      BY <1>1, <1>5, <1>7, <1>8, <2>3, PushHistory
    <3>2. History(log', trail', g')
      BY <3>1, <1>6, <1>9, <1>10, <2>3, PushHistory
    <3>3. Marked(Append(log, e)) /\ Append(trail, g)[1] = trail[1]
      BY <1>1, <1>5, PushMarked
    <3>4. Marked(log') /\ trail'[1] = trail[1]
      BY <3>1, <3>3, <1>6, <2>3, PushMarked
    <3> QED BY <1>9, <2>3, <3>2, <3>4
  <2> QED BY <1>2, <2>1, <2>2, <2>3 DEF Do
<1>12. Placed'
  BY <1>1, <1>2, <1>3, <1>11 DEF Placed, InTransaction, Calculating, Phases, Live
<1> QED BY <1>4, <1>11, <1>12 DEF IInv

(* One step of undoActions preserves the invariant. *)
LEMMA UndoStep == IInv /\ (UndoAction \/ UndoMarker) => IInv'
<1> SUFFICES ASSUME IInv, UndoAction \/ UndoMarker
             PROVE  IInv'
  OBVIOUS
<1>1. /\ History(log, trail, g) /\ Locals /\ Placed
      /\ pc = "undo" /\ Marked(log) /\ log # <<>>
      /\ log' = Pop(log) /\ trail' = Pop(trail)
      /\ UNCHANGED <<maxNum, reserved, todo, calc>>
  BY DEF IInv, Placed, InTransaction, Calculating, Marked, UndoAction, UndoMarker
<1>2. /\ History(Pop(log), Pop(trail), trail[Len(log)])
      /\ trail[Len(log)] = Undone(log[Len(log)], g)
  BY <1>1, PopHistory
<1>3. g' = Undone(Top, g)
  BY DEF Undone, UndoAction, UndoMarker
<1>4. History(log', trail', g')
  BY <1>1, <1>2, <1>3 DEF Top
<1>5. /\ log \in Seq(EntryType) /\ Len(log) \in Nat /\ Len(log) > 0
      /\ Pop(log) \in Seq(EntryType) /\ Len(Pop(log)) = Len(log) - 1
      /\ \A i \in 1 .. Len(log) - 1 : Pop(log)[i] = log[i]
  <2>1. log \in Seq(EntryType) /\ Len(log) \in Nat /\ Len(log) > 0
    BY <1>1, EmptySeq, LenProperties DEF History
  <2> DEFINE k == Len(log) - 1
  <2>2. k \in 1 - 1 .. Len(log) /\ k = Len(log) - 1
    BY <2>1
  <2> HIDE DEF k
  <2>3. /\ SubSeq(log, 1, k) \in Seq(EntryType) /\ Len(SubSeq(log, 1, k)) = k
        /\ \A i \in 1 .. k : SubSeq(log, 1, k)[i] = log[i]
    BY <2>1, <2>2, SubSeqProperties
  <2> QED BY <2>1, <2>2, <2>3 DEF Pop
<1>6. Locals'
  <2>1. cur' \in 0 .. MaxNodes
    BY <1>1, GraphFacts DEF Locals, UndoAction, UndoMarker
  <2> QED BY <1>1, <2>1 DEF Locals
<1>7. CASE UndoAction
  <2>1. Len(log) # 1
    BY <1>1, <1>7 DEF UndoAction, Top, Marked
  <2>2. Marked(log')
    BY <1>1, <1>5, <2>1 DEF Marked
  <2>3. Placed'
    BY <1>1, <1>7, <2>2 DEF Placed, UndoAction, InTransaction, Calculating, Phases
  <2> QED BY <1>4, <1>6, <2>3 DEF IInv
<1>8. CASE UndoMarker
  <2>1. Len(log) = 1
    BY <1>1, <1>8, OnlyMarker DEF UndoMarker, Top
  <2>2. log' = <<>>
    BY <1>1, <1>5, <2>1, EmptySeq
  <2>3. Placed'
    BY <1>1, <1>8, <2>2 DEF Placed, UndoMarker, InTransaction, Calculating, Phases
  <2> QED BY <1>4, <1>6, <2>3 DEF IInv
<1> QED BY <1>7, <1>8

(* The transaction's steps that leave graph and stack alone, and its end.   *)
LEMMA QuietStep ==
    IInv /\ ((\E S \in SUBSET Slot : AddConflicts(S)) \/ CheckColorable \/ Judge
             \/ ClearActionStack) => IInv'
<1> USE DEF InTransaction, Calculating, Phases
<1>1. IInv => /\ History(log, trail, g) /\ Locals /\ Placed
              /\ Live(g) \in SUBSET Slot
  BY GraphFacts DEF IInv
<1>2. ASSUME IInv, NEW S \in SUBSET Slot, AddConflicts(S)
      PROVE  IInv'
  <2>1. cur \in Live(g) /\ Marked(log)
    BY <1>1, <1>2 DEF Placed, AddConflicts
  <2>2. Locals' /\ Placed' /\ History(log', trail', g')
    BY <1>1, <1>2, <2>1 DEF Locals, Placed, AddConflicts
  <2> QED BY <2>2 DEF IInv
<1>3. ASSUME IInv, CheckColorable
      PROVE  IInv'
  <2>1. cur \in Live(g) /\ Marked(log) /\ History(log', trail', g')
    BY <1>1, <1>3 DEF Placed, CheckColorable
  <2>2. CASE StartCalc("judge")
    <3>1. /\ calc' \in CalcType(calc'.next)
          /\ calc'.left = Live(g) /\ calc'.order = <<>> /\ calc'.ret = "judge"
      BY <1>3, <2>2, StartLocals
    <3>2. Locals'
      BY <1>1, <1>3, <3>1 DEF Locals, CheckColorable
    <3>3. Placed'
      BY <1>1, <1>3, <2>1, <2>2, <3>1 DEF Placed, CheckColorable, StartCalc
    <3> QED BY <2>1, <3>2, <3>3 DEF IInv
  <2>3. CASE pc' = "judge" /\ UNCHANGED calc
    <3>1. Locals' /\ Placed'
      BY <1>1, <1>3, <2>1, <2>3 DEF Locals, Placed, CheckColorable
    <3> QED BY <2>1, <3>1 DEF IInv
  <2> QED BY <1>3, <2>2, <2>3 DEF CheckColorable
<1>4. ASSUME IInv, Judge
      PROVE  IInv'
  <2>1. Locals' /\ Placed' /\ History(log', trail', g')
    BY <1>1, <1>4 DEF Locals, Placed, Judge
  <2> QED BY <2>1 DEF IInv
<1>5. ASSUME IInv, ClearActionStack
      PROVE  IInv'
  <2>1. History(log', trail', g')
    BY <1>1, <1>5 DEF ClearActionStack, History, Inverts, NewestUndone
  <2>2. Locals' /\ Placed'
    BY <1>1, <1>5, GraphFacts DEF Locals, Placed, ClearActionStack
  <2> QED BY <2>1, <2>2 DEF IInv
<1> QED BY <1>2, <1>3, <1>4, <1>5

-----------------------------------------------------------------------------
(* Steps of calcEventIds that change no node.                               *)
LEMMA CalcQuietStep == IInv /\ (ClearDone \/ PeelNode \/ PeelDone) => IInv'
<1> SUFFICES ASSUME IInv, ClearDone \/ PeelNode \/ PeelDone
             PROVE  IInv'
  OBVIOUS
<1> USE DEF InTransaction, Calculating, Phases
<1>1. /\ g \in GoodGraph /\ History(log, trail, g) /\ Locals /\ Placed
      /\ Live(g) \in SUBSET Slot
      /\ calc \in CalcType(calc.next)
  BY GraphFacts DEF IInv, Locals
<1>2. Parts(g)
  BY <1>1, GoodParts
<1>3. CASE ClearDone
  <2> DEFINE value == [n \in Slot |-> g.sum[n] + g.kind[n].num]
  <2>1. value \in [Slot -> Int]
    <3>1. ASSUME NEW n \in Slot
          PROVE  g.kind[n].num \in Int
      <4>1. g.kind[n] \in Kinds \cup {Blank}
        BY <1>2 DEF Parts
      <4> QED BY <4>1, SolverAssumption DEF Kind, Blank
    <3> QED BY <1>2, <3>1 DEF Parts
  <2>2. calc' = [calc EXCEPT !.left = Live(g), !.value = value]
    BY <1>3 DEF ClearDone
  <2> HIDE DEF value
  <2>3. /\ calc' \in CalcType(calc'.next) /\ calc'.left = Live(g)
        /\ calc'.order = calc.order /\ calc'.ret = calc.ret
    BY <1>1, <2>1, <2>2 DEF CalcType
  <2>4. Locals' /\ Placed' /\ History(log', trail', g')
    BY <1>1, <1>3, <2>3 DEF Locals, Placed, ClearDone
  <2> QED BY <2>4 DEF IInv
<1>4. CASE PeelNode
  <2>1. PICK n \in calc.left : calc' =
            [calc EXCEPT
                !.left = @ \ {n},
                !.order = Append(@, n),
                !.value = [m \in Slot |->
                    IF m \in Adjacent(g, n) \cap calc.left
                    THEN @[m] - g.kind[n].num ELSE @[m]]]
    BY <1>4 DEF PeelNode
  <2> DEFINE value == [m \in Slot |->
                    IF m \in Adjacent(g, n) \cap calc.left
                    THEN calc.value[m] - g.kind[n].num ELSE calc.value[m]]
             order == Append(calc.order, n)
             left == calc.left \ {n}
  <2>2. pc = "peel" /\ n \in Live(g) /\ n \in Slot
    BY <1>1, <1>4, <2>1 DEF PeelNode, Placed
  <2>3. value \in [Slot -> Int]
    <3>1. g.kind[n].num \in Int
      BY <1>1, <2>2, GoodParts, SolverAssumption DEF Kind
    <3> QED BY <1>1, <3>1 DEF CalcType
  <2>4. /\ order \in Seq(Slot)
        /\ \A i \in 1 .. Len(order) : order[i] \in Live(g)
    <3>1. calc.order \in Seq(Slot)
      BY <1>1 DEF CalcType
    <3>2. \A i \in 1 .. Len(calc.order) : calc.order[i] \in Live(g)
      BY <1>1, <2>2 DEF Placed
    <3> QED BY <2>2, <3>1, <3>2
  <2>5. calc' = [calc EXCEPT !.left = left, !.order = order, !.value = value]
    BY <2>1
  <2>6. left \in SUBSET Slot /\ left \subseteq Live(g)
    BY <1>1, <2>2 DEF Placed
  <2> HIDE DEF value, order, left
  <2>7. /\ calc' \in CalcType(calc'.next) /\ calc'.left = left
        /\ calc'.order = order /\ calc'.ret = calc.ret
    BY <1>1, <2>3, <2>4, <2>5, <2>6 DEF CalcType
  <2>8. Locals' /\ Placed' /\ History(log', trail', g')
    BY <1>1, <1>4, <2>2, <2>4, <2>6, <2>7 DEF Locals, Placed, PeelNode
  <2> QED BY <2>8 DEF IInv
<1>5. CASE PeelDone
  <2>1. Locals' /\ Placed' /\ History(log', trail', g')
    BY <1>1, <1>5 DEF Locals, Placed, PeelDone
  <2> QED BY <2>1 DEF IInv
<1> QED BY <1>3, <1>4, <1>5

(* A step of calcEventIds that gives a node ids or ends the recalculation:  *)
(* it goes through the log and leaves the rest of the graph alone.          *)
LEMMA CalcLoggedStep ==
    ASSUME IInv, pc \in Calculating,
           History(log', trail', g'), Marked(log) => Marked(log'),
           g'.count = g.count,
           pc' \in {pc, "clear", calc.ret},
           \/ calc'.ret = calc.ret
           \/ pc' = calc.ret,
           calc' \in CalcType(calc'.next),
           pc' \in Calculating =>
               /\ calc'.left \subseteq Live(g)
               /\ \A i \in 1 .. Len(calc'.order) : calc'.order[i] \in Live(g),
           UNCHANGED <<maxNum, reserved, cur, todo>>
    PROVE  IInv'
<1> USE DEF InTransaction, Calculating, Phases
<1>1. Live(g') = Live(g)
  BY DEF Live
<1>2. Locals'
  BY DEF IInv, Locals
<1>3. calc.ret \in {"judge", "resize", "finish"}
  BY DEF IInv, Locals, CalcType, Placed
<1>4. Placed'
  BY <1>1, <1>3 DEF IInv, Placed
<1> QED BY <1>2, <1>4 DEF IInv

(* Clearing a node's ids preserves the invariant. *)
LEMMA ClearIdsStep == IInv /\ ClearIds => IInv'
<1> SUFFICES ASSUME IInv, ClearIds
             PROVE  IInv'
  OBVIOUS
<1>1. PICK n \in calc.left : /\ AssignIds(n, {})
                             /\ calc' = [calc EXCEPT !.left = @ \ {n}]
  BY DEF ClearIds
<1>2. pc = "clear" /\ n \in Live(g) /\ History(log, trail, g)
  BY <1>1 DEF ClearIds, IInv, Placed, Calculating
<1>3. {} \in SUBSET Nat /\ IsFiniteSet({})
  BY FS_EmptySet
<1>4. /\ History(log', trail', g') /\ g'.count = g.count
      /\ Marked(log) => Marked(log')
  BY <1>1, <1>2, <1>3, LoggedIds
<1>5. /\ calc' \in CalcType(calc'.next) /\ calc'.ret = calc.ret
      /\ calc'.left \subseteq Live(g) /\ calc'.order = calc.order
      /\ \A i \in 1 .. Len(calc.order) : calc.order[i] \in Live(g)
  BY <1>1, <1>2 DEF IInv, Locals, Placed, CalcType, Calculating
<1>6. UNCHANGED <<maxNum, reserved, pc, cur, todo>>
  BY DEF ClearIds
<1> QED BY <1>2, <1>4, <1>5, <1>6, CalcLoggedStep DEF Calculating

(* Colouring a node preserves the invariant. *)
LEMMA ColorNodeStep == IInv /\ ColorNode => IInv'
<1> SUFFICES ASSUME IInv, ColorNode
             PROVE  IInv'
  OBVIOUS
<1> DEFINE n == calc.order[Len(calc.order)]
           top == Max2(calc.top, LastChosen(n))
           order == Pop(calc.order)
<1>1. /\ pc = "color" /\ calc.order # <<>>
      /\ AssignIds(n, ChosenIds(n))
      /\ calc' = [calc EXCEPT !.order = order, !.top = top]
      /\ UNCHANGED <<maxNum, reserved, pc, cur, todo>>
  BY DEF ColorNode
<1>2. /\ g \in GoodGraph /\ History(log, trail, g)
      /\ maxNum \in Nat /\ reserved \in SUBSET Nat /\ IsFiniteSet(reserved)
      /\ calc \in CalcType(calc.next) /\ calc.top \in Nat
      /\ calc.order \in Seq(Slot) /\ Placed
  BY DEF IInv, Locals, CalcType, History
<1>3. Len(calc.order) \in Nat /\ Len(calc.order) > 0
  BY <1>1, <1>2, EmptySeq, LenProperties
<1>4. n \in Live(g) /\ calc.left \subseteq Live(g)
  BY <1>1, <1>2, <1>3 DEF Placed, Calculating
<1>5. /\ order \in Seq(Slot)
      /\ \A i \in 1 .. Len(order) : order[i] \in Live(g)
  <2>1. /\ order \in Seq(Slot) /\ Len(order) = Len(calc.order) - 1
        /\ \A i \in 1 .. Len(order) : order[i] = calc.order[i]
    BY <1>2, <1>3, SubSeqProperties DEF Pop
  <2> QED BY <1>1, <1>2, <1>3, <2>1 DEF Placed, Calculating
<1> HIDE DEF n, order
<1>6. /\ ChosenIds(n) \in SUBSET Nat /\ IsFiniteSet(ChosenIds(n))
      /\ LastChosen(n) \in Nat
  BY <1>2, <1>4, ChosenFinite
<1>7. /\ History(log', trail', g') /\ g'.count = g.count
      /\ Marked(log) => Marked(log')
  BY <1>1, <1>2, <1>4, <1>6, LoggedIds
<1>8. top \in Nat
  BY <1>2, <1>6 DEF Max2
<1> HIDE DEF top
<1>9. /\ calc' \in CalcType(calc'.next) /\ calc'.ret = calc.ret
      /\ calc'.left = calc.left /\ calc'.order = order
  BY <1>1, <1>2, <1>5, <1>8 DEF CalcType
<1> QED BY <1>1, <1>4, <1>5, <1>7, <1>9, CalcLoggedStep DEF Calculating

(* The end of the default colouring preserves the invariant. *)
LEMMA ColorDoneStep == IInv /\ ColorDone => IInv'
<1> SUFFICES ASSUME IInv, ColorDone
             PROVE  IInv'
  OBVIOUS
<1>1. /\ g \in GoodGraph /\ History(log, trail, g)
      /\ calc \in CalcType(calc.next) /\ Live(g) \in SUBSET Slot
      /\ pc = "color" /\ calc.order = <<>>
      /\ AssignNeedRecalc(FALSE)
      /\ UNCHANGED <<maxNum, reserved, cur, todo>>
  BY GraphFacts DEF IInv, Locals, History, ColorDone
<1>2. /\ History(log', trail', g') /\ g'.count = g.count
      /\ Marked(log) => Marked(log')
  BY <1>1, LoggedStale
<1>3. CASE /\ calc' = [calc EXCEPT !.roundRobin = TRUE, !.left = Live(g)]
           /\ pc' = "clear"
  <2>1. /\ calc' \in CalcType(calc'.next) /\ calc'.ret = calc.ret
        /\ calc'.left = Live(g) /\ calc'.order = <<>>
    BY <1>1, <1>3 DEF CalcType
  <2> QED BY <1>1, <1>2, <1>3, <2>1, CalcLoggedStep DEF Calculating
<1>4. CASE calc' = NoCalc /\ pc' = calc.ret
  <2>1. calc' \in CalcType(calc'.next) /\ calc'.order = <<>> /\ calc'.left = {}
    BY <1>4 DEF CalcType, NoCalc
  <2> QED BY <1>1, <1>2, <1>4, <2>1, CalcLoggedStep DEF Calculating
<1> QED BY <1>3, <1>4 DEF ColorDone

(* Giving a node its round-robin ids preserves the invariant. *)
LEMMA RobinNodeStep == IInv /\ RobinNode => IInv'
<1> SUFFICES ASSUME IInv, RobinNode
             PROVE  IInv'
  OBVIOUS
<1>1. PICK n \in calc.left :
          /\ AssignIds(n, RoundRobinIds(n))
          /\ calc' = [calc EXCEPT
                 !.left = @ \ {n},
                 !.next = IF IsPinned(n) \/ RoundRobinIds(n) = {} THEN @
                          ELSE (MaxOf(RoundRobinIds(n)) + 1) % maxNum]
  BY DEF RobinNode
<1>2. /\ pc = "robin" /\ n \in Live(g) /\ History(log, trail, g)
      /\ g \in GoodGraph /\ maxNum \in Nat
  BY <1>1 DEF RobinNode, IInv, Locals, Placed, Calculating, History
<1>3. RoundRobinIds(n) \in SUBSET Nat /\ IsFiniteSet(RoundRobinIds(n))
  BY <1>2, RoundRobinFinite
<1>4. /\ History(log', trail', g') /\ g'.count = g.count
      /\ Marked(log) => Marked(log')
  BY <1>1, <1>2, <1>3, LoggedIds
<1> DEFINE left == calc.left \ {n}
           next == IF IsPinned(n) \/ RoundRobinIds(n) = {} THEN calc.next
                   ELSE (MaxOf(RoundRobinIds(n)) + 1) % maxNum
<1>5. calc' = [calc EXCEPT !.left = left, !.next = next]
  BY <1>1
<1>6. /\ left \in SUBSET Slot /\ left \subseteq Live(g)
      /\ \A i \in 1 .. Len(calc.order) : calc.order[i] \in Live(g)
  BY <1>2 DEF IInv, Locals, Placed, CalcType, Calculating
<1> HIDE DEF left, next
<1>7. /\ calc' \in CalcType(calc'.next) /\ calc'.ret = calc.ret
      /\ calc'.left = left /\ calc'.order = calc.order
  BY <1>5, <1>6 DEF IInv, Locals, CalcType
<1>8. UNCHANGED <<maxNum, reserved, pc, cur, todo>>
  BY DEF RobinNode
<1> QED BY <1>2, <1>4, <1>6, <1>7, <1>8, CalcLoggedStep DEF Calculating

(* The end of the round-robin pass preserves the invariant. *)
LEMMA RobinDoneStep == IInv /\ RobinDone => IInv'
<1> SUFFICES ASSUME IInv, RobinDone
             PROVE  IInv'
  OBVIOUS
<1>1. /\ History(log, trail, g) /\ pc = "robin"
      /\ AssignNeedRecalc(FALSE) /\ pc' = calc.ret /\ calc' = NoCalc
      /\ UNCHANGED <<maxNum, reserved, cur, todo>>
  BY DEF IInv, RobinDone
<1>2. /\ History(log', trail', g') /\ g'.count = g.count
      /\ Marked(log) => Marked(log')
  BY <1>1, LoggedStale
<1>3. calc' \in CalcType(calc'.next) /\ calc'.order = <<>> /\ calc'.left = {}
  BY <1>1 DEF CalcType, NoCalc
<1> QED BY <1>1, <1>2, <1>3, CalcLoggedStep DEF Calculating

(* The shrink, and allocateUnusedEventId, preserve the invariant. *)
LEMMA FinishStep == IInv /\ Finish => IInv'
<1> SUFFICES ASSUME IInv, Finish
             PROVE  IInv'
  OBVIOUS
<1> USE DEF InTransaction, Calculating, Phases
<1>1. History(log, trail, g) /\ Locals /\ Placed
  BY DEF IInv
<1>2. CASE ShrinkEventIdMax
  <2>1. /\ calc' \in CalcType(calc'.next)
        /\ calc'.left = Live(g) /\ calc'.order = <<>> /\ calc'.ret = "resize"
    BY <1>2, StartLocals DEF ShrinkEventIdMax
  <2>2. Locals' /\ Placed' /\ History(log', trail', g')
    BY <1>1, <1>2, <2>1 DEF ShrinkEventIdMax, StartCalc, Locals, Placed
  <2> QED BY <2>2 DEF IInv
<1>3. CASE Resize
  <2>1. /\ calc' \in CalcType(calc'.next)
        /\ calc'.left = Live(g) /\ calc'.order = <<>> /\ calc'.ret = "finish"
    BY <1>3, StartLocals DEF Resize
  <2>2. maxNum' \in Nat
    <3>1. Live(g) \in SUBSET Slot /\ g \in GoodGraph
      BY GraphFacts
    <3>2. IsFiniteSet(UsedIds(g))
      BY <3>1, NeighboursFinite DEF UsedIds
    <3> QED BY <1>3, <3>2, FS_CardinalityType DEF Resize
  <2>3. Locals' /\ Placed' /\ History(log', trail', g')
    BY <1>1, <1>3, <2>1, <2>2 DEF Resize, StartCalc, Locals, Placed
  <2> QED BY <2>3 DEF IInv
<1>4. CASE ShrinkDone
  <2>1. History(log', trail', g')
    BY <1>1, <1>4 DEF ShrinkDone, History, Inverts, NewestUndone
  <2>2. Locals' /\ Placed'
    BY <1>1, <1>4 DEF ShrinkDone, Locals, Placed
  <2> QED BY <2>1, <2>2 DEF IInv
<1>5. CASE AllocateUnusedEventId
  <2>1. PICK e \in Allocatable : reserved' = reserved \cup {e}
    BY <1>5 DEF AllocateUnusedEventId
  <2>2. e \in Nat
    BY <2>1, SolverAssumption DEF Allocatable
  <2>3. reserved' \in SUBSET Nat /\ IsFiniteSet(reserved')
    BY <1>1, <2>1, <2>2, FS_AddElement DEF Locals
  <2>4. Locals' /\ Placed' /\ History(log', trail', g')
    BY <1>1, <1>5, <2>3 DEF AllocateUnusedEventId, Locals, Placed
  <2> QED BY <2>4 DEF IInv
<1> QED BY <1>2, <1>3, <1>4, <1>5 DEF Finish

(* A stuttering step preserves the invariant. *)
LEMMA StutterStep == IInv /\ UNCHANGED vars => IInv'
<1> SUFFICES ASSUME IInv, UNCHANGED vars
             PROVE  IInv'
  OBVIOUS
<1>1. UNCHANGED <<g, log, maxNum, reserved, pc, cur, todo, calc, trail>>
  BY DEF vars
<1>2. History(log', trail', g') /\ Locals' /\ Placed'
  BY <1>1 DEF IInv, Locals, Placed, InTransaction
<1> QED BY <1>2 DEF IInv

(* The invariant is inductive. *)
LEMMA StepInvariant == IInv /\ [Next]_vars => IInv'
<1> SUFFICES ASSUME IInv, [Next]_vars
             PROVE  IInv'
  OBVIOUS
<1>1. ASSUME NEW n \in Slot, NEW p \in Pair, ReuseNode(n, p)
      PROVE  IInv'
  <2>1. n \in Live(g) /\ pc = "open"
    BY <1>1 DEF ReuseNode
  <2> QED BY <1>1, <2>1, PairStep DEF ReuseNode
<1>2. ASSUME NEW p \in Pair, InsertExtraPair(p)
      PROVE  IInv'
  <2>1. pc = "checked" /\ cur \in Live(g)
    BY <1>2 DEF InsertExtraPair, IInv, Placed, InTransaction
  <2> QED BY <1>2, <2>1, PairStep DEF InsertExtraPair
<1>3. CASE Transaction
  BY <1>1, <1>2, <1>3, PushActionNoneStep, CreateNodeStep, AddEdgeStep,
     UndoStep, QuietStep DEF Transaction
<1>4. CASE CalcEventIds
  BY <1>4, CalcQuietStep, ClearIdsStep, ColorNodeStep, ColorDoneStep,
     RobinNodeStep, RobinDoneStep DEF CalcEventIds
<1> QED BY <1>3, <1>4, FinishStep, StutterStep DEF Next

(* The invariant holds in every reachable state. *)
LEMMA Invariance == Spec => []IInv
<1>1. IInv /\ [Next]_vars => IInv'
  BY StepInvariant
<1> QED BY InitInvariant, <1>1, PTL DEF Spec
-----------------------------------------------------------------------------
(***************************************************************************)
(* Theorems.                                                               *)
(***************************************************************************)

(* Every variable keeps its type: in particular the ids chosen, also for a  *)
(* graph that turns out not to be colourable, are always a set of numbers   *)
(* and never a missing choice.                                              *)
THEOREM TypeCorrect == Spec => []TypeOK
<1>1. IInv => TypeOK
  <2> SUFFICES ASSUME IInv
               PROVE  TypeOK
    OBVIOUS
  <2>1. g \in GraphType /\ log \in Seq(EntryType) /\ Len(trail) = Len(log)
    BY DEF IInv, History, GoodGraph
  <2>2. trail \in Seq(GraphType)
    <3>1. trail \in Seq(GoodGraph) /\ \A h \in GoodGraph : h \in GraphType
      BY DEF IInv, History, GoodGraph
    <3>2. \A i \in 1 .. Len(trail) : trail[i] \in GraphType
      BY <3>1, ElementOfSeq
    <3> QED BY <3>1, <3>2, IsASeq, LenProperties
  <2> QED BY <2>1, <2>2 DEF IInv, Locals, CalcType, Placed, TypeOK
<1> QED BY Invariance, <1>1, PTL

(* conflictPair2Node never dangles, the adjacency lists agree, and a node    *)
(* destroyed by undoActions leaves no edge, id or degree behind.             *)
THEOREM GraphWellFormed == Spec => []NoDanglingNode
<1>1. IInv => NoDanglingNode
  BY DEF IInv, History, GoodGraph, NoDanglingNode
<1> QED BY Invariance, <1>1, PTL

(* The assertions in removeNode never fail: when undoActions reaches the     *)
(* creation of a node, that node is the newest and has lost all its edges.   *)
(* What it has to be is read off the graph in the trail, which has no such   *)
(* node.                                                                     *)
THEOREM RemoveNodeIsSafe == Spec => []RemoveNodeAsserts
<1>1. IInv => RemoveNodeAsserts
  <2> SUFFICES ASSUME IInv, pc = "undo", Top.act = "addNode"
               PROVE  /\ Top.node = g.count
                      /\ Adjacent(g, g.count) = {} /\ g.sum[g.count] = 0
    BY DEF RemoveNodeAsserts
  <2> DEFINE k == Len(log)
             h == trail[k]
  <2>1. /\ History(log, trail, g) /\ log # <<>>
        /\ g \in GoodGraph /\ Parts(g)
    BY GoodParts DEF IInv, History, Placed, InTransaction, Marked
  <2>2. /\ k \in Nat /\ k > 0 /\ h \in GoodGraph
        /\ log[k].act = "addNode" /\ log[k].node = h.count + 1
        /\ h = Undone(log[k], g)
    <3>1. /\ k \in Nat /\ k > 0
      BY <2>1, EmptySeq, LenProperties DEF History
    <3>2. h \in GoodGraph
      BY <2>1, <3>1, ElementOfSeq DEF History
    <3> QED BY <2>1, <3>1, <3>2, PopHistory DEF History, NewestUndone, Top
  <2>3. h = WithoutNode(g)
    BY <2>2 DEF Undone, Revert
  <2>4. h.count = g.count - 1 /\ h.adj = g.adj /\ h.sum = g.sum
    <3>1. g = Build(g.count, g.kind, g.adj, g.sum, g.owner, g.ids, g.stale)
      BY <2>1, GoodParts
    <3> DEFINE kind == [g.kind EXCEPT ![g.count] = Blank]
               less == g.count - 1
    <3>2. h = [g EXCEPT !.count = less, !.kind = kind]
      BY <2>3 DEF WithoutNode
    <3>3. less = g.count - 1
      OBVIOUS
    <3> HIDE DEF kind, less, h
    <3> QED BY <3>1, <3>2, <3>3 DEF Build
  <2>5. GraphOK(h) /\ h.count \in Nat /\ g.count \in 0 .. MaxNodes
    BY <2>1, <2>2, GoodParts DEF Parts
  <2>6. g.count \in Slot \ Live(h) /\ Top.node = g.count
    BY <2>2, <2>4, <2>5, SolverAssumption DEF Live, Slot, Top
  <2>7. g.sum[g.count] = 0
    BY <2>4, <2>5, <2>6 DEF GraphOK
  <2>8. \A m \in Live(g) : ~(g.adj[g.count][m] > 0)
    <3> SUFFICES ASSUME NEW m \in Live(g), g.adj[g.count][m] > 0
                 PROVE  FALSE
      OBVIOUS
    <3>1. m \in Slot /\ g.count \in Slot
      BY <2>1, <2>6, GoodParts
    <3>2. g.count <= h.count
      BY <2>4, <2>5, <3>1 DEF GraphOK
    <3> QED BY <2>4, <2>5, <3>2
  <2> QED BY <2>6, <2>7, <2>8 DEF Adjacent
<1> QED BY Invariance, <1>1, PTL

(* undoActions restores exactly the graph the transaction found: nodes,      *)
(* edges and their multiplicities, degree sums, pairs, ids and the pending   *)
(* recalculation, however often ids were recomputed in between.              *)
THEOREM UndoIsExact == Spec => UndoRestores
<1>1. IInv /\ [Next]_vars => [pc = "undo" /\ pc' = "idle" => g' = trail[1]]_vars
  <2> SUFFICES ASSUME IInv, Next, pc = "undo", pc' = "idle"
               PROVE  g' = trail[1]
    OBVIOUS
  <2>1. UndoMarker
    BY DEF Next, Transaction, CalcEventIds, Finish, CreateNode, ReuseNode,
       AddConflicts, InsertExtraPair, PushActionNone, AddEdge, CheckColorable,
       Judge, ClearActionStack, UndoAction, ClearIds, ClearDone, PeelNode,
       PeelDone, ColorNode, ColorDone, RobinNode, RobinDone, ShrinkEventIdMax,
       Resize, ShrinkDone, AllocateUnusedEventId
  <2>2. History(log, trail, g) /\ Marked(log) /\ log # <<>>
    BY DEF IInv, Placed, InTransaction, Marked
  <2>3. Len(log) \in Nat /\ Len(log) > 0
    BY <2>2, EmptySeq, LenProperties DEF History
  <2>4. Len(log) = 1
    BY <2>1, <2>2, OnlyMarker DEF UndoMarker, Top
  <2>5. trail[1] = g
    BY <2>1, <2>2, <2>4, PopHistory DEF UndoMarker, Top, Undone
  <2> QED BY <2>1, <2>5 DEF UndoMarker
<1> QED BY Invariance, <1>1, PTL DEF Spec, UndoRestores

-----------------------------------------------------------------------------
(***************************************************************************)
(* What a step means to the transaction: it opens one, goes on with it,     *)
(* closes it, or is outside any.                                            *)
(***************************************************************************)
Opens ==
    /\ ~InTransaction /\ InTransaction'
    /\ pc = "idle" /\ g' = g /\ trail'[1] = g /\ maxNum' = maxNum
GoesOn ==
    /\ InTransaction /\ InTransaction'
    /\ trail'[1] = trail[1] /\ maxNum' = maxNum
Closes ==
    /\ InTransaction /\ ~InTransaction'
    /\ g' = g /\ maxNum' = maxNum
    /\ pc = "checked" \/ trail[1] = g
Outside ==
    /\ ~InTransaction /\ ~InTransaction'
    /\ Structure(g') = Structure(g)
StepKind == Opens \/ GoesOn \/ Closes \/ Outside

(* One step of calcEventIds, inside or outside a transaction.               *)
LEMMA CalcKind ==
    ASSUME IInv, pc \in Calculating,
           \/ pc' \in Calculating /\ calc'.ret = calc.ret
           \/ pc' = calc.ret,
           maxNum' = maxNum, Structure(g') = Structure(g),
           Marked(log) => trail'[1] = trail[1]
    PROVE  StepKind
<1> USE DEF InTransaction, Calculating
<1>1. calc.ret \in {"judge", "resize", "finish"}
  BY DEF IInv, Locals, CalcType, Placed
<1>2. CASE calc.ret = "judge"
  <2>1. trail'[1] = trail[1] /\ InTransaction /\ InTransaction'
    BY <1>2 DEF IInv, Placed
  <2> QED BY <2>1 DEF StepKind, GoesOn
<1>3. CASE calc.ret # "judge"
  <2>1. ~InTransaction /\ ~InTransaction'
    BY <1>1, <1>3
  <2> QED BY <2>1 DEF StepKind, Outside
<1> QED BY <1>2, <1>3

(* A step of the transaction opens it, goes on with it or closes it. *)
LEMMA TransactionKind == IInv /\ Transaction => StepKind
<1> SUFFICES ASSUME IInv, Transaction
             PROVE  StepKind
  OBVIOUS
<1> USE DEF InTransaction, Calculating
<1>1. CASE PushActionNone
  <2>1. trail = <<>>
    BY <1>1, EmptySeq DEF PushActionNone, IInv, Placed, History
  <2>2. trail'[1] = g
    BY <1>1, <2>1 DEF PushActionNone, Do
  <2> QED BY <1>1, <2>2 DEF PushActionNone, Do, StepKind, Opens
<1>2. ASSUME NEW k \in Kinds, NEW p \in Pair, CreateNode(k, p)
      PROVE  StepKind
  BY <1>2, CreateNodeStep DEF CreateNode, StepKind, GoesOn
<1>3. ASSUME NEW n \in Slot, NEW p \in Pair, ReuseNode(n, p)
      PROVE  StepKind
  <2>1. /\ n \in Live(g) /\ pc = "open" /\ pc' = "pair" /\ cur' = n
        /\ FreshPair(p) /\ UNCHANGED <<maxNum, reserved, todo, calc>>
        /\ Do([act |-> "insertPair", node |-> n, pair |-> p], WithPair(g, n, p))
    BY <1>3 DEF ReuseNode
  <2> QED BY <2>1, PairStep DEF StepKind, GoesOn
<1>4. ASSUME NEW p \in Pair, InsertExtraPair(p)
      PROVE  StepKind
  <2>1. /\ cur \in Live(g) /\ pc = "checked" /\ pc' = "pair" /\ cur' = cur
        /\ FreshPair(p) /\ UNCHANGED <<maxNum, reserved, todo, calc>>
        /\ Do([act |-> "insertPair", node |-> cur, pair |-> p],
              WithPair(g, cur, p))
    BY <1>4 DEF InsertExtraPair, IInv, Placed
  <2> QED BY <2>1, PairStep DEF StepKind, GoesOn
<1>5. ASSUME NEW S \in SUBSET Slot, AddConflicts(S)
      PROVE  StepKind
  BY <1>5 DEF AddConflicts, StepKind, GoesOn
<1>6. CASE AddEdge
  BY <1>6, AddEdgeStep DEF AddEdge, StepKind, GoesOn
<1>7. CASE CheckColorable
  <2>1. /\ InTransaction /\ UNCHANGED <<g, trail, maxNum>>
        /\ \/ pc' = "clear" /\ calc'.ret = "judge"
           \/ pc' = "judge"
    BY <1>7, StartLocals DEF CheckColorable, StartCalc
  <2> QED BY <2>1 DEF StepKind, GoesOn
<1>8. CASE Judge
  BY <1>8 DEF Judge, StepKind, GoesOn
<1>9. CASE ClearActionStack
  BY <1>9 DEF ClearActionStack, StepKind, Closes
<1>10. CASE UndoAction
  <2>1. /\ History(log, trail, g) /\ Marked(log) /\ pc = "undo" /\ pc' = "undo"
        /\ maxNum' = maxNum /\ trail' = Pop(trail) /\ log' = Pop(log)
    BY <1>10 DEF UndoAction, IInv, Placed
  <2>2. /\ trail \in Seq(GoodGraph) /\ Len(trail) \in Nat
        /\ Len(trail) = Len(log)
    BY <2>1, LenProperties DEF History
  <2>3. Len(trail) > 1
    <3>1. Len(log) # 0
      BY <2>1, <2>2, EmptySeq DEF Marked, History
    <3>2. Len(log) # 1
      BY <1>10, <2>1 DEF UndoAction, Top, Marked
    <3> QED BY <2>2, <3>1, <3>2
  <2>4. trail'[1] = trail[1]
    BY <2>1, <2>2, <2>3 DEF Pop
  <2> QED BY <2>1, <2>4 DEF StepKind, GoesOn
<1>11. CASE UndoMarker
  <2>1. /\ History(log, trail, g) /\ Marked(log) /\ log # <<>>
        /\ pc = "undo" /\ pc' = "idle" /\ maxNum' = maxNum /\ g' = g
    BY <1>11 DEF UndoMarker, IInv, Placed, Marked
  <2>2. log[Len(log)].act = "none"
    BY <1>11 DEF UndoMarker, Top
  <2>3. Len(log) = 1
    BY <2>1, <2>2, OnlyMarker
  <2>4. trail[1] = g
    BY <2>1, <2>2, <2>3, PopHistory DEF Undone
  <2> QED BY <2>1, <2>4 DEF StepKind, Closes
<1> HIDE DEF InTransaction, Calculating
<1> QED BY <1>1, <1>2, <1>3, <1>4, <1>5, <1>6, <1>7, <1>8, <1>9, <1>10, <1>11
        DEF Transaction

(* A step of calcEventIds goes on with an open transaction, or renumbers. *)
LEMMA CalcEventIdsKind == IInv /\ CalcEventIds => StepKind
<1> SUFFICES ASSUME IInv, CalcEventIds
             PROVE  StepKind
  OBVIOUS
<1> USE DEF Calculating
<1>1. CASE ClearDone \/ PeelNode \/ PeelDone
  <2>1. /\ pc \in Calculating /\ pc' \in Calculating /\ calc'.ret = calc.ret
        /\ UNCHANGED <<g, trail, maxNum>>
    BY <1>1 DEF ClearDone, PeelNode, PeelDone, IInv, Locals, CalcType
  <2> QED BY <2>1, CalcKind
<1>2. CASE ClearIds
  <2>1. PICK n \in calc.left : /\ AssignIds(n, {})
                               /\ calc' = [calc EXCEPT !.left = @ \ {n}]
    BY <1>2 DEF ClearIds
  <2>2. pc = "clear" /\ n \in Live(g) /\ History(log, trail, g)
    BY <1>2, <2>1 DEF ClearIds, IInv, Placed
  <2>3. {} \in SUBSET Nat /\ IsFiniteSet({})
    BY FS_EmptySet
  <2>4. /\ Structure(g') = Structure(g)
        /\ Marked(log) => trail'[1] = trail[1]
    BY <2>1, <2>2, <2>3, LoggedIds
  <2>5. pc' = pc /\ maxNum' = maxNum /\ calc'.ret = calc.ret
    BY <1>2, <2>1 DEF ClearIds, IInv, Locals, CalcType
  <2> QED BY <2>2, <2>4, <2>5, CalcKind
<1>3. CASE ColorNode
  <2> DEFINE n == calc.order[Len(calc.order)]
             top == Max2(calc.top, LastChosen(n))
             order == Pop(calc.order)
  <2>1. /\ pc = "color" /\ calc.order # <<>>
        /\ AssignIds(n, ChosenIds(n))
        /\ calc' = [calc EXCEPT !.order = order, !.top = top]
        /\ UNCHANGED <<maxNum, reserved, pc, cur, todo>>
    BY <1>3 DEF ColorNode
  <2>2. /\ g \in GoodGraph /\ History(log, trail, g)
        /\ maxNum \in Nat /\ reserved \in SUBSET Nat /\ IsFiniteSet(reserved)
        /\ calc \in CalcType(calc.next) /\ calc.top \in Nat
        /\ calc.order \in Seq(Slot) /\ Placed
    BY DEF IInv, Locals, CalcType, History
  <2>3. Len(calc.order) \in Nat /\ Len(calc.order) > 0
    BY <2>1, <2>2, EmptySeq, LenProperties
  <2>4. n \in Live(g)
    BY <2>1, <2>2, <2>3 DEF Placed
  <2> HIDE DEF n, top, order
  <2>5. ChosenIds(n) \in SUBSET Nat /\ IsFiniteSet(ChosenIds(n))
    BY <2>2, <2>4, ChosenFinite
  <2>6. /\ Structure(g') = Structure(g)
        /\ Marked(log) => trail'[1] = trail[1]
    BY <2>1, <2>2, <2>4, <2>5, LoggedIds
  <2>7. calc'.ret = calc.ret
    <3>1. calc' = [calc EXCEPT !.order = order, !.top = top]
      BY <2>1
    <3> QED BY <2>2, <3>1 DEF CalcType
  <2> QED BY <2>1, <2>6, <2>7, CalcKind
<1>4. CASE RobinNode
  <2>1. PICK n \in calc.left :
            /\ AssignIds(n, RoundRobinIds(n))
            /\ \E next : calc' = [calc EXCEPT !.left = @ \ {n}, !.next = next]
    BY <1>4 DEF RobinNode
  <2>2. /\ pc = "robin" /\ n \in Live(g) /\ History(log, trail, g)
        /\ g \in GoodGraph /\ maxNum \in Nat
    BY <1>4, <2>1 DEF RobinNode, IInv, Locals, Placed, History
  <2>3. RoundRobinIds(n) \in SUBSET Nat /\ IsFiniteSet(RoundRobinIds(n))
    BY <2>2, RoundRobinFinite
  <2>4. /\ Structure(g') = Structure(g)
        /\ Marked(log) => trail'[1] = trail[1]
    BY <2>1, <2>2, <2>3, LoggedIds
  <2>5. pc' = pc /\ maxNum' = maxNum /\ calc'.ret = calc.ret
    BY <1>4, <2>1 DEF RobinNode, IInv, Locals, CalcType
  <2> QED BY <2>2, <2>4, <2>5, CalcKind
<1>5. CASE ColorDone
  <2>1. /\ History(log, trail, g) /\ pc = "color" /\ maxNum' = maxNum
        /\ AssignNeedRecalc(FALSE)
    BY <1>5 DEF ColorDone, IInv
  <2>2. /\ Structure(g') = Structure(g)
        /\ Marked(log) => trail'[1] = trail[1]
    BY <2>1, LoggedStale
  <2>3. CASE pc' = calc.ret
    BY <2>1, <2>2, <2>3, CalcKind
  <2>4. CASE /\ pc' = "clear"
             /\ calc' = [calc EXCEPT !.roundRobin = TRUE, !.left = Live(g)]
    <3>1. calc'.ret = calc.ret
      <4>1. calc \in CalcType(calc.next)
        BY DEF IInv, Locals
      <4> QED BY <2>4, <4>1 DEF CalcType
    <3> QED BY <2>1, <2>2, <2>4, <3>1, CalcKind
  <2> QED BY <1>5, <2>3, <2>4 DEF ColorDone
<1>6. CASE RobinDone
  <2>1. /\ History(log, trail, g) /\ pc = "robin" /\ maxNum' = maxNum
        /\ AssignNeedRecalc(FALSE) /\ pc' = calc.ret
    BY <1>6 DEF RobinDone, IInv
  <2>2. /\ Structure(g') = Structure(g)
        /\ Marked(log) => trail'[1] = trail[1]
    BY <2>1, LoggedStale
  <2> QED BY <2>1, <2>2, CalcKind
<1> HIDE DEF Calculating
<1> QED BY <1>1, <1>2, <1>3, <1>4, <1>5, <1>6 DEF CalcEventIds

(* Every step is of one of the four kinds. *)
LEMMA EveryStepKind == IInv /\ Next => StepKind
<1> SUFFICES ASSUME IInv, Next
             PROVE  StepKind
  OBVIOUS
<1>1. CASE Finish
  <2> USE DEF InTransaction, Calculating
  <2>1. CASE ShrinkEventIdMax
    BY <2>1, StartLocals DEF ShrinkEventIdMax, StartCalc, StepKind, Outside
  <2>2. CASE Resize
    BY <2>2, StartLocals DEF Resize, StartCalc, StepKind, Outside
  <2>3. CASE ShrinkDone
    BY <2>3 DEF ShrinkDone, StepKind, Outside
  <2>4. CASE AllocateUnusedEventId
    BY <2>4 DEF AllocateUnusedEventId, StepKind, Outside
  <2> QED BY <1>1, <2>1, <2>2, <2>3, <2>4 DEF Finish
<1> QED BY <1>1, TransactionKind, CalcEventIdsKind DEF Next
-----------------------------------------------------------------------------
(***************************************************************************)
(* What is known of the graph between transactions.  It has no pending     *)
(* recalculation and fits: a commit has just checked it, an undo returns   *)
(* to a graph of which the same was true when the transaction was opened.  *)
(***************************************************************************)
Settled(h) == ~h.stale /\ IsColorable(h)

SInv ==
    /\ pc \in {"idle", "checked"} => Settled(g)
    /\ pc = "judge" => ~g.stale
    /\ InTransaction => Settled(trail[1])

(* The empty solver is settled. *)
LEMMA InitSettled == Init => SInv
<1> SUFFICES ASSUME Init
             PROVE  SInv
  OBVIOUS
<1>1. g.count = 0 /\ g.stale = FALSE /\ maxNum = HwEventIdNum /\ pc = "idle"
  BY DEF Init, EmptyGraph
<1>2. UsedIds(g) = {}
  BY <1>1 DEF UsedIds, Live
<1>3. Cardinality(UsedIds(g)) = 0
  BY <1>2, FS_EmptySet
<1> QED BY <1>1, <1>3, SolverAssumption
        DEF SInv, Settled, IsColorable, InTransaction, Calculating

(* The steps that reach the three places SInv speaks of.                    *)
LEMMA Arrivals ==
    ASSUME IInv, Next
    PROVE  /\ pc' = "checked" => Judge
           /\ pc' = "judge" => CheckColorable \/ ColorDone \/ RobinDone
           /\ pc' = "idle" => UndoMarker \/ ClearActionStack
<1>1. pc \in Calculating => calc.ret \in {"judge", "resize", "finish"}
  BY DEF IInv, Locals, CalcType, Placed
<1> QED BY <1>1
        DEF Next, Transaction, CalcEventIds, Finish, CreateNode, ReuseNode,
            AddConflicts, InsertExtraPair, PushActionNone, AddEdge,
            CheckColorable, Judge, ClearActionStack, UndoAction, UndoMarker,
            ClearIds, ClearDone, PeelNode, PeelDone, ColorNode, ColorDone,
            RobinNode, RobinDone, ShrinkEventIdMax, Resize, ShrinkDone,
            AllocateUnusedEventId, StartCalc, Calculating

(* Every step keeps the solver settled between transactions. *)
LEMMA SettledStep == IInv /\ SInv /\ [Next]_vars => SInv'
<1> SUFFICES ASSUME IInv, SInv, Next
             PROVE  SInv'
  BY DEF vars, SInv, Settled, IsColorable, InTransaction
<1>1. InTransaction' => Settled(trail[1])'
  BY EveryStepKind DEF StepKind, Opens, GoesOn, Closes, Outside, SInv, Settled,
     IsColorable
<1>2. ASSUME pc' = "checked"
      PROVE  Settled(g)'
  BY <1>2, Arrivals DEF Judge, SInv, Settled, IsColorable
<1>3. ASSUME pc' = "idle"
      PROVE  Settled(g)'
  <2>1. Closes
    <3>1. InTransaction /\ ~InTransaction'
      BY <1>3, Arrivals DEF UndoMarker, ClearActionStack, InTransaction,
         Calculating
    <3> QED BY <3>1, EveryStepKind DEF StepKind, Opens, GoesOn, Outside
  <2> QED BY <2>1 DEF Closes, SInv, Settled, IsColorable
<1>4. ASSUME pc' = "judge"
      PROVE  ~g'.stale
  <2>1. CASE CheckColorable
    BY <1>4, <2>1 DEF CheckColorable, StartCalc
  <2>2. CASE ColorDone \/ RobinDone
    <3>1. AssignNeedRecalc(FALSE) /\ History(log, trail, g)
      BY <2>2 DEF ColorDone, RobinDone, IInv
    <3> QED BY <3>1, LoggedStale
  <2> QED BY <1>4, <2>1, <2>2, Arrivals
<1> QED BY <1>1, <1>2, <1>3, <1>4 DEF SInv

(* The assertion of calcAllEventIds that the shrink succeeds never fails:    *)
(* whenever no transaction is open, needRecalculateEventIds is false, the    *)
(* action stack is empty and the ids fit.                                    *)
THEOREM ShrinkAlwaysSucceeds == Spec => []ShrinkSucceeds
<1>1. IInv /\ SInv => ShrinkSucceeds
  BY DEF IInv, SInv, Placed, Settled, ShrinkSucceeds, ShrinkEnabled
<1>2. IInv /\ SInv /\ [Next]_vars => SInv'
  BY SettledStep
<1> QED BY InitSettled, Invariance, <1>1, <1>2, PTL DEF Spec

(* The solver implements GraphTransaction: what handleSetWaitConflict keeps  *)
(* fits, what it gives up leaves no trace, and outside its transactions only *)
(* the numbering of the nodes changes.                                       *)
THEOREM SolverIsTransactional == Spec => Transactional
<1>1. Init => Graph!Init
  BY SolverAssumption DEF Init, Graph!Init, InTransaction, Calculating
<1>2. IInv /\ SInv /\ [Next]_vars => [Graph!Next]_(Graph!vars)
  <2> SUFFICES ASSUME IInv, SInv, [Next]_vars
               PROVE  Graph!Next \/ UNCHANGED Graph!vars
    OBVIOUS
  <2>1. CASE UNCHANGED vars
    BY <2>1 DEF vars, Graph!vars, InTransaction
  <2>2. CASE Opens
    BY <2>2 DEF Opens, Graph!Next, Graph!Begin
  <2>3. CASE GoesOn
    BY <2>3 DEF GoesOn, Graph!Next, Graph!Change
  <2>4. CASE Closes
    <3>1. CASE pc = "checked"
      <4>1. Weight(g) <= maxNum
        BY <3>1 DEF SInv, Settled, IsColorable, Weight
      <4> QED BY <2>4, <4>1 DEF Closes, Graph!Next, Graph!Commit
    <3>2. CASE trail[1] = g
      BY <2>4, <3>2 DEF Closes, Graph!Next, Graph!Rollback
    <3> QED BY <2>4, <3>1, <3>2 DEF Closes
  <2>5. CASE Outside
    BY <2>5 DEF Outside, Graph!Next, Graph!Renumber
  <2> QED BY <2>1, <2>2, <2>3, <2>4, <2>5, EveryStepKind DEF StepKind
<1>3. IInv /\ SInv /\ [Next]_vars => SInv'
  BY SettledStep
<1> QED BY InitSettled, Invariance, <1>1, <1>2, <1>3, PTL
        DEF Spec, Transactional, Graph!Spec
-----------------------------------------------------------------------------
(***************************************************************************)
(* Theorems about the ids calcEventIds hands out.                          *)
(*                                                                         *)
(* Pairs that are live together get different ids, for every graph without *)
(* reversed pairs.  This does not hold of reversed pairs: the ids that     *)
(* complete a reversed choice are not looked up among the neighbours'.     *)
(*                                                                         *)
(* A graph the solver accepts can be given ids the hardware has, although  *)
(* ids are recomputed only when an edge makes a node too heavy, and the    *)
(* final shrink keeps it so.  Here no id is reserved and ids are not given *)
(* in turn: with reserved ids the lazy check is not sound, and the second, *)
(* round-robin pass may use one id more.  The coloring is described by a   *)
(* function (Canon) of the graph, the maximum and the set of nodes colored *)
(* so far, and the steps of calcEventIds compute it; what is shown of the  *)
(* function by induction on the set of nodes then holds of the ids.        *)
(***************************************************************************)

ProperGraph ==
    \A n \in Live(g) : \A m \in Adjacent(g, n) :
        ~BothPinned(m, n) => g.ids[m] \cap g.ids[n] = {}
CleanGraph == \A n \in Live(g) : ~IsPinned(n) => g.ids[n] \cap reserved = {}

(* While ids are cleared the proper part is empty; from then on every id     *)
(* given keeps the coloring proper, whatever order the nodes come in.        *)
PInv ==
    /\ ReservedIds \subseteq reserved
    /\ pc = "clear" => \A n \in Live(g) \ calc.left : g.ids[n] = {}
    /\ pc = "peel" => \A n \in Live(g) : g.ids[n] = {}
    /\ pc \in {"color", "robin"} \cup Calculated => ProperGraph /\ CleanGraph

(* A node gets ids that none of its neighbours has, or the id it pins.       *)
LEMMA AssignProper ==
    ASSUME g \in GoodGraph, ReservedIds \subseteq reserved,
           ProperGraph, CleanGraph,
           NEW n \in Live(g), NEW s,
           IsPinned(n) => s = {g.kind[n].pin},
           ~IsPinned(n) => s \cap Taken(n) = {},
           g'.ids = [g.ids EXCEPT ![n] = s], g'.adj = g.adj,
           g'.kind = g.kind, g'.count = g.count, reserved' = reserved
    PROVE  ProperGraph' /\ CleanGraph'
<1>1. /\ GraphOK(g) /\ g.ids \in [Slot -> SUBSET Nat]
      /\ \A x \in Live(g) : x \in Slot
  BY GoodParts DEF Parts
<1>2. g'.ids[n] = s /\ \A x \in Slot \ {n} : g'.ids[x] = g.ids[x]
  BY <1>1
<1>3. /\ Live(g') = Live(g)
      /\ \A x : Adjacent(g', x) = Adjacent(g, x)
      /\ \A x : IsPinned(x)' <=> IsPinned(x)
      /\ \A x, y : BothPinned(x, y)' <=> BothPinned(x, y)
  BY DEF Live, Adjacent, IsPinned, BothPinned
<1>4. IsPinned(n) => s \subseteq reserved
  <2>1. g.kind[n] \in Kinds
    BY GoodParts
  <2>2. IsPinned(n) => g.kind[n].pin \in ReservedIds
    BY <2>1, SolverAssumption DEF IsPinned
  <2> QED BY <2>2
<1>5. ASSUME NEW x \in Live(g), ~IsPinned(x)
      PROVE  g'.ids[x] \cap reserved = {}
  <2>1. CASE x = n
    BY <1>2, <1>5, <2>1 DEF Taken
  <2>2. CASE x # n
    BY <1>1, <1>2, <1>5, <2>2 DEF CleanGraph
  <2> QED BY <2>1, <2>2
<1>6. ASSUME NEW m \in Adjacent(g, n), ~BothPinned(m, n)
      PROVE  g'.ids[m] \cap s = {}
  <2>1. m \in Live(g) /\ m # n
    BY <1>1 DEF Adjacent, GraphOK
  <2>2. g'.ids[m] = g.ids[m]
    BY <1>1, <1>2, <2>1
  <2>3. CASE IsPinned(n)
    <3>1. ~IsPinned(m)
      BY <1>6, <2>3 DEF BothPinned
    <3> QED BY <1>4, <2>1, <2>2, <2>3, <3>1 DEF CleanGraph
  <2>4. CASE ~IsPinned(n)
    BY <2>2, <2>4 DEF Taken
  <2> QED BY <2>3, <2>4
<1>7. ASSUME NEW x \in Live(g), NEW m \in Adjacent(g, x), ~BothPinned(m, x)
      PROVE  g'.ids[m] \cap g'.ids[x] = {}
  <2>1. m \in Live(g) /\ m \in Slot /\ x \in Slot
    BY <1>1 DEF Adjacent
  <2>2. CASE x = n
    BY <1>2, <1>6, <1>7, <2>2
  <2>3. CASE m = n
    <3>1. x \in Adjacent(g, n)
      BY <1>1, <2>1, <2>3 DEF Adjacent, GraphOK
    <3>2. ~BothPinned(x, n)
      BY <1>7, <2>3 DEF BothPinned
    <3> QED BY <1>2, <1>6, <2>3, <3>1, <3>2
  <2>4. CASE x # n /\ m # n
    BY <1>2, <1>7, <2>1, <2>4 DEF ProperGraph
  <2> QED BY <2>2, <2>3, <2>4
<1>8. CleanGraph'
  BY <1>3, <1>5 DEF CleanGraph
<1>9. ProperGraph'
  BY <1>3, <1>7 DEF ProperGraph
<1> QED BY <1>8, <1>9

(* A coloring stays proper when only needRecalculateEventIds changes.        *)
LEMMA KeepProper ==
    ASSUME ProperGraph, CleanGraph, g'.ids = g.ids, g'.adj = g.adj,
           g'.kind = g.kind, g'.count = g.count, reserved' = reserved
    PROVE  ProperGraph' /\ CleanGraph'
BY DEF ProperGraph, CleanGraph, Live, Adjacent, IsPinned, BothPinned

(* The ids chosen for a pair in program order, or from below, are free.      *)
LEMMA ChosenFree ==
    ASSUME \A k \in Kinds : ~k.rev, g \in GoodGraph, NEW n \in Live(g)
    PROVE  /\ IsPinned(n) => ChosenIds(n) = {g.kind[n].pin}
           /\ ~IsPinned(n) => ChosenIds(n) \cap Taken(n) = {}
           /\ IsPinned(n) => RoundRobinIds(n) = {g.kind[n].pin}
           /\ ~IsPinned(n) => RoundRobinIds(n) \cap Taken(n) = {}
<1>1. ~g.kind[n].rev
  BY GoodParts
<1>2. \A k, S : Lowest(k, S) \subseteq S
  BY DEF Lowest
<1>3. \A from : FreeFrom(from, n) \cap Taken(n) = {}
  BY <1>2 DEF FreeFrom
<1>4. ~IsPinned(n) => ChosenIds(n) \cap Taken(n) = {}
  BY <1>1, <1>2 DEF ChosenIds
<1> QED BY <1>3, <1>4 DEF ChosenIds, RoundRobinIds
-----------------------------------------------------------------------------
(* A calculation starts with every live node still to be cleared.            *)
LEMMA StartProper ==
    ASSUME IInv, PInv, NEW r \in {"judge", "resize", "finish"}, StartCalc(r),
           g' = g, reserved' = reserved
    PROVE  PInv'
<1>1. pc' = "clear" /\ calc'.left = Live(g)
  BY StartLocals DEF StartCalc
<1> QED BY <1>1 DEF PInv, Calculated

(* The transaction's own steps preserve properness. *)
LEMMA TransactionProper == IInv /\ PInv /\ Transaction => PInv'
<1> SUFFICES ASSUME IInv, PInv, Transaction
             PROVE  PInv'
  OBVIOUS
<1>1. CASE CheckColorable
  BY <1>1, StartProper DEF CheckColorable, PInv, Calculated
<1>2. CASE ~CheckColorable
  <2>1. /\ pc' \in {"open", "pair", "link", "checked", "undo", "idle"}
        /\ reserved' = reserved
    BY <1>2 DEF Transaction, CreateNode, ReuseNode, AddConflicts,
       InsertExtraPair, PushActionNone, AddEdge, Judge, ClearActionStack,
       UndoAction, UndoMarker
  <2> QED BY <2>1 DEF PInv, Calculated
<1> QED BY <1>1, <1>2

(* Clearing the ids preserves properness. *)
LEMMA ClearProper == IInv /\ PInv /\ (ClearIds \/ ClearDone) => PInv'
<1> SUFFICES ASSUME IInv, PInv, ClearIds \/ ClearDone
             PROVE  PInv'
  OBVIOUS
<1>1. CASE ClearIds
  <2>1. PICK n \in calc.left : /\ AssignIds(n, {})
                               /\ calc' = [calc EXCEPT !.left = @ \ {n}]
    BY <1>1 DEF ClearIds
  <2>2. /\ pc = "clear" /\ n \in Live(g) /\ History(log, trail, g)
        /\ calc.left \subseteq Live(g) /\ calc \in CalcType(calc.next)
        /\ g \in GoodGraph
    BY <1>1, <2>1 DEF ClearIds, IInv, Placed, Calculating, Locals, History
  <2>3. {} \in SUBSET Nat /\ IsFiniteSet({})
    BY FS_EmptySet
  <2>4. g'.count = g.count /\ g'.ids = [g.ids EXCEPT ![n] = {}]
    BY <2>1, <2>2, <2>3, LoggedIds
  <2>5. calc'.left = calc.left \ {n}
    BY <2>1, <2>2 DEF CalcType
  <2>6. Live(g') = Live(g)
    BY <2>4 DEF Live
  <2>7. ASSUME NEW x \in Live(g) \ (calc.left \ {n})
        PROVE  g'.ids[x] = {}
    <3>1. x \in Slot /\ g.ids \in [Slot -> SUBSET Nat]
      BY <2>2, GoodParts DEF Parts
    <3>2. CASE x = n
      BY <2>4, <3>1, <3>2
    <3>3. CASE x # n
      BY <2>2, <2>4, <3>1, <3>3 DEF PInv
    <3> QED BY <3>2, <3>3
  <2>8. pc' = "clear" /\ reserved' = reserved
    BY <1>1 DEF ClearIds
  <2> QED BY <2>5, <2>6, <2>7, <2>8 DEF PInv, Calculated
<1>2. CASE ClearDone
  <2>1. \A n \in Live(g) : g.ids[n] = {}
    BY <1>2 DEF ClearDone, PInv
  <2>2. g' = g /\ reserved' = reserved /\ pc' \in {"robin", "peel"}
    BY <1>2 DEF ClearDone
  <2>3. ProperGraph' /\ CleanGraph'
    BY <2>1, <2>2 DEF ProperGraph, CleanGraph
  <2> QED BY <2>1, <2>2, <2>3 DEF PInv, Calculated
<1> QED BY <1>1, <1>2

(* Ordering the nodes preserves properness. *)
LEMMA PeelProper == IInv /\ PInv /\ (PeelNode \/ PeelDone) => PInv'
<1> SUFFICES ASSUME IInv, PInv, PeelNode \/ PeelDone
             PROVE  PInv'
  OBVIOUS
<1>1. /\ pc = "peel" /\ pc' \in {"peel", "color"}
      /\ g' = g /\ reserved' = reserved
  BY DEF PeelNode, PeelDone
<1>2. \A n \in Live(g) : g.ids[n] = {}
  BY <1>1 DEF PInv
<1>3. ProperGraph' /\ CleanGraph'
  BY <1>1, <1>2 DEF ProperGraph, CleanGraph
<1> QED BY <1>1, <1>2, <1>3 DEF PInv, Calculated

(* Giving a node its ids, by either of the two choosers.                     *)
LEMMA GiveProper ==
    ASSUME \A k \in Kinds : ~k.rev, IInv, PInv, pc \in {"color", "robin"},
           NEW n \in Live(g), NEW s \in {ChosenIds(n), RoundRobinIds(n)},
           s \in SUBSET Nat, IsFiniteSet(s), AssignIds(n, s),
           pc' = pc, reserved' = reserved
    PROVE  PInv'
<1>1. History(log, trail, g) /\ g \in GoodGraph
  BY DEF IInv, History
<1>2. /\ g'.ids = [g.ids EXCEPT ![n] = s] /\ g'.adj = g.adj
      /\ g'.kind = g.kind /\ g'.count = g.count
  BY <1>1, LoggedIds
<1>3. /\ IsPinned(n) => s = {g.kind[n].pin}
      /\ ~IsPinned(n) => s \cap Taken(n) = {}
  BY <1>1, ChosenFree
<1>4. ReservedIds \subseteq reserved /\ ProperGraph /\ CleanGraph
  BY DEF PInv
<1>5. ProperGraph' /\ CleanGraph'
  BY <1>1, <1>2, <1>3, <1>4, AssignProper
<1> QED BY <1>4, <1>5 DEF PInv, Calculated

(* Colouring a node preserves properness: its ids avoid those its coloured
   neighbours have, and the reserved ones. *)
LEMMA ColorProper ==
    ASSUME \A k \in Kinds : ~k.rev, IInv, PInv, ColorNode \/ RobinNode
    PROVE  PInv'
<1>1. CASE ColorNode
  <2> DEFINE n == calc.order[Len(calc.order)]
  <2>1. /\ pc = "color" /\ calc.order # <<>>
        /\ AssignIds(n, ChosenIds(n))
        /\ pc' = pc /\ reserved' = reserved
    BY <1>1 DEF ColorNode
  <2>2. /\ g \in GoodGraph /\ maxNum \in Nat
        /\ reserved \in SUBSET Nat /\ IsFiniteSet(reserved)
        /\ calc.top \in Nat /\ calc.order \in Seq(Slot) /\ Placed
    BY DEF IInv, Locals, CalcType, History
  <2>3. Len(calc.order) \in Nat /\ Len(calc.order) > 0
    BY <2>1, <2>2, EmptySeq, LenProperties
  <2>4. n \in Live(g)
    BY <2>1, <2>2, <2>3 DEF Placed, Calculating
  <2> HIDE DEF n
  <2>5. ChosenIds(n) \in SUBSET Nat /\ IsFiniteSet(ChosenIds(n))
    BY <2>2, <2>4, ChosenFinite
  <2> QED BY <2>1, <2>4, <2>5, GiveProper
<1>2. CASE RobinNode
  <2>1. PICK n \in calc.left : AssignIds(n, RoundRobinIds(n))
    BY <1>2 DEF RobinNode
  <2>2. /\ pc = "robin" /\ pc' = pc /\ reserved' = reserved
        /\ n \in Live(g) /\ g \in GoodGraph /\ maxNum \in Nat
    BY <1>2, <2>1 DEF RobinNode, IInv, Locals, Placed, Calculating, History
  <2>3. RoundRobinIds(n) \in SUBSET Nat /\ IsFiniteSet(RoundRobinIds(n))
    BY <2>2, RoundRobinFinite
  <2> QED BY <2>1, <2>2, <2>3, GiveProper
<1> QED BY <1>1, <1>2

(* The end of a calculation leaves every live node properly coloured. *)
LEMMA DoneProper == IInv /\ PInv /\ (ColorDone \/ RobinDone) => PInv'
<1> SUFFICES ASSUME IInv, PInv, ColorDone \/ RobinDone
             PROVE  PInv'
  OBVIOUS
<1>1. /\ AssignNeedRecalc(FALSE) /\ History(log, trail, g)
      /\ pc \in {"color", "robin"} /\ reserved' = reserved
  BY DEF ColorDone, RobinDone, IInv
<1>2. /\ g'.ids = g.ids /\ g'.adj = g.adj /\ g'.kind = g.kind
      /\ g'.count = g.count
  BY <1>1, LoggedStale
<1>3. ProperGraph' /\ CleanGraph'
  BY <1>1, <1>2, KeepProper DEF PInv
<1>4. CASE pc' = calc.ret
  <2>1. pc' \in {"judge", "resize", "finish"}
    BY <1>1, <1>4 DEF IInv, Locals, CalcType, Placed, Calculating
  <2> QED BY <1>1, <1>3, <2>1 DEF PInv, Calculated
<1>5. CASE /\ pc' = "clear"
           /\ calc' = [calc EXCEPT !.roundRobin = TRUE, !.left = Live(g)]
  <2>1. calc \in CalcType(calc.next)
    BY DEF IInv, Locals
  <2>2. calc'.left = Live(g)
    BY <1>5, <2>1 DEF CalcType
  <2>3. Live(g') = Live(g)
    BY <1>2 DEF Live
  <2> QED BY <1>1, <1>5, <2>2, <2>3 DEF PInv, Calculated
<1> QED BY <1>4, <1>5 DEF ColorDone, RobinDone

(* The shrink preserves properness, and allocateUnusedEventId takes an id no
   node has. *)
LEMMA FinishProper == IInv /\ PInv /\ Finish => PInv'
<1> SUFFICES ASSUME IInv, PInv, Finish
             PROVE  PInv'
  OBVIOUS
<1>1. CASE ShrinkEventIdMax \/ Resize
  BY <1>1, StartProper DEF ShrinkEventIdMax, Resize
<1>2. CASE ShrinkDone
  <2>1. /\ pc = "finish" /\ pc' = "done" /\ g' = g /\ reserved' = reserved
    BY <1>2 DEF ShrinkDone
  <2>2. ProperGraph' /\ CleanGraph'
    BY <2>1, KeepProper DEF PInv, Calculated
  <2> QED BY <2>1, <2>2 DEF PInv, Calculated
<1>3. CASE AllocateUnusedEventId
  <2>1. PICK e \in Allocatable : reserved' = reserved \cup {e}
    BY <1>3 DEF AllocateUnusedEventId
  <2>2. g' = g /\ pc = "done" /\ pc' = "done"
    BY <1>3 DEF AllocateUnusedEventId
  <2>3. \A n \in Live(g) : e \notin g.ids[n]
    BY <2>1 DEF Allocatable, UsedIds
  <2>4. ProperGraph' /\ CleanGraph'
    BY <2>1, <2>2, <2>3 DEF PInv, Calculated, ProperGraph, CleanGraph,
       Live, Adjacent, IsPinned, BothPinned
  <2> QED BY <2>1, <2>2, <2>4 DEF PInv, Calculated
<1> QED BY <1>1, <1>2, <1>3 DEF Finish

(* Properness is inductive relative to IInv. *)
LEMMA ProperStep ==
    ASSUME \A k \in Kinds : ~k.rev
    PROVE  IInv /\ PInv /\ [Next]_vars => PInv'
<1> SUFFICES ASSUME IInv, PInv, [Next]_vars
             PROVE  PInv'
  OBVIOUS
<1>1. CASE CalcEventIds
  BY <1>1, ClearProper, PeelProper, ColorProper, DoneProper DEF CalcEventIds
<1>2. CASE UNCHANGED vars
  <2>1. g' = g /\ reserved' = reserved /\ pc' = pc /\ calc' = calc
    BY <1>2 DEF vars
  <2>2. ProperGraph /\ CleanGraph => ProperGraph' /\ CleanGraph'
    BY <2>1, KeepProper
  <2> QED BY <2>1, <2>2 DEF PInv
<1> QED BY <1>1, <1>2, TransactionProper, FinishProper DEF Next

(* Properness holds in every reachable state. *)
LEMMA ProperInvariance ==
    ASSUME \A k \in Kinds : ~k.rev
    PROVE  Spec => []PInv
<1>1. Init => PInv
  BY DEF Init, PInv, Calculated
<1>2. IInv /\ PInv /\ [Next]_vars => PInv'
  BY ProperStep
<1> QED BY <1>1, <1>2, Invariance, PTL DEF Spec

(* Two pairs that are live together never signal through the same id, in     *)
(* either order of coloring and whatever is reserved, pinned or shrunk.      *)
THEOREM IdsAreProper ==
    ASSUME \A k \in Kinds : ~k.rev
    PROVE  Spec => []ProperIds
<1>1. PInv => ProperIds
  BY DEF PInv, ProperIds, ProperGraph
<1> QED BY <1>1, ProperInvariance, PTL

(* An id reserved for a custom macro goes to no other pair, nor to a pair    *)
(* whose ids were chosen before an internal slot of a macro took its id.     *)
THEOREM ReservedStaysReserved ==
    ASSUME \A k \in Kinds : ~k.rev
    PROVE  Spec => []ReservedNotAssigned
<1>1. PInv => ReservedNotAssigned
  BY DEF PInv, ReservedNotAssigned, CleanGraph
<1> QED BY <1>1, ProperInvariance, PTL
-----------------------------------------------------------------------------
(***************************************************************************)
(* Finite sets: induction, least and greatest members.                     *)
(***************************************************************************)
(* What holds of a set when it holds of the set without any one of its
   members holds of every subset of a finite set. *)
LEMMA SubsetInduction ==
    ASSUME NEW S, IsFiniteSet(S), NEW P,
           \A R \in SUBSET S : (\A n \in R : R \ {n} \in P) => R \in P
    PROVE  SUBSET S \subseteq P
<1> SUFFICES ASSUME (SUBSET S) \ P # {}
             PROVE  FALSE
  OBVIOUS
<1>1. IsWellFoundedOn(StrictSubsetOrdering(S), FiniteSubsetsOf(S))
  BY FS_StrictSubsetOrderingWellFounded
<1>2. (SUBSET S) \ P \subseteq FiniteSubsetsOf(S)
  BY FS_Subset DEF FiniteSubsetsOf
<1>3. PICK U \in (SUBSET S) \ P :
          \A V \in (SUBSET S) \ P : <<V, U>> \notin StrictSubsetOrdering(S)
  BY <1>1, <1>2, WFMin
<1>4. ASSUME NEW n \in U
      PROVE  U \ {n} \in P
  <2>1. <<U \ {n}, U>> \in StrictSubsetOrdering(S)
    BY <1>3, <1>4 DEF StrictSubsetOrdering
  <2> QED BY <1>3, <2>1
<1> QED BY <1>3, <1>4

(* A set of numbers has a least member. *)
LEMMA Least ==
    ASSUME NEW S \in SUBSET Nat, S # {}
    PROVE  \E x \in S : \A y \in S : x <= y
<1>0. \A y \in S : y \in Nat
  OBVIOUS
<1>1. PICK z \in S : TRUE
  OBVIOUS
<1> DEFINE T == {y \in S : y <= z}
<1>2. T \in SUBSET Nat /\ T # {} /\ IsFiniteSet(T)
  <2>1. T \in SUBSET Nat /\ \A y \in T : y <= z
    OBVIOUS
  <2>2. z \in Nat /\ z <= z
    BY <1>0
  <2>3. z \in T
    BY <2>2
  <2> HIDE DEF T
  <2> QED BY <2>1, <2>2, <2>3, FS_BoundedSetOfNaturals
<1>3. Lowest(1, T) # {}
  <2> HIDE DEF T
  <2>1. 1 \in Nat \ {0}
    OBVIOUS
  <2> QED BY <1>2, <2>1, LowestExists
<1>4. PICK x \in T : Cardinality({y \in T : y < x}) < 1
  BY <1>3 DEF Lowest
<1>5. {y \in T : y < x} = {}
  <2> HIDE DEF T
  <2>1. IsFiniteSet({y \in T : y < x})
    BY <1>2, FS_Subset
  <2>2. Cardinality({y \in T : y < x}) = 0
    BY <1>4, <2>1, FS_CardinalityType
  <2> QED BY <2>1, <2>2, FS_EmptySet
<1>6. \A y \in S : x <= y
  BY <1>4, <1>5
<1> QED BY <1>6

(* The n smallest members of S are a lower part of it, at most n of them,   *)
(* and all of S when they are fewer; the n largest likewise.                *)
LEMMA LowestShape ==
    ASSUME NEW S \in SUBSET Nat, IsFiniteSet(S), NEW n \in Nat
    PROVE  /\ Cardinality(Lowest(n, S)) <= n
           /\ \A x \in Lowest(n, S), y \in S : y < x => y \in Lowest(n, S)
<1>0. \A y \in S : y \in Nat
  OBVIOUS
<1>1. \A x : IsFiniteSet({y \in S : y < x}) /\ Cardinality({y \in S : y < x}) \in Nat
  BY FS_Subset, FS_CardinalityType
<1>2. ASSUME NEW x \in Lowest(n, S), NEW y \in S, y < x
      PROVE  y \in Lowest(n, S)
  <2>1. x \in Nat /\ y \in Nat /\ x \in S
    BY DEF Lowest
  <2>2. \A z \in S : z < y => z < x
    BY <1>0, <1>2, <2>1
  <2>3. {z \in S : z < y} \in SUBSET {z \in S : z < x}
    BY <2>2
  <2>4. Cardinality({z \in S : z < y}) <= Cardinality({z \in S : z < x})
    BY <1>1, <2>3, FS_Subset
  <2>5. Cardinality({z \in S : z < x}) < n
    BY DEF Lowest
  <2>6. Cardinality({z \in S : z < y}) < n
    BY <1>1, <2>4, <2>5
  <2> QED BY <2>6 DEF Lowest
<1> DEFINE L == Lowest(n, S)
<1>3. L \in SUBSET Nat /\ IsFiniteSet(L)
  BY FiniteLowest
<1>5. ASSUME L # {}
      PROVE  Cardinality(L) <= n
  <2>1. \A y \in L : y \in S /\ Cardinality({z \in S : z < y}) < n
    BY DEF Lowest
  <2>2. L \subseteq S
    BY <2>1
  <2> HIDE DEF L
  <2>3. PICK m \in L : \A y \in L : y <= m
    BY <1>3, <1>5, FiniteMax
  <2> DEFINE B == {y \in S : y < m}
  <2>4. L \in SUBSET (B \cup {m})
    <3>1. \A y \in L : y = m \/ y < m
      BY <1>0, <2>3, <2>2
    <3> QED BY <2>2, <3>1
  <2>5. Cardinality(B) < n /\ IsFiniteSet(B) /\ Cardinality(B) \in Nat
    BY <1>1, <2>1, <2>3
  <2> HIDE DEF B
  <2>6. /\ IsFiniteSet(B \cup {m})
        /\ Cardinality(B \cup {m}) <= Cardinality(B) + 1
    BY <2>5, FS_AddElement
  <2>7. Cardinality(L) <= Cardinality(B \cup {m})
    BY <2>4, <2>6, FS_Subset
  <2>8. Cardinality(L) \in Nat /\ Cardinality(B \cup {m}) \in Nat
    BY <1>3, <2>6, FS_CardinalityType
  <2> QED BY <2>5, <2>6, <2>7, <2>8
<1>6. Cardinality(L) <= n
  <2> HIDE DEF L
  <2>1. L = {} => Cardinality(L) = 0
    BY FS_EmptySet
  <2> QED BY <1>5, <2>1
<1> QED BY <1>2, <1>6

(* The n largest members of S are an upper part of it, at most n of them, and
   all of S when they are fewer. *)
LEMMA HighestShape ==
    ASSUME NEW S \in SUBSET Nat, IsFiniteSet(S), NEW n \in Nat
    PROVE  /\ Cardinality(Highest(n, S)) <= n
           /\ \A x \in Highest(n, S), y \in S : y > x => y \in Highest(n, S)
           /\ Cardinality(Highest(n, S)) < n => Highest(n, S) = S
<1>0. \A y \in S : y \in Nat
  OBVIOUS
<1>1. \A x : IsFiniteSet({y \in S : y > x}) /\ Cardinality({y \in S : y > x}) \in Nat
  BY FS_Subset, FS_CardinalityType
<1>2. ASSUME NEW x \in Highest(n, S), NEW y \in S, y > x
      PROVE  y \in Highest(n, S)
  <2>1. x \in Nat /\ y \in Nat /\ x \in S
    BY DEF Highest
  <2>2. \A z \in S : z > y => z > x
    BY <1>0, <1>2, <2>1
  <2>3. {z \in S : z > y} \in SUBSET {z \in S : z > x}
    BY <2>2
  <2>4. Cardinality({z \in S : z > y}) <= Cardinality({z \in S : z > x})
    BY <1>1, <2>3, FS_Subset
  <2>5. Cardinality({z \in S : z > x}) < n
    BY DEF Highest
  <2>6. Cardinality({z \in S : z > y}) < n
    BY <1>1, <2>4, <2>5
  <2> QED BY <2>6 DEF Highest
<1> DEFINE H == Highest(n, S)
<1>7. \A y \in H : y \in S /\ Cardinality({z \in S : z > y}) < n
  BY DEF Highest
<1>3. H \in SUBSET Nat /\ IsFiniteSet(H) /\ H \subseteq S /\ Cardinality(H) \in Nat
  BY FiniteLowest, FS_CardinalityType
<1>4. Cardinality(H) <= n
  <2>1. CASE H = {}
    <3>1. Cardinality(H) = 0
      BY <2>1, FS_EmptySet
    <3> QED BY <3>1
  <2>2. CASE H # {}
    <3> HIDE DEF H
    <3>1. PICK m \in H : \A y \in H : m <= y
      BY <1>3, <2>2, Least
    <3> DEFINE B == {y \in S : y > m}
    <3>2. H \in SUBSET (B \cup {m})
      BY <1>3, <3>1
    <3>3. Cardinality(B) < n /\ IsFiniteSet(B) /\ Cardinality(B) \in Nat
      BY <1>1, <1>7, <3>1
    <3> HIDE DEF B
    <3>4. /\ IsFiniteSet(B \cup {m})
          /\ Cardinality(B \cup {m}) <= Cardinality(B) + 1
      BY <3>3, FS_AddElement
    <3>5. Cardinality(H) <= Cardinality(B \cup {m}) /\ Cardinality(B \cup {m}) \in Nat
      BY <3>2, <3>4, FS_Subset, FS_CardinalityType
    <3> QED BY <1>3, <3>3, <3>4, <3>5
  <2> QED BY <2>1, <2>2
<1>5. ASSUME Cardinality(H) < n, H # S
      PROVE  FALSE
  <2> HIDE DEF H
  <2> DEFINE R == S \ H
  <2>1. R \in SUBSET Nat /\ R # {} /\ IsFiniteSet(R)
    BY <1>3, <1>5, FS_Difference
  <2> HIDE DEF R
  <2>2. MaxOf(R) \in R /\ \A y \in R : y <= MaxOf(R)
    BY <2>1, FiniteMax
  <2>3. {y \in S : y > MaxOf(R)} \in SUBSET H
    BY <2>1, <2>2 DEF R
  <2>4. Cardinality({y \in S : y > MaxOf(R)}) <= Cardinality(H)
    BY <1>3, <2>3, FS_Subset
  <2>5. Cardinality({y \in S : y > MaxOf(R)}) < n
    BY <1>1, <1>3, <1>5, <2>4
  <2> QED BY <2>2, <2>5 DEF R, H, Highest
<1> QED BY <1>2, <1>4, <1>5
-----------------------------------------------------------------------------
(***************************************************************************)
(* getChosenEventIds as a function of what it reads: the kind of the node, *)
(* the ids taken, the top id so far and the number of ids there are.       *)
(***************************************************************************)
PinnedKind(k) == k.pin # NoPin /\ k.num = 1
FreeBelow(T, m) == (0 .. m) \ T
HighTop(top, M) == Max2(top, M - 1)
HighOf(k, T, top, M) == Highest(k.num, FreeBelow(T, HighTop(top, M)))
MissingOf(k, T, top, M) == k.num - Cardinality(HighOf(k, T, top, M))
Choice(k, T, top, M) ==
    IF PinnedKind(k) THEN {k.pin}
    ELSE IF k.rev
    THEN HighOf(k, T, top, M) \cup (top + 1 .. top + MissingOf(k, T, top, M))
    ELSE Lowest(k.num, FreeBelow(T, k.num + Cardinality(T)))
LastOf(k, T, top, M) ==
    IF ~PinnedKind(k) /\ k.rev /\ MissingOf(k, T, top, M) > 0
    THEN top + MissingOf(k, T, top, M)
    ELSE MaxOf(Choice(k, T, top, M))

(* What getChosenEventIds chooses depends on the kind of the node, the ids
   taken, the top id and the maximum only. *)
LEMMA SameChoice ==
    ASSUME NEW n
    PROVE  /\ ChosenIds(n) = Choice(g.kind[n], Taken(n), calc.top, maxNum)
           /\ LastChosen(n) = LastOf(g.kind[n], Taken(n), calc.top, maxNum)
<1>1. ChosenIds(n) = Choice(g.kind[n], Taken(n), calc.top, maxNum)
  BY DEF ChosenIds, Choice, IsPinned, PinnedKind, HighIds, HighOf, HighTop,
     Missing, MissingOf, FreeBelow
<1> QED BY <1>1
    DEF LastChosen, LastOf, IsPinned, PinnedKind, HighIds, HighOf, HighTop,
        Missing, MissingOf, FreeBelow

(* What a node asks for. *)
LEMMA KindFacts ==
    ASSUME NEW k \in Kinds
    PROVE  /\ k.num \in Nat /\ k.num > 0 /\ k.rev \in BOOLEAN
           /\ k.pin # NoPin => k.pin \in Nat /\ k.pin \in ReservedIds
BY SolverAssumption DEF Kind

(* The free ids up to m. *)
LEMMA FreeFacts ==
    ASSUME NEW T, NEW m \in Int
    PROVE  /\ FreeBelow(T, m) \in SUBSET Nat /\ IsFiniteSet(FreeBelow(T, m))
           /\ \A x : x \in FreeBelow(T, m) <=> (x \in Nat /\ x <= m /\ x \notin T)
<1>1. IsFiniteSet(0 .. m)
  BY FS_Interval
<1>2. FreeBelow(T, m) \in SUBSET (0 .. m)
  BY DEF FreeBelow
<1>3. IsFiniteSet(FreeBelow(T, m))
  BY <1>1, <1>2, FS_Subset
<1>4. \A x : x \in 0 .. m <=> (x \in Nat /\ x <= m)
  OBVIOUS
<1> QED BY <1>2, <1>3, <1>4 DEF FreeBelow

(* At least m + 1 - |T| numbers up to m are free. *)
LEMMA FreeCount ==
    ASSUME NEW T \in SUBSET Nat, IsFiniteSet(T), NEW m \in Int, m >= -1
    PROVE  /\ Cardinality(FreeBelow(T, m)) \in Nat /\ Cardinality(T) \in Nat
           /\ Cardinality(FreeBelow(T, m)) + Cardinality(T) >= m + 1
<1> DEFINE F == FreeBelow(T, m)
<1>1. IsFiniteSet(F) /\ F \in SUBSET Nat
  BY FreeFacts
<1>2. F = (0 .. m) \ T
  BY DEF FreeBelow
<1> HIDE DEF F
<1>3. (0 .. m) \in SUBSET (F \cup T)
  BY <1>2
<1>4. /\ IsFiniteSet(F \cup T)
      /\ Cardinality(F \cup T) = Cardinality(F) + Cardinality(T) - Cardinality(F \cap T)
  BY <1>1, FS_Union
<1>5. Cardinality(0 .. m) = m + 1
  <2>1. Cardinality(0 .. m) = IF 0 > m THEN 0 ELSE m - 0 + 1
    BY FS_Interval
  <2> QED BY <2>1
<1>6. Cardinality(0 .. m) <= Cardinality(F \cup T)
  BY <1>3, <1>4, FS_Subset
<1>7. /\ Cardinality(F) \in Nat /\ Cardinality(T) \in Nat
      /\ Cardinality(F \cap T) \in Nat
  BY <1>1, FS_CardinalityType, FS_Intersection
<1> QED BY <1>4, <1>5, <1>6, <1>7 DEF F

(* The lowest free ids leave no free id below them. *)
LEMMA LowChoice ==
    ASSUME NEW T \in SUBSET Nat, IsFiniteSet(T), NEW n \in Nat, n > 0,
           NEW L, L = Lowest(n, FreeBelow(T, n + Cardinality(T)))
    PROVE  /\ L \in SUBSET Nat /\ IsFiniteSet(L) /\ L # {}
           /\ Cardinality(L) <= n /\ L \cap T = {}
           /\ \A x \in L : \A y \in 0 .. x : y \in T \cup L
           /\ \A x \in L : x < n + Cardinality(T)
<1> DEFINE m == n + Cardinality(T)
           F == FreeBelow(T, m)
<1>1. Cardinality(T) \in Nat /\ m \in Int /\ m >= -1 /\ m = n + Cardinality(T)
  BY FS_CardinalityType
<1> HIDE DEF m
<1>2. /\ F \in SUBSET Nat /\ IsFiniteSet(F)
      /\ \A x : x \in F <=> (x \in Nat /\ x <= m /\ x \notin T)
      /\ Cardinality(F) \in Nat /\ Cardinality(F) + Cardinality(T) >= m + 1
  BY <1>1, FreeFacts, FreeCount
<1>3. L = Lowest(n, F)
  BY DEF m
<1> HIDE DEF F
<1>4. F # {}
  <2>1. Cardinality(F) # 0
    BY <1>1, <1>2
  <2> QED BY <2>1, FS_EmptySet
<1>5. L \subseteq F /\ IsFiniteSet(L) /\ L # {}
  BY <1>2, <1>3, <1>4, FiniteLowest, LowestExists
<1>6. Cardinality(L) <= n /\ \A x \in L, y \in F : y < x => y \in L
  BY <1>2, <1>3, LowestShape
<1>7. ASSUME NEW x \in L, NEW y \in 0 .. x
      PROVE  y \in T \cup L
  <2>1. x \in F /\ x \in Nat /\ x <= m /\ y \in Nat /\ y <= x
    BY <1>2, <1>5
  <2>2. y \in T \/ y \in F
    BY <1>1, <1>2, <2>1
  <2>3. y = x \/ y < x
    BY <2>1
  <2> QED BY <1>6, <2>2, <2>3
<1>8. ASSUME NEW x \in L
      PROVE  x < n + Cardinality(T)
  <2> DEFINE B == {y \in F : y < x}
  <2>1. x \in Nat /\ x \in F /\ x <= m
    BY <1>2, <1>5
  <2>2. Cardinality(B) < n /\ IsFiniteSet(B) /\ Cardinality(B) \in Nat
    BY <1>2, <1>3, FS_Subset, FS_CardinalityType DEF Lowest
  <2>3. (0 .. x - 1) \in SUBSET (T \cup B)
    <3>1. ASSUME NEW y \in 0 .. x - 1
          PROVE  y \in T \cup B
      <4>1. y \in Nat /\ y < x /\ y <= m
        BY <1>1, <2>1
      <4> QED BY <1>2, <4>1
    <3> QED BY <3>1
  <2> HIDE DEF B
  <2>4. /\ IsFiniteSet(T \cup B)
        /\ Cardinality(T \cup B) = Cardinality(T) + Cardinality(B) - Cardinality(T \cap B)
        /\ Cardinality(T \cap B) \in Nat
    BY <2>2, FS_Union, FS_Intersection, FS_CardinalityType
  <2>5. Cardinality(0 .. x - 1) = x
    <3>1. x - 1 \in Int /\ 0 \in Int
      BY <2>1
    <3> DEFINE z == x - 1
    <3>2. Cardinality(0 .. z) = IF 0 > z THEN 0 ELSE z - 0 + 1
      <4> HIDE DEF z
      <4>1. z \in Int
        BY <3>1 DEF z
      <4> QED BY <4>1, FS_Interval
    <3> QED BY <2>1, <3>2
  <2>6. Cardinality(0 .. x - 1) <= Cardinality(T \cup B)
    BY <2>3, <2>4, FS_Subset
  <2> QED BY <1>1, <2>1, <2>2, <2>4, <2>5, <2>6
<1>9. L \in SUBSET Nat /\ L \cap T = {}
  BY <1>2, <1>5
<1> QED BY <1>5, <1>6, <1>7, <1>8, <1>9

(* The highest free ids, and what is missing to the number asked for. *)
LEMMA HighChoice ==
    ASSUME NEW k \in Kinds, NEW T \in SUBSET Nat, IsFiniteSet(T), NEW top \in Nat,
           NEW M \in Nat
    PROVE  /\ HighTop(top, M) \in Int /\ HighTop(top, M) >= top
           /\ HighTop(top, M) >= M - 1
           /\ HighTop(top, M) = top \/ HighTop(top, M) = M - 1
           /\ HighOf(k, T, top, M) \in SUBSET Nat
           /\ IsFiniteSet(HighOf(k, T, top, M))
           /\ Cardinality(HighOf(k, T, top, M)) \in Nat
           /\ \A x \in HighOf(k, T, top, M) : x <= HighTop(top, M) /\ x \notin T
           /\ Cardinality(HighOf(k, T, top, M)) <= k.num
           /\ MissingOf(k, T, top, M) = k.num - Cardinality(HighOf(k, T, top, M))
           /\ \A x \in HighOf(k, T, top, M) : \A y \in x .. HighTop(top, M) :
                  y \in T \cup HighOf(k, T, top, M)
           /\ MissingOf(k, T, top, M) > 0 =>
                  \A y \in 0 .. HighTop(top, M) : y \in T \cup HighOf(k, T, top, M)
<1> DEFINE m == HighTop(top, M)
           H == HighOf(k, T, top, M)
<1>1. m \in Int /\ m >= top /\ m >= M - 1 /\ (m = top \/ m = M - 1)
  BY DEF Max2, HighTop
<1>2. k.num \in Nat
  BY KindFacts
<1> DEFINE F == FreeBelow(T, m)
<1>3. /\ F \in SUBSET Nat /\ IsFiniteSet(F)
      /\ \A x : x \in F <=> (x \in Nat /\ x <= m /\ x \notin T)
  BY <1>1, FreeFacts
<1>4. H = Highest(k.num, F)
  BY DEF HighOf
<1> HIDE DEF F, H, m
<1>5. H \subseteq F /\ IsFiniteSet(H)
  BY <1>2, <1>3, <1>4, FiniteLowest
<1>6. /\ Cardinality(H) <= k.num
      /\ \A x \in H, y \in F : y > x => y \in H
      /\ Cardinality(H) < k.num => H = F
  BY <1>2, <1>3, <1>4, HighestShape
<1>7. MissingOf(k, T, top, M) = k.num - Cardinality(H)
  BY DEF MissingOf, H
<1>8. ASSUME NEW x \in H, NEW y \in x .. m
      PROVE  y \in T \cup H
  <2>1. x \in F /\ x \in Nat /\ y \in Nat /\ y <= m /\ (y = x \/ y > x)
    BY <1>1, <1>3, <1>5
  <2>2. y \in T \/ y \in F
    BY <1>3, <2>1
  <2> QED BY <1>6, <2>1, <2>2
<1>9. ASSUME MissingOf(k, T, top, M) > 0, NEW y \in 0 .. m
      PROVE  y \in T \cup H
  <2>1. Cardinality(H) \in Nat
    BY <1>5, FS_CardinalityType
  <2>2. H = F
    BY <1>2, <1>6, <1>7, <1>9, <2>1
  <2>3. y \in Nat /\ y <= m
    BY <1>1
  <2> QED BY <1>3, <2>2, <2>3
<1>10. H \in SUBSET Nat /\ Cardinality(H) \in Nat /\ \A x \in H : x <= m /\ x \notin T
  BY <1>3, <1>5, FS_CardinalityType
<1> QED BY <1>1, <1>5, <1>6, <1>7, <1>8, <1>9, <1>10 DEF m, H

(* A choice is a finite set of at most as many ids as asked for, and the   *)
(* last of the chosen vector is one of them.                               *)
LEMMA ChoiceFacts ==
    ASSUME NEW k \in Kinds, NEW T \in SUBSET Nat, IsFiniteSet(T), NEW top \in Nat,
           NEW M \in Nat
    PROVE  /\ Choice(k, T, top, M) \in SUBSET Nat
           /\ IsFiniteSet(Choice(k, T, top, M))
           /\ Cardinality(Choice(k, T, top, M)) <= k.num
           /\ LastOf(k, T, top, M) \in Choice(k, T, top, M)
<1> DEFINE C == Choice(k, T, top, M)
           miss == MissingOf(k, T, top, M)
<1>1. /\ k.num \in Nat /\ k.num > 0 /\ k.rev \in BOOLEAN
      /\ k.pin # NoPin => k.pin \in Nat
  BY KindFacts
<1>2. SUFFICES /\ C \in SUBSET Nat /\ IsFiniteSet(C) /\ C # {}
               /\ Cardinality(C) <= k.num
               /\ ~PinnedKind(k) /\ k.rev /\ miss > 0 => top + miss \in C
  <2> HIDE DEF C, miss
  <2>1. C \in SUBSET Nat /\ IsFiniteSet(C) /\ C # {} => MaxOf(C) \in C
    BY FiniteMax
  <2> QED BY <2>1 DEF LastOf, C, miss
<1>3. CASE PinnedKind(k)
  <2>1. C = {k.pin} /\ k.pin \in Nat /\ k.num = 1
    BY <1>1, <1>3 DEF Choice, PinnedKind
  <2> HIDE DEF C
  <2>2. IsFiniteSet(C) /\ Cardinality(C) = 1
    BY <2>1, FS_Singleton
  <2> QED BY <1>3, <2>1, <2>2
<1>4. CASE ~PinnedKind(k) /\ ~k.rev
  <2>1. C = Lowest(k.num, FreeBelow(T, k.num + Cardinality(T)))
    BY <1>4 DEF Choice
  <2> HIDE DEF C
  <2> QED BY <1>1, <1>4, <2>1, LowChoice
<1>5. CASE ~PinnedKind(k) /\ k.rev
  <2> DEFINE H == HighOf(k, T, top, M)
             I == top + 1 .. top + miss
  <2>1. /\ H \in SUBSET Nat /\ IsFiniteSet(H) /\ Cardinality(H) \in Nat
        /\ Cardinality(H) <= k.num /\ miss = k.num - Cardinality(H)
    BY HighChoice
  <2>2. C = H \cup I
    BY <1>5 DEF Choice
  <2> HIDE DEF C, H, miss
  <2>3. /\ I \in SUBSET Nat /\ IsFiniteSet(I) /\ Cardinality(I) = miss
        /\ miss > 0 => top + miss \in I
    <3>1. miss \in Nat /\ top + 1 \in Int /\ top + miss \in Int
      BY <1>1, <2>1
    <3>2. /\ IsFiniteSet(I)
          /\ Cardinality(I) = IF top + 1 > top + miss THEN 0
                              ELSE (top + miss) - (top + 1) + 1
      BY <3>1, FS_Interval
    <3>3. I \in SUBSET Nat
      BY <3>1
    <3>4. Cardinality(I) = miss
      <4> HIDE DEF I
      <4> QED BY <3>1, <3>2
    <3> QED BY <3>1, <3>2, <3>3, <3>4
  <2> HIDE DEF I
  <2>4. /\ IsFiniteSet(C)
        /\ Cardinality(C) = Cardinality(H) + Cardinality(I) - Cardinality(H \cap I)
        /\ Cardinality(H \cap I) \in Nat
    BY <2>1, <2>2, <2>3, FS_Union, FS_Intersection, FS_CardinalityType
  <2>5. Cardinality(C) <= k.num
    BY <1>1, <2>1, <2>3, <2>4
  <2>6. C # {}
    <3>1. CASE miss > 0
      BY <2>2, <2>3, <3>1
    <3>2. CASE ~(miss > 0)
      <4>1. Cardinality(H) # 0
        BY <1>1, <2>1, <3>2
      <4> QED BY <2>2, <4>1, FS_EmptySet
    <3> QED BY <3>1, <3>2
  <2> QED BY <2>1, <2>2, <2>3, <2>4, <2>5, <2>6
<1> QED BY <1>1, <1>3, <1>4, <1>5

(* Next to few enough taken ids a choice stays below M.                    *)
LEMMA ChoiceFits ==
    ASSUME NEW k \in Kinds, NEW T \in SUBSET Nat, IsFiniteSet(T), NEW top \in Nat,
           NEW M \in Nat, ~PinnedKind(k), top < M, k.num + Cardinality(T) <= M
    PROVE  Choice(k, T, top, M) \subseteq 0 .. M - 1
<1>1. k.num \in Nat /\ k.num > 0 /\ k.rev \in BOOLEAN /\ Cardinality(T) \in Nat
  BY KindFacts, FS_CardinalityType
<1>2. CASE ~k.rev
  <2>1. Choice(k, T, top, M) = Lowest(k.num, FreeBelow(T, k.num + Cardinality(T)))
    BY <1>2 DEF Choice
  <2>2. /\ Choice(k, T, top, M) \in SUBSET Nat
        /\ \A x \in Choice(k, T, top, M) : x < k.num + Cardinality(T)
    BY <1>1, <2>1, LowChoice
  <2> QED BY <1>1, <2>2
<1>3. CASE k.rev
  <2> DEFINE H == HighOf(k, T, top, M)
             m == HighTop(top, M)
             miss == MissingOf(k, T, top, M)
  <2>1. /\ m \in Int /\ m >= top /\ m >= M - 1 /\ (m = top \/ m = M - 1)
        /\ H \in SUBSET Nat /\ IsFiniteSet(H) /\ Cardinality(H) \in Nat
        /\ \A x \in H : x <= m /\ x \notin T
        /\ Cardinality(H) <= k.num
        /\ miss = k.num - Cardinality(H)
    BY HighChoice
  <2>9. /\ \A x \in H : \A y \in x .. m : y \in T \cup H
        /\ miss > 0 => \A y \in 0 .. m : y \in T \cup H
    <3>1. \A x \in H : \A y \in x .. m : y \in T \cup H
      BY HighChoice, Zenon
    <3>2. miss > 0 => \A y \in 0 .. m : y \in T \cup H
      BY HighChoice, Zenon
    <3> QED BY <3>1, <3>2
  <2>2. Choice(k, T, top, M) = H \cup (top + 1 .. top + miss)
    BY <1>3 DEF Choice
  <2> HIDE DEF H, m, miss
  <2>3. m = M - 1
    BY <2>9, <2>1
  <2>4. ~(miss > 0)
    <3> SUFFICES ASSUME miss > 0
                 PROVE  FALSE
      OBVIOUS
    <3>1. (0 .. M - 1) \in SUBSET (T \cup H)
      BY <2>9, <2>1, <2>3
    <3>2. /\ IsFiniteSet(T \cup H) /\ Cardinality(T \cap H) \in Nat
          /\ Cardinality(T \cup H) = Cardinality(T) + Cardinality(H) - Cardinality(T \cap H)
      BY <2>9, <2>1, FS_Union, FS_Intersection, FS_CardinalityType
    <3>3. Cardinality(0 .. M - 1) = M
      <4>1. m \in Int /\ 0 \in Int
        BY <2>9, <2>1
      <4>2. Cardinality(0 .. m) = IF 0 > m THEN 0 ELSE m - 0 + 1
        BY <4>1, FS_Interval
      <4> QED BY <2>3, <4>2
    <3>4. Cardinality(0 .. M - 1) <= Cardinality(T \cup H)
      BY <3>1, <3>2, FS_Subset
    <3> QED BY <1>1, <2>9, <2>1, <3>2, <3>3, <3>4
  <2>5. miss \in Int
    BY <1>1, <2>9, <2>1
  <2>6. (top + 1 .. top + miss) = {}
    BY <2>4, <2>5
  <2>7. \A x \in H : x \in 0 .. M - 1
    BY <2>9, <2>1, <2>3
  <2> QED BY <2>2, <2>6, <2>7
<1> QED BY <1>1, <1>2, <1>3

(* An id from M on is chosen only where all ids below it are in use.        *)
LEMMA ChoiceNoGap ==
    ASSUME NEW k \in Kinds, NEW T \in SUBSET Nat, IsFiniteSet(T), NEW top \in Nat,
           NEW M \in Nat, M > 0, ~PinnedKind(k),
           NEW U \in SUBSET Nat, T \subseteq U, top \in U \cup {0},
           \A x \in U : x >= M => 0 .. x \subseteq U,
           NEW C, C = Choice(k, T, top, M),
           NEW x \in C, x >= M
    PROVE  0 .. x \subseteq U \cup C
<1>1. k.num \in Nat /\ k.num > 0 /\ k.rev \in BOOLEAN /\ C \in SUBSET Nat
  BY KindFacts, ChoiceFacts
<1> SUFFICES ASSUME NEW y \in 0 .. x
             PROVE  y \in U \cup C
  OBVIOUS
<1>2. CASE ~k.rev
  <2>1. C = Lowest(k.num, FreeBelow(T, k.num + Cardinality(T)))
    BY <1>2 DEF Choice
  <2>2. y \in T \cup C
    BY <1>1, <2>1, LowChoice
  <2> QED BY <2>2
<1>3. CASE k.rev
  <2> DEFINE H == HighOf(k, T, top, M)
             m == HighTop(top, M)
             miss == MissingOf(k, T, top, M)
  <2>1. /\ m \in Int /\ m >= top /\ m >= M - 1 /\ (m = top \/ m = M - 1)
        /\ H \in SUBSET Nat /\ IsFiniteSet(H) /\ Cardinality(H) \in Nat
        /\ Cardinality(H) <= k.num
        /\ miss = k.num - Cardinality(H)
    BY HighChoice
  <2>10. \A z \in H : z <= m /\ z \notin T
    BY HighChoice, Zenon
  <2>9. /\ \A z \in H : \A w \in z .. m : w \in T \cup H
        /\ miss > 0 => \A w \in 0 .. m : w \in T \cup H
    <3>1. \A z \in H : \A w \in z .. m : w \in T \cup H
      BY HighChoice, Zenon
    <3>2. miss > 0 => \A w \in 0 .. m : w \in T \cup H
      BY HighChoice, Zenon
    <3> QED BY <3>1, <3>2
  <2>2. C = H \cup (top + 1 .. top + miss)
    BY <1>3 DEF Choice
  <2> HIDE DEF H, m, miss
  <2>3. x \in Nat /\ y \in Nat /\ y <= x /\ miss \in Int
    BY <1>1, <2>9, <2>1
  <2>4. CASE x \in H
    <3>1. top >= M /\ x <= top
      BY <2>9, <2>10, <2>1, <2>3, <2>4
    <3>2. 0 .. top \subseteq U
      BY <3>1
    <3>3. y \in 0 .. top
      BY <2>3, <3>1
    <3> QED BY <3>2, <3>3
  <2>5. CASE x \in top + 1 .. top + miss
    <3>1. CASE y <= m
      <4>1. miss > 0 /\ y \in 0 .. m
        BY <2>9, <2>10, <2>1, <2>3, <2>5, <3>1
      <4> QED BY <2>9, <2>1, <2>2, <4>1
    <3>2. CASE y > m
      <4>1. y \in top + 1 .. top + miss
        BY <2>9, <2>10, <2>1, <2>3, <2>5, <3>2
      <4> QED BY <2>2, <4>1
    <3> QED BY <2>9, <2>10, <2>1, <2>3, <3>1, <3>2
  <2> QED BY <2>2, <2>4, <2>5
<1> QED BY <1>1, <1>2, <1>3
-----------------------------------------------------------------------------
(***************************************************************************)
(* The weight of a set of nodes: the ids they ask for together.            *)
(***************************************************************************)
Shape(h) == [count |-> h.count, kind |-> h.kind, adj |-> h.adj]

IsShape(q) ==
    /\ Live(q) \in SUBSET Slot /\ IsFiniteSet(Live(q))
    /\ \A n \in Live(q) : q.kind[n] \in Kinds
    /\ \A a, b \in Live(q) : a \in Adjacent(q, b) <=> b \in Adjacent(q, a)
    /\ \A n \in Live(q) : n \notin Adjacent(q, n)

Unit(q, m)  == {m} \X (1 .. q.kind[m].num)
Units(q, S) == UNION {Unit(q, m) : m \in S}
W(q, S)     == Cardinality(Units(q, S))

(* One node weighs what it asks for. *)
LEMMA UnitFacts ==
    ASSUME NEW q, IsShape(q), NEW m \in Live(q)
    PROVE  IsFiniteSet(Unit(q, m)) /\ Cardinality(Unit(q, m)) = q.kind[m].num
<1> DEFINE N == q.kind[m].num
           I == 1 .. N
<1>1. q.kind[m] \in Kinds
  BY DEF IsShape
<1>2. N \in Nat
  BY <1>1, KindFacts
<1>3. IsFiniteSet(I) /\ Cardinality(I) = N
  <2>1. IsFiniteSet(1 .. N) /\ Cardinality(1 .. N) = IF 1 > N THEN 0 ELSE N - 1 + 1
    <3> HIDE DEF N
    <3> QED BY <1>2, FS_Interval
  <2> QED BY <1>2, <2>1
<1>4. IsFiniteSet({m}) /\ Cardinality({m}) = 1
  BY FS_Singleton
<1>5. Unit(q, m) = {m} \X I
  BY DEF Unit
<1> HIDE DEF I
<1>6. IsFiniteSet({m} \X I) /\ Cardinality({m} \X I) = Cardinality({m}) * Cardinality(I)
  BY <1>3, <1>4, FS_Product
<1>7. Cardinality({m} \X I) = 1 * N
  BY <1>3, <1>4, <1>6
<1> HIDE DEF N
<1>8. 1 * N = N
  BY <1>2
<1> QED BY <1>5, <1>6, <1>7, <1>8 DEF N

(* A node adds what it asks for to the weight of the others. *)
LEMMA UnitsStep ==
    ASSUME NEW q, IsShape(q), NEW S \in SUBSET Live(q), NEW n \in S,
           IsFiniteSet(Units(q, S \ {n}))
    PROVE  /\ IsFiniteSet(Units(q, S))
           /\ W(q, S) = W(q, S \ {n}) + q.kind[n].num
<1> DEFINE A == Units(q, S \ {n})
           B == Unit(q, n)
<1>1. Units(q, S) = A \cup B
  BY DEF Units
<1>2. A \cap B = {}
  BY DEF Units, Unit
<1>3. IsFiniteSet(B) /\ Cardinality(B) = q.kind[n].num
  BY UnitFacts
<1>4. IsFiniteSet(A)
  OBVIOUS
<1>5. W(q, S) = Cardinality(A \cup B) /\ W(q, S \ {n}) = Cardinality(A)
  BY <1>1 DEF W
<1>6. q.kind[n].num \in Nat
  <2>1. q.kind[n] \in Kinds
    BY DEF IsShape
  <2> QED BY <2>1, KindFacts
<1> HIDE DEF A, B
<1>7. /\ IsFiniteSet(A \cup B)
      /\ Cardinality(A \cup B) = Cardinality(A) + Cardinality(B) - Cardinality(A \cap B)
  BY <1>3, <1>4, FS_Union
<1>8. Cardinality(A \cap B) = 0 /\ Cardinality(A) \in Nat
  BY <1>2, <1>4, FS_EmptySet, FS_CardinalityType
<1> QED BY <1>1, <1>3, <1>5, <1>6, <1>7, <1>8

(* Weights are numbers, and those of larger sets are not smaller. *)
LEMMA UnitsFinite ==
    ASSUME NEW q, IsShape(q), NEW S \in SUBSET Live(q)
    PROVE  IsFiniteSet(Units(q, S)) /\ W(q, S) \in Nat
<1> DEFINE L == Live(q)
           P == {R \in SUBSET L : IsFiniteSet(Units(q, R))}
<1>1. IsFiniteSet(L)
  BY DEF IsShape
<1>2. ASSUME NEW R \in SUBSET L, \A n \in R : R \ {n} \in P
      PROVE  R \in P
  <2>1. CASE R = {}
    <3>1. Units(q, R) = {}
      BY <2>1 DEF Units
    <3> QED BY <3>1, FS_EmptySet
  <2>2. CASE R # {}
    <3>1. PICK n \in R : TRUE
      BY <2>2
    <3> QED BY <1>2, <3>1, UnitsStep
  <2> QED BY <2>1, <2>2
<1>3. SUBSET L \subseteq P
  <2> HIDE DEF P, L
  <2> QED BY <1>1, <1>2, SubsetInduction
<1>4. IsFiniteSet(Units(q, S))
  BY <1>3
<1> QED BY <1>4, FS_CardinalityType DEF W

(* One node more weighs what it asks for. *)
LEMMA WeightStep ==
    ASSUME NEW q, IsShape(q), NEW S \in SUBSET Live(q), NEW n \in S
    PROVE  W(q, S) = W(q, S \ {n}) + q.kind[n].num
<1>1. S \ {n} \in SUBSET Live(q)
  OBVIOUS
<1> QED BY <1>1, UnitsFinite, UnitsStep

(* More nodes weigh no less. *)
LEMMA WeightMono ==
    ASSUME NEW q, IsShape(q), NEW S \in SUBSET Live(q), NEW R \in SUBSET S
    PROVE  W(q, R) <= W(q, S)
<1>1. Units(q, R) \in SUBSET Units(q, S)
  BY DEF Units
<1> QED BY <1>1, UnitsFinite, FS_Subset DEF W

(* No nodes weigh nothing. *)
LEMMA WeightEmpty ==
    ASSUME NEW q
    PROVE  W(q, {}) = 0
<1>1. Units(q, {}) = {}
  BY DEF Units
<1> QED BY <1>1, FS_EmptySet DEF W

(* Nodes that got no more ids than they asked for have at most their weight
   of ids together. *)
LEMMA UnionWeight ==
    ASSUME NEW q, IsShape(q), NEW ids, NEW S \in SUBSET Live(q),
           \A m \in S : /\ ids[m] \in SUBSET Nat /\ IsFiniteSet(ids[m])
                        /\ Cardinality(ids[m]) <= q.kind[m].num
    PROVE  /\ UNION {ids[m] : m \in S} \in SUBSET Nat
           /\ IsFiniteSet(UNION {ids[m] : m \in S})
           /\ Cardinality(UNION {ids[m] : m \in S}) <= W(q, S)
<1> DEFINE All(R) == UNION {ids[m] : m \in R}
           Bound(R) == IsFiniteSet(All(R)) /\ Cardinality(All(R)) <= W(q, R)
           P == {R \in SUBSET S : Bound(R)}
<1>1. IsFiniteSet(S)
  BY FS_Subset DEF IsShape
<1>2. ASSUME NEW R \in SUBSET S, \A n \in R : R \ {n} \in P
      PROVE  R \in P
  <2>1. CASE R = {}
    <3>1. All(R) = {} /\ W(q, R) = 0
      BY <2>1, WeightEmpty
    <3> QED BY <3>1, FS_EmptySet
  <2>2. CASE R # {}
    <3>1. PICK n \in R : TRUE
      BY <2>2
    <3> DEFINE A == All(R \ {n})
               B == ids[n]
    <3>2. All(R) = A \cup B
      OBVIOUS
    <3>3. IsFiniteSet(A) /\ Cardinality(A) <= W(q, R \ {n})
      BY <1>2, <3>1
    <3>4. IsFiniteSet(B) /\ Cardinality(B) <= q.kind[n].num
      OBVIOUS
    <3>5. W(q, R) = W(q, R \ {n}) + q.kind[n].num /\ W(q, R \ {n}) \in Nat
      BY WeightStep, UnitsFinite
    <3>6. q.kind[n].num \in Nat
      <4>1. q.kind[n] \in Kinds
        BY DEF IsShape
      <4> QED BY <4>1, KindFacts
    <3> HIDE DEF A, B, All
    <3>7. /\ IsFiniteSet(A \cup B) /\ Cardinality(A \cap B) \in Nat
          /\ Cardinality(A) \in Nat /\ Cardinality(B) \in Nat
          /\ Cardinality(A \cup B) = Cardinality(A) + Cardinality(B) - Cardinality(A \cap B)
      BY <3>3, <3>4, FS_Union, FS_Intersection, FS_CardinalityType
    <3>8. Cardinality(A \cup B) <= W(q, R)
      BY <3>3, <3>4, <3>5, <3>6, <3>7
    <3> QED BY <3>2, <3>7, <3>8
  <2> QED BY <2>1, <2>2
<1>3. SUBSET S \subseteq P
  <2> HIDE DEF P
  <2> QED BY <1>1, <1>2, SubsetInduction
<1>4. Bound(S)
  BY <1>3
<1>5. All(S) \in SUBSET Nat
  OBVIOUS
<1> QED BY <1>4, <1>5
-----------------------------------------------------------------------------
(***************************************************************************)
(* The lightest of the nodes still to be ordered.                          *)
(***************************************************************************)
Val(q, n, R) == q.kind[n].num + W(q, Adjacent(q, n) \cap R)
Ahead(q, R, m, n) ==
    \/ Val(q, m, R) < Val(q, n, R)
    \/ /\ Val(q, m, R) = Val(q, n, R)
       /\ \/ ~q.kind[m].rev /\ q.kind[n].rev
          \/ q.kind[m].rev = q.kind[n].rev /\ m < n
IsLightest(q, R, n) == n \in R /\ \A m \in R \ {n} : Ahead(q, R, n, m)
Lightest(q, R) == CHOOSE n \in R : IsLightest(q, R, n)

(* The value of a node is a number. *)
LEMMA ValFacts ==
    ASSUME NEW q, IsShape(q), NEW R, NEW n \in Live(q)
    PROVE  /\ Val(q, n, R) \in Nat /\ n \in Nat /\ q.kind[n].rev \in BOOLEAN
           /\ q.kind[n].num \in Nat /\ q.kind[n].num > 0 /\ q.kind[n] \in Kinds
<1>1. q.kind[n] \in Kinds /\ n \in Slot
  BY DEF IsShape
<1>2. q.kind[n].num \in Nat /\ q.kind[n].num > 0 /\ q.kind[n].rev \in BOOLEAN
  BY <1>1, KindFacts
<1>3. Adjacent(q, n) \cap R \in SUBSET Live(q)
  BY DEF Adjacent
<1>4. W(q, Adjacent(q, n) \cap R) \in Nat
  BY <1>3, UnitsFinite
<1>5. n \in Nat
  BY <1>1, SolverAssumption DEF Slot
<1> QED BY <1>1, <1>2, <1>4, <1>5 DEF Val

(* The order is strict, total and transitive. *)
LEMMA AheadOrder ==
    ASSUME NEW q, IsShape(q), NEW R
    PROVE  /\ \A a, b \in Live(q) : a # b => Ahead(q, R, a, b) \/ Ahead(q, R, b, a)
           /\ \A a, b \in Live(q) : ~(Ahead(q, R, a, b) /\ Ahead(q, R, b, a))
           /\ \A a, b, c \in Live(q) :
                  Ahead(q, R, a, b) /\ Ahead(q, R, b, c) => Ahead(q, R, a, c)
<1>1. \A n \in Live(q) : Val(q, n, R) \in Nat /\ n \in Nat /\ q.kind[n].rev \in BOOLEAN
  BY ValFacts
<1>2. ASSUME NEW a \in Live(q), NEW b \in Live(q)
      PROVE  /\ a # b => Ahead(q, R, a, b) \/ Ahead(q, R, b, a)
             /\ ~(Ahead(q, R, a, b) /\ Ahead(q, R, b, a))
  BY <1>1 DEF Ahead
<1>3. ASSUME NEW a \in Live(q), NEW b \in Live(q), NEW c \in Live(q),
             Ahead(q, R, a, b), Ahead(q, R, b, c)
      PROVE  Ahead(q, R, a, c)
  BY <1>1, <1>3 DEF Ahead
<1> QED BY <1>2, <1>3

(* There is exactly one lightest node. *)
LEMMA LightestExists ==
    ASSUME NEW q, IsShape(q), NEW R \in SUBSET Live(q), R # {}
    PROVE  IsLightest(q, R, Lightest(q, R)) /\ Lightest(q, R) \in R
<1> DEFINE Leads(S, n) == n \in S /\ \A m \in S \ {n} : Ahead(q, R, n, m)
           P == {S \in SUBSET R : S # {} => \E n \in S : Leads(S, n)}
<1>1. IsFiniteSet(R)
  BY FS_Subset DEF IsShape
<1>2. ASSUME NEW S \in SUBSET R, \A n \in S : S \ {n} \in P
      PROVE  S \in P
  <2> SUFFICES ASSUME S # {}
               PROVE  \E n \in S : Leads(S, n)
    OBVIOUS
  <2>1. PICK a \in S : TRUE
    OBVIOUS
  <2>2. CASE S \ {a} = {}
    BY <2>1, <2>2
  <2>3. CASE S \ {a} # {}
    <3>1. PICK b \in S \ {a} : Leads(S \ {a}, b)
      BY <1>2, <2>1, <2>3
    <3>2. a \in Live(q) /\ b \in Live(q) /\ \A m \in S : m \in Live(q)
      OBVIOUS
    <3>3. CASE Ahead(q, R, b, a)
      BY <3>1, <3>3
    <3>4. CASE Ahead(q, R, a, b)
      <4>1. \A m \in S \ {a} : Ahead(q, R, a, m)
        BY <3>1, <3>2, <3>4, AheadOrder
      <4> QED BY <4>1
    <3> QED BY <3>2, <3>3, <3>4, AheadOrder
  <2> QED BY <2>2, <2>3
<1>3. SUBSET R \subseteq P
  <2> HIDE DEF P
  <2> QED BY <1>1, <1>2, SubsetInduction
<1>4. \E n \in R : IsLightest(q, R, n)
  BY <1>3 DEF IsLightest
<1> QED BY <1>4 DEF Lightest

(* There is one lightest node: equal values are told apart by priority and
   position. *)
LEMMA LightestUnique ==
    ASSUME NEW q, IsShape(q), NEW R \in SUBSET Live(q), NEW n, IsLightest(q, R, n)
    PROVE  n = Lightest(q, R)
<1>1. n \in R
  BY DEF IsLightest
<1>2. IsLightest(q, R, Lightest(q, R)) /\ Lightest(q, R) \in R
  BY <1>1, LightestExists
<1> DEFINE m == Lightest(q, R)
<1> HIDE DEF m
<1>3. SUFFICES ASSUME n # m
               PROVE  FALSE
  BY DEF m
<1>4. Ahead(q, R, n, m) /\ Ahead(q, R, m, n)
  BY <1>1, <1>2, <1>3 DEF IsLightest, m
<1> QED BY <1>1, <1>2, <1>4, AheadOrder DEF m

(* No node asks for less than the lightest. *)
LEMMA LightestLeast ==
    ASSUME NEW q, IsShape(q), NEW R \in SUBSET Live(q), NEW m \in R
    PROVE  Val(q, Lightest(q, R), R) <= Val(q, m, R)
<1>1. IsLightest(q, R, Lightest(q, R)) /\ Lightest(q, R) \in R
  BY LightestExists
<1>2. Val(q, Lightest(q, R), R) \in Nat /\ Val(q, m, R) \in Nat
  BY <1>1, ValFacts
<1>3. m = Lightest(q, R) \/ Ahead(q, R, Lightest(q, R), m)
  BY <1>1 DEF IsLightest
<1> QED BY <1>2, <1>3 DEF Ahead
-----------------------------------------------------------------------------
(***************************************************************************)
(* The coloring calcEventIds computes, as a function of the graph: f[R] is *)
(* what it has after coloring the nodes of R, the last of them Lightest.   *)
(***************************************************************************)
TakenIn(q, c, n) == (UNION {c.ids[m] : m \in Adjacent(q, n)}) \cup ReservedIds
Fresh == [ids |-> [n \in Slot |-> {}], top |-> 0]
Chosen(q, M, c, n) == Choice(q.kind[n], TakenIn(q, c, n), c.top, M)
Give(q, M, c, n) ==
    [ids |-> [c.ids EXCEPT ![n] = Chosen(q, M, c, n)],
     top |-> Max2(c.top, LastOf(q.kind[n], TakenIn(q, c, n), c.top, M))]
Last1(q, M, f, R) == Give(q, M, f[R \ {Lightest(q, R)}], Lightest(q, R))
IsCanon(q, M, f) ==
    f = [R \in SUBSET Live(q) |-> IF R = {} THEN Fresh ELSE Last1(q, M, f, R)]
Canon(q, M) == CHOOSE f : IsCanon(q, M, f)

(* Zero and the successor reach every number. *)
LEMMA Upwards ==
    ASSUME NEW S, 0 \in S, \A n \in Nat : n \in S => n + 1 \in S
    PROVE  Nat \subseteq S
<1> SUFFICES ASSUME Nat \ S # {}
             PROVE  FALSE
  OBVIOUS
<1>1. Nat \ S \in SUBSET Nat
  OBVIOUS
<1>2. PICK x \in Nat \ S : \A y \in Nat \ S : x <= y
  BY <1>1, Least
<1>3. x - 1 \in Nat /\ (x - 1) + 1 = x
  BY <1>2
<1>4. x - 1 \in S
  BY <1>2, <1>3
<1> QED BY <1>2, <1>3, <1>4

(* It exists: sets of at most n nodes first, then those of n + 1. *)
LEMMA CanonExists ==
    ASSUME NEW q, IsShape(q), NEW M
    PROVE  IsCanon(q, M, Canon(q, M))
<1> DEFINE D(n) == {R \in SUBSET Live(q) : Cardinality(R) <= n}
           Part(f, n) == f = [R \in D(n) |-> IF R = {} THEN Fresh ELSE Last1(q, M, f, R)]
           N == {n \in Nat : \E f : Part(f, n)}
<1>0. \A R \in SUBSET Live(q) : IsFiniteSet(R) /\ Cardinality(R) \in Nat
  BY FS_Subset, FS_CardinalityType DEF IsShape
<1>1. 0 \in N
  <2> DEFINE f == [R \in D(0) |-> Fresh]
  <2>1. \A R \in D(0) : R = {}
    <3>1. \A R \in D(0) : Cardinality(R) = 0
      BY <1>0
    <3> QED BY <1>0, <3>1, FS_EmptySet
  <2>2. f = [R \in D(0) |-> IF R = {} THEN Fresh ELSE Last1(q, M, f, R)]
    BY <2>1
  <2> QED BY <2>2
<1>2. ASSUME NEW n \in Nat, n \in N
      PROVE  n + 1 \in N
  <2>1. PICK f : Part(f, n)
    BY <1>2
  <2> DEFINE h == [R \in D(n + 1) |-> IF R = {} THEN Fresh ELSE Last1(q, M, f, R)]
  <2>2. ASSUME NEW R \in D(n + 1), R # {}
        PROVE  R \ {Lightest(q, R)} \in D(n)
    <3>1. Lightest(q, R) \in R
      BY <2>2, LightestExists
    <3>2. Cardinality(R \ {Lightest(q, R)}) = Cardinality(R) - 1
      BY <1>0, <3>1, FS_RemoveElement
    <3> QED BY <1>0, <3>2
  <2>3. ASSUME NEW R \in D(n)
        PROVE  R \in D(n + 1) /\ h[R] = f[R]
    <3>1. R \in D(n + 1)
      BY <1>0
    <3>2. f[R] = IF R = {} THEN Fresh ELSE Last1(q, M, f, R)
      BY <2>1
    <3> QED BY <3>1, <3>2
  <2>4. \A R \in D(n + 1) : R # {} => Last1(q, M, f, R) = Last1(q, M, h, R)
    <3> HIDE DEF h
    <3> QED BY <2>2, <2>3 DEF Last1
  <2>5. Part(h, n + 1)
    <3>1. h = [R \in D(n + 1) |-> IF R = {} THEN Fresh ELSE Last1(q, M, h, R)]
      BY <2>4
    <3> QED BY <3>1
  <2>6. n + 1 \in Nat
    OBVIOUS
  <2> QED BY <2>5, <2>6
<1>3. Nat \subseteq N
  <2> HIDE DEF N
  <2> QED BY <1>1, <1>2, Upwards
<1> DEFINE z == Cardinality(Live(q))
<1>4. z \in Nat /\ D(z) = SUBSET Live(q)
  <2>1. z \in Nat /\ IsFiniteSet(Live(q))
    BY FS_CardinalityType DEF IsShape
  <2>2. \A R \in SUBSET Live(q) : Cardinality(R) <= z
    BY <2>1, FS_Subset
  <2> QED BY <2>1, <2>2
<1>5. \E f : Part(f, z)
  BY <1>3, <1>4
<1>6. \E f : IsCanon(q, M, f)
  BY <1>4, <1>5 DEF IsCanon
<1> QED BY <1>6 DEF Canon

(* Its equations. *)
LEMMA CanonEquations ==
    ASSUME NEW q, IsShape(q), NEW M
    PROVE  /\ Canon(q, M)[{}] = Fresh
           /\ \A R \in SUBSET Live(q) : R # {} =>
                  /\ Lightest(q, R) \in R
                  /\ R \ {Lightest(q, R)} \in SUBSET Live(q)
                  /\ Canon(q, M)[R] = Give(q, M, Canon(q, M)[R \ {Lightest(q, R)}],
                                           Lightest(q, R))
<1> DEFINE f == Canon(q, M)
<1>1. f = [R \in SUBSET Live(q) |-> IF R = {} THEN Fresh ELSE Last1(q, M, f, R)]
  BY CanonExists DEF IsCanon
<1> HIDE DEF f
<1>2. f[{}] = Fresh
  BY <1>1
<1>3. ASSUME NEW R \in SUBSET Live(q), R # {}
      PROVE  /\ Lightest(q, R) \in R
             /\ R \ {Lightest(q, R)} \in SUBSET Live(q)
             /\ f[R] = Give(q, M, f[R \ {Lightest(q, R)}], Lightest(q, R))
  <2>1. Lightest(q, R) \in R
    BY <1>3, LightestExists
  <2>2. f[R] = Last1(q, M, f, R)
    BY <1>1, <1>3
  <2> QED BY <2>1, <2>2 DEF Last1
<1> QED BY <1>2, <1>3 DEF f

-----------------------------------------------------------------------------
(* A coloring of the nodes of R. *)
IsColoring(q, R, c) ==
    /\ c = [ids |-> c.ids, top |-> c.top]
    /\ c.ids \in [Slot -> SUBSET Nat] /\ c.top \in Nat
    /\ \A n \in Slot \ R : c.ids[n] = {}
    /\ \A n \in R : IsFiniteSet(c.ids[n]) /\ Cardinality(c.ids[n]) <= q.kind[n].num

(* The ids taken around a node are finitely many. *)
LEMMA TakenInFacts ==
    ASSUME NEW q, IsShape(q), NEW R \in SUBSET Live(q), NEW n \in Live(q), n \notin R,
           NEW c, IsColoring(q, R, c)
    PROVE  /\ TakenIn(q, c, n) \in SUBSET Nat /\ IsFiniteSet(TakenIn(q, c, n))
           /\ ReservedIds = {} =>
                  Cardinality(TakenIn(q, c, n)) <= W(q, Adjacent(q, n) \cap R)
           /\ TakenIn(q, c, n) = (UNION {c.ids[m] : m \in Adjacent(q, n) \cap R})
                                    \cup ReservedIds
<1> DEFINE S == Adjacent(q, n) \cap R
           U == UNION {c.ids[m] : m \in S}
<1>1. S \in SUBSET Live(q) /\ \A m \in S : m \in Slot
  BY DEF IsShape
<1>2. \A m \in S : /\ c.ids[m] \in SUBSET Nat /\ IsFiniteSet(c.ids[m])
                   /\ Cardinality(c.ids[m]) <= q.kind[m].num
  BY <1>1 DEF IsColoring
<1>3. U \in SUBSET Nat /\ IsFiniteSet(U) /\ Cardinality(U) <= W(q, S)
  <2>1. /\ UNION {c.ids[m] : m \in S} \in SUBSET Nat
        /\ IsFiniteSet(UNION {c.ids[m] : m \in S})
        /\ Cardinality(UNION {c.ids[m] : m \in S}) <= W(q, S)
    <3> HIDE DEF S
    <3> DEFINE ids == c.ids
    <3>1. \A m \in S : /\ ids[m] \in SUBSET Nat /\ IsFiniteSet(ids[m])
                       /\ Cardinality(ids[m]) <= q.kind[m].num
      BY <1>2
    <3> HIDE DEF ids
    <3>2. /\ UNION {ids[m] : m \in S} \in SUBSET Nat
          /\ IsFiniteSet(UNION {ids[m] : m \in S})
          /\ Cardinality(UNION {ids[m] : m \in S}) <= W(q, S)
      BY <1>1, <3>1, UnionWeight
    <3> QED BY <3>2 DEF ids
  <2> QED BY <2>1
<1>4. TakenIn(q, c, n) = U \cup ReservedIds
  <2>1. \A m \in Adjacent(q, n) : m \in Slot /\ (m \notin R => c.ids[m] = {})
    BY DEF Adjacent, IsShape, IsColoring
  <2>2. UNION {c.ids[m] : m \in Adjacent(q, n)} = U
    BY <2>1
  <2> QED BY <2>2 DEF TakenIn
<1> HIDE DEF U, S
<1>5. ReservedIds \in SUBSET Nat /\ IsFiniteSet(ReservedIds)
  BY SolverAssumption
<1>6. IsFiniteSet(U \cup ReservedIds)
  BY <1>3, <1>5, FS_Union
<1>7. ReservedIds = {} => U \cup ReservedIds = U
  OBVIOUS
<1> QED BY <1>3, <1>4, <1>5, <1>6, <1>7 DEF S, U

(* What one step of the coloring changes. *)
LEMMA GiveFacts ==
    ASSUME NEW q, IsShape(q), NEW R \in SUBSET Live(q), NEW n \in Live(q), n \notin R,
           NEW c, IsColoring(q, R, c), NEW M \in Nat
    PROVE  /\ IsColoring(q, R \cup {n}, Give(q, M, c, n))
           /\ Give(q, M, c, n).ids = [c.ids EXCEPT ![n] = Chosen(q, M, c, n)]
           /\ Give(q, M, c, n).ids[n] = Chosen(q, M, c, n)
           /\ \A m \in Slot \ {n} : Give(q, M, c, n).ids[m] = c.ids[m]
           /\ Chosen(q, M, c, n) \in SUBSET Nat
           /\ IsFiniteSet(Chosen(q, M, c, n))
           /\ Cardinality(Chosen(q, M, c, n)) <= q.kind[n].num
           /\ \/ Give(q, M, c, n).top = c.top
              \/ Give(q, M, c, n).top \in Chosen(q, M, c, n)
           /\ Give(q, M, c, n).top >= c.top
           /\ Give(q, M, c, n).top = Max2(c.top, LastOf(q.kind[n], TakenIn(q, c, n), c.top, M))
<1> DEFINE C == Chosen(q, M, c, n)
           d == Give(q, M, c, n)
           T == TakenIn(q, c, n)
           k == q.kind[n]
           l == LastOf(k, T, c.top, M)
<1>1. T \in SUBSET Nat /\ IsFiniteSet(T) /\ k \in Kinds /\ c.top \in Nat
  BY TakenInFacts DEF IsShape, IsColoring
<1>2. d.ids = [c.ids EXCEPT ![n] = C] /\ d.top = Max2(c.top, l) /\ d = [ids |-> d.ids, top |-> d.top]
  BY DEF Give
<1>3. C = Choice(k, T, c.top, M)
  BY DEF Chosen
<1> HIDE DEF C, d
<1> HIDE DEF T, l, k
<1>4. /\ C \in SUBSET Nat /\ IsFiniteSet(C) /\ Cardinality(C) <= k.num
      /\ l \in C
  BY <1>1, <1>3, ChoiceFacts DEF l
<1>5. d.top \in Nat /\ (d.top = c.top \/ d.top \in C) /\ d.top >= c.top
  <2>1. l \in Nat
    BY <1>4
  <2> QED BY <1>1, <1>2, <1>4, <2>1 DEF Max2
<1>6. n \in Slot /\ c.ids \in [Slot -> SUBSET Nat]
  BY DEF IsShape, IsColoring
<1>7. /\ d.ids \in [Slot -> SUBSET Nat] /\ d.ids[n] = C
      /\ \A m \in Slot \ {n} : d.ids[m] = c.ids[m]
  BY <1>2, <1>4, <1>6
<1>8. \A m \in Slot \ (R \cup {n}) : d.ids[m] = {}
  BY <1>7 DEF IsColoring
<1>9. \A m \in R \cup {n} : IsFiniteSet(d.ids[m]) /\ Cardinality(d.ids[m]) <= q.kind[m].num
  <2>1. \A m \in R : m \in Slot /\ m # n
    BY DEF IsShape
  <2>2. \A m \in R : IsFiniteSet(c.ids[m]) /\ Cardinality(c.ids[m]) <= q.kind[m].num
    BY DEF IsColoring
  <2> QED BY <1>4, <1>7, <2>1, <2>2 DEF k
<1>10. IsColoring(q, R \cup {n}, d)
  BY <1>2, <1>5, <1>7, <1>8, <1>9 DEF IsColoring
<1> QED BY <1>2, <1>4, <1>5, <1>7, <1>10 DEF k, C, d, T, l

(* calcEventIds colors the nodes of R and no other. *)
LEMMA CanonColoring ==
    ASSUME NEW q, IsShape(q), NEW M \in Nat, NEW R \in SUBSET Live(q)
    PROVE  IsColoring(q, R, Canon(q, M)[R])
<1> DEFINE L == Live(q)
           f == Canon(q, M)
           P == {S \in SUBSET L : IsColoring(q, S, f[S])}
<1>1. IsFiniteSet(L)
  BY DEF IsShape
<1>2. ASSUME NEW S \in SUBSET L, \A n \in S : S \ {n} \in P
      PROVE  S \in P
  <2>1. CASE S = {}
    <3>1. IsColoring(q, {}, Fresh)
      BY DEF IsColoring, Fresh
    <3> QED BY <2>1, <3>1, CanonEquations
  <2>2. CASE S # {}
    <3> DEFINE n == Lightest(q, S)
    <3>1. /\ n \in S /\ S \ {n} \in SUBSET Live(q)
          /\ f[S] = Give(q, M, f[S \ {n}], n)
      BY <2>2, CanonEquations
    <3>2. IsColoring(q, S \ {n}, f[S \ {n}])
      BY <1>2, <3>1
    <3> HIDE DEF n, f
    <3>3. n \in Live(q) /\ n \notin S \ {n} /\ (S \ {n}) \cup {n} = S
      BY <3>1
    <3>4. IsColoring(q, (S \ {n}) \cup {n}, f[S])
      <4> DEFINE c == f[S \ {n}]
                 B == S \ {n}
      <4>1. /\ n \in Live(q) /\ n \notin B /\ B \in SUBSET Live(q)
            /\ IsColoring(q, B, c) /\ f[S] = Give(q, M, c, n)
        BY <3>1, <3>2, <3>3
      <4> HIDE DEF c, B
      <4>2. IsColoring(q, B \cup {n}, Give(q, M, c, n))
        BY <4>1, GiveFacts
      <4> QED BY <4>1, <4>2 DEF B
    <3> QED BY <3>3, <3>4
  <2> QED BY <2>1, <2>2
<1>3. SUBSET L \subseteq P
  <2> HIDE DEF P, L
  <2> QED BY <1>1, <1>2, SubsetInduction
<1> QED BY <1>3
-----------------------------------------------------------------------------
Used(c) == UNION {c.ids[n] : n \in Slot}
Within(M, c) == Used(c) \subseteq 0 .. M - 1

(* Sets of nodes in the order they are colored. *)
LEMMA PeelInduction ==
    ASSUME NEW q, IsShape(q), NEW P, {} \in P,
           \A R \in SUBSET Live(q) : R # {} /\ R \ {Lightest(q, R)} \in P => R \in P
    PROVE  SUBSET Live(q) \subseteq P
<1> DEFINE L == Live(q)
<1>1. IsFiniteSet(L)
  BY DEF IsShape
<1>2. ASSUME NEW R \in SUBSET L, \A n \in R : R \ {n} \in P
      PROVE  R \in P
  <2>1. R # {} => Lightest(q, R) \in R
    BY LightestExists
  <2> QED BY <1>2, <2>1
<1> HIDE DEF L
<1>3. SUBSET L \subseteq P
  BY <1>1, <1>2, SubsetInduction
<1> QED BY <1>3 DEF L

(* One step of the coloring: node n gets its ids after those of B. *)
IsStep(q, M, R, n, B, c) ==
    /\ n = Lightest(q, R) /\ B = R \ {n} /\ c = Canon(q, M)[B]
    /\ n \in R /\ n \in Live(q) /\ n \in Slot /\ n \notin B /\ B \in SUBSET Live(q)
    /\ R = B \cup {n}
    /\ IsColoring(q, B, c)
    /\ Canon(q, M)[R] = Give(q, M, c, n)
    /\ q.kind[n] \in Kinds /\ c.top \in Nat
    /\ Used(c) \in SUBSET Nat
    /\ Used(Canon(q, M)[R]) = Used(c) \cup Chosen(q, M, c, n)
    /\ Chosen(q, M, c, n) = Choice(q.kind[n], TakenIn(q, c, n), c.top, M)
    /\ Chosen(q, M, c, n) \in SUBSET Nat
    /\ TakenIn(q, c, n) \in SUBSET Nat /\ IsFiniteSet(TakenIn(q, c, n))
    /\ TakenIn(q, c, n) \subseteq Used(c) \cup ReservedIds

(* The ids in use once a node has got its ids. *)
LEMMA UsedByGive ==
    ASSUME NEW q, IsShape(q), NEW B \in SUBSET Live(q), NEW n \in Live(q), n \notin B,
           NEW c, IsColoring(q, B, c), NEW M \in Nat
    PROVE  /\ Used(Give(q, M, c, n)) = Used(c) \cup Chosen(q, M, c, n)
           /\ Used(c) \in SUBSET Nat
           /\ TakenIn(q, c, n) \subseteq Used(c) \cup ReservedIds
<1> DEFINE d == Give(q, M, c, n)
           C == Chosen(q, M, c, n)
<1>1. d.ids[n] = C /\ \A m \in Slot \ {n} : d.ids[m] = c.ids[m]
  <2>1. d.ids = [c.ids EXCEPT ![n] = C]
    BY DEF Give
  <2>2. n \in Slot /\ c.ids \in [Slot -> SUBSET Nat]
    BY DEF IsShape, IsColoring
  <2> QED BY <2>1, <2>2
<1>2. n \in Slot /\ c.ids[n] = {}
  BY DEF IsShape, IsColoring
<1> HIDE DEF d, C
<1>3. \A x : x \in Used(d) <=> x \in Used(c) \/ x \in C
  <2>1. \A x : x \in Used(d) => x \in Used(c) \/ x \in C
    BY <1>1 DEF Used
  <2>2. \A x : x \in Used(c) \/ x \in C => x \in Used(d)
    BY <1>1, <1>2 DEF Used
  <2> QED BY <2>1, <2>2
<1>4. Used(c) \in SUBSET Nat
  BY DEF IsColoring, Used
<1>5. TakenIn(q, c, n) \subseteq Used(c) \cup ReservedIds
  BY DEF TakenIn, Used, Adjacent, IsShape
<1> QED BY <1>3, <1>4, <1>5 DEF d, C

(* What one step of the coloring is. *)
LEMMA CanonStep ==
    ASSUME NEW q, IsShape(q), NEW M \in Nat, NEW R \in SUBSET Live(q), R # {}
    PROVE  \E n, B, c : IsStep(q, M, R, n, B, c)
<1> DEFINE n == Lightest(q, R)
           B == R \ {n}
           c == Canon(q, M)[B]
<1>1. n \in R /\ B \in SUBSET Live(q) /\ Canon(q, M)[R] = Give(q, M, c, n)
  BY CanonEquations
<1>2. n \in Live(q) /\ n \notin B /\ R = B \cup {n} /\ n \in Slot /\ q.kind[n] \in Kinds
  BY <1>1 DEF IsShape
<1>3. n = Lightest(q, R) /\ B = R \ {n} /\ c = Canon(q, M)[B]
  OBVIOUS
<1> HIDE DEF n, B, c
<1>4. IsColoring(q, B, c)
  BY <1>1, <1>3, CanonColoring
<1>5. /\ Used(Give(q, M, c, n)) = Used(c) \cup Chosen(q, M, c, n)
      /\ Used(c) \in SUBSET Nat
      /\ TakenIn(q, c, n) \subseteq Used(c) \cup ReservedIds
  BY <1>1, <1>2, <1>4, UsedByGive
<1>6. Chosen(q, M, c, n) \in SUBSET Nat
  BY <1>1, <1>2, <1>4, GiveFacts
<1>7. TakenIn(q, c, n) \in SUBSET Nat /\ IsFiniteSet(TakenIn(q, c, n))
  BY <1>1, <1>2, <1>4, TakenInFacts
<1>8. c.top \in Nat
  BY <1>4 DEF IsColoring
<1>9. Chosen(q, M, c, n) = Choice(q.kind[n], TakenIn(q, c, n), c.top, M)
  BY DEF Chosen
<1>10. IsStep(q, M, R, n, B, c)
  BY <1>1, <1>2, <1>3, <1>4, <1>5, <1>6, <1>7, <1>8, <1>9 DEF IsStep
<1> QED BY <1>10

(* The coloring of no node uses no id. *)
LEMMA FreshUsed ==
    Used(Fresh) = {} /\ Fresh.top = 0
BY DEF Used, Fresh

(* Without reserved ids nothing is pinned. *)
LEMMA NoPins ==
    ASSUME ReservedIds = {}, NEW k \in Kinds
    PROVE  ~PinnedKind(k)
BY KindFacts DEF PinnedKind

-----------------------------------------------------------------------------
(* An id from M on is in use only when all below it are. *)
NoGap(M, c) ==
    /\ c.top \in Used(c) \cup {0}
    /\ \A x \in Used(c) : x >= M => 0 .. x \subseteq Used(c)

(* No id from M on is used before all below it are. *)
LEMMA CanonNoGap ==
    ASSUME ReservedIds = {}, NEW q, IsShape(q), NEW M \in Nat, M > 0,
           NEW R \in SUBSET Live(q)
    PROVE  NoGap(M, Canon(q, M)[R])
<1> DEFINE P == {S \in SUBSET Live(q) : NoGap(M, Canon(q, M)[S])}
<1>1. {} \in P
  <2>1. NoGap(M, Fresh)
    BY FreshUsed DEF NoGap
  <2> QED BY <2>1, CanonEquations
<1>2. ASSUME NEW S \in SUBSET Live(q), S # {}, S \ {Lightest(q, S)} \in P
      PROVE  S \in P
  <2>1. PICK n, B, c : IsStep(q, M, S, n, B, c)
    BY <1>2, CanonStep
  <2> DEFINE k == q.kind[n]
             T == TakenIn(q, c, n)
             C == Chosen(q, M, c, n)
             U == Used(c)
             d == Canon(q, M)[S]
  <2>2. NoGap(M, c)
    BY <1>2, <2>1 DEF IsStep
  <2>3. /\ k \in Kinds /\ T \in SUBSET Nat /\ IsFiniteSet(T) /\ c.top \in Nat
        /\ U \in SUBSET Nat /\ T \subseteq U /\ C = Choice(k, T, c.top, M)
        /\ C \in SUBSET Nat /\ Used(d) = U \cup C
    BY <2>1 DEF IsStep
  <2>4. d.top = c.top \/ d.top \in C
    <3>1. d = Give(q, M, c, n) /\ IsColoring(q, B, c) /\ n \in Live(q) /\ n \notin B /\ B \in SUBSET Live(q)
      BY <2>1 DEF IsStep
    <3> HIDE DEF d
    <3>2. \/ Give(q, M, c, n).top = c.top
          \/ Give(q, M, c, n).top \in Chosen(q, M, c, n)
      BY <3>1, GiveFacts
    <3> QED BY <3>1, <3>2
  <2>5. ~PinnedKind(k) /\ c.top \in U \cup {0}
        /\ \A x \in U : x >= M => 0 .. x \subseteq U
    BY <2>2, <2>3, NoPins DEF NoGap
  <2> HIDE DEF k, T, C, U, d
  <2>6. ASSUME NEW x \in C, x >= M
        PROVE  0 .. x \subseteq U \cup C
    BY <2>3, <2>5, <2>6, ChoiceNoGap
  <2>7. \A x \in Used(d) : x >= M => 0 .. x \subseteq Used(d)
    BY <2>3, <2>5, <2>6
  <2>8. d.top \in Used(d) \cup {0}
    BY <2>3, <2>4, <2>5
  <2>9. NoGap(M, d)
    BY <2>7, <2>8 DEF NoGap
  <2> QED BY <2>9 DEF d
<1>3. SUBSET Live(q) \subseteq P
  <2> HIDE DEF P
  <2> QED BY <1>1, <1>2, PeelInduction
<1> QED BY <1>3

(* With at most M ids in use, all of them are below M. *)
LEMMA FewFit ==
    ASSUME NEW M \in Nat, NEW c, NoGap(M, c), Used(c) \in SUBSET Nat,
           IsFiniteSet(Used(c)), Cardinality(Used(c)) <= M
    PROVE  Within(M, c)
<1> DEFINE U == Used(c)
<1>1. \A x \in U : x \in Nat /\ (x >= M => 0 .. x \subseteq U)
  BY DEF NoGap
<1>2. IsFiniteSet(U) /\ Cardinality(U) <= M /\ Cardinality(U) \in Nat
  BY FS_CardinalityType
<1> HIDE DEF U
<1>3. ASSUME NEW x \in U, x >= M
      PROVE  FALSE
  <2>1. x \in Nat /\ 0 .. x \in SUBSET U
    BY <1>1, <1>3
  <2>2. Cardinality(0 .. x) <= Cardinality(U)
    BY <1>2, <2>1, FS_Subset
  <2>3. Cardinality(0 .. x) = IF 0 > x THEN 0 ELSE x - 0 + 1
    BY <2>1, FS_Interval
  <2>4. Cardinality(0 .. x) = x + 1
    BY <2>1, <2>3
  <2> QED BY <1>2, <1>3, <2>1, <2>2, <2>4
<1>4. \A x \in U : x \in 0 .. M - 1
  BY <1>1, <1>3
<1> QED BY <1>4 DEF Within, U

-----------------------------------------------------------------------------
(***************************************************************************)
(* The core: the nodes that stay too heavy however the light ones are      *)
(* taken away.  It alone decides whether the ids suffice.                  *)
(***************************************************************************)
Heavy(q, M, S) == \A n \in S : Val(q, n, S) > M
Core(q, M) == UNION {S \in SUBSET Live(q) : Heavy(q, M, S)}

(* The value of a node grows with the nodes left. *)
LEMMA ValMono ==
    ASSUME NEW q, IsShape(q), NEW n \in Live(q), NEW R, NEW S, R \subseteq S
    PROVE  Val(q, n, R) <= Val(q, n, S)
<1>1. Adjacent(q, n) \cap S \in SUBSET Live(q)
  BY DEF Adjacent
<1>2. Adjacent(q, n) \cap R \in SUBSET (Adjacent(q, n) \cap S)
  OBVIOUS
<1>3. W(q, Adjacent(q, n) \cap R) <= W(q, Adjacent(q, n) \cap S)
  BY <1>1, <1>2, WeightMono
<1>4. W(q, Adjacent(q, n) \cap R) \in Nat /\ W(q, Adjacent(q, n) \cap S) \in Nat
  BY <1>1, <1>2, UnitsFinite
<1>5. q.kind[n].num \in Nat
  BY ValFacts
<1> QED BY <1>3, <1>4, <1>5 DEF Val

(* The core is the largest set of nodes all too heavy among themselves. *)
LEMMA CoreHeavy ==
    ASSUME NEW q, IsShape(q), NEW M \in Nat
    PROVE  /\ Core(q, M) \in SUBSET Live(q)
           /\ Heavy(q, M, Core(q, M))
           /\ \A S \in SUBSET Live(q) : Heavy(q, M, S) => S \subseteq Core(q, M)
<1> DEFINE K == Core(q, M)
<1>1. K \in SUBSET Live(q)
  BY DEF Core
<1>2. \A S \in SUBSET Live(q) : Heavy(q, M, S) => S \subseteq K
  BY DEF Core
<1>3. ASSUME NEW n \in K
      PROVE  Val(q, n, K) > M
  <2>1. PICK S \in SUBSET Live(q) : n \in S /\ Heavy(q, M, S)
    BY DEF Core
  <2>2. n \in Live(q) /\ S \subseteq K
    BY <1>2, <2>1
  <2> HIDE DEF K
  <2>3. Val(q, n, S) <= Val(q, n, K) /\ Val(q, n, S) \in Nat /\ Val(q, n, K) \in Nat
    BY <2>2, ValMono, ValFacts
  <2>4. Val(q, n, S) > M
    BY <2>1 DEF Heavy
  <2> QED BY <2>3, <2>4
<1>4. Heavy(q, M, K)
  BY <1>3 DEF Heavy
<1> QED BY <1>1, <1>2, <1>4

(* Above the core the lightest node is light and not of the core. *)
LEMMA PeelAbove ==
    ASSUME NEW q, IsShape(q), NEW M \in Nat, NEW R \in SUBSET Live(q),
           Core(q, M) \subseteq R, R # Core(q, M)
    PROVE  /\ Lightest(q, R) \notin Core(q, M)
           /\ Val(q, Lightest(q, R), R) <= M
<1> DEFINE K == Core(q, M)
           n == Lightest(q, R)
<1>1. K \in SUBSET Live(q) /\ Heavy(q, M, K)
      /\ (Heavy(q, M, R) => R \subseteq K)
  BY CoreHeavy
<1>2. ~Heavy(q, M, R)
  BY <1>1
<1>3. PICK m \in R : ~(Val(q, m, R) > M)
  BY <1>2 DEF Heavy
<1>4. n \in R /\ n \in Live(q)
  BY <1>3, LightestExists
<1>5. Val(q, n, R) <= Val(q, m, R)
  BY LightestLeast
<1> HIDE DEF K, n
<1>6. Val(q, n, R) \in Nat /\ Val(q, m, R) \in Nat /\ Val(q, n, K) \in Nat
  BY <1>4, ValFacts
<1>7. Val(q, n, R) <= M
  BY <1>3, <1>5, <1>6
<1>8. Val(q, n, K) <= Val(q, n, R)
  BY <1>4, ValMono DEF K
<1>9. n \in K => Val(q, n, K) > M
  BY <1>1 DEF Heavy
<1>10. n \notin K
  BY <1>6, <1>7, <1>8, <1>9
<1> QED BY <1>7, <1>10 DEF K, n

(* A light node next to a coloring that fits gets ids that fit. *)
LEMMA LightFits ==
    ASSUME ReservedIds = {}, NEW q, IsShape(q), NEW M \in Nat, M > 0,
           NEW R \in SUBSET Live(q), NEW n, NEW B, NEW c, IsStep(q, M, R, n, B, c),
           Val(q, n, R) <= M, Within(M, c)
    PROVE  Within(M, Canon(q, M)[R])
<1> DEFINE k == q.kind[n]
           T == TakenIn(q, c, n)
           C == Chosen(q, M, c, n)
<1>1. /\ k \in Kinds /\ T \in SUBSET Nat /\ IsFiniteSet(T) /\ c.top \in Nat
      /\ C = Choice(k, T, c.top, M) /\ Used(Canon(q, M)[R]) = Used(c) \cup C
      /\ n \in Live(q) /\ n \notin B /\ B \in SUBSET Live(q) /\ R = B \cup {n}
      /\ IsColoring(q, B, c) /\ c = Canon(q, M)[B]
  BY DEF IsStep
<1>2. Adjacent(q, n) \cap R = Adjacent(q, n) \cap B
  <2>1. n \notin Adjacent(q, n)
    BY <1>1 DEF IsShape
  <2> QED BY <1>1, <2>1
<1>3. Cardinality(T) <= W(q, Adjacent(q, n) \cap B)
  BY <1>1, TakenInFacts
<1>4. W(q, Adjacent(q, n) \cap B) \in Nat /\ Cardinality(T) \in Nat /\ k.num \in Nat
  <2>1. Adjacent(q, n) \cap B \in SUBSET Live(q)
    BY <1>1
  <2>2. W(q, Adjacent(q, n) \cap B) \in Nat
    BY <2>1, UnitsFinite
  <2>3. Cardinality(T) \in Nat
    <3> HIDE DEF T
    <3> QED BY <1>1, FS_CardinalityType
  <2>4. k.num \in Nat
    BY <1>1, ValFacts
  <2> QED BY <2>2, <2>3, <2>4
<1>5. Val(q, n, R) = k.num + W(q, Adjacent(q, n) \cap B)
  BY <1>2 DEF Val
<1>6. c.top < M
  <2>1. NoGap(M, c)
    BY <1>1, CanonNoGap
  <2>2. \A x \in Used(c) \cup {0} : x < M
    BY DEF Within
  <2> QED BY <2>1, <2>2 DEF NoGap
<1>7. ~PinnedKind(k)
  BY <1>1, NoPins
<1>8. k.num + Cardinality(T) <= M
  BY <1>3, <1>4, <1>5
<1> HIDE DEF k, T, C
<1>9. C \subseteq 0 .. M - 1
  BY <1>1, <1>6, <1>7, <1>8, ChoiceFits
<1> QED BY <1>1, <1>9 DEF Within

(* If the core fits, all fits. *)
LEMMA FitsUp ==
    ASSUME ReservedIds = {}, NEW q, IsShape(q), NEW M \in Nat, M > 0,
           Within(M, Canon(q, M)[Core(q, M)])
    PROVE  Within(M, Canon(q, M)[Live(q)])
<1> DEFINE P == {S \in SUBSET Live(q) : Core(q, M) \subseteq S => Within(M, Canon(q, M)[S])}
<1>1. {} \in P
  <2>1. Within(M, Fresh)
    BY FreshUsed DEF Within
  <2> QED BY <2>1, CanonEquations
<1>2. ASSUME NEW S \in SUBSET Live(q), S # {}, S \ {Lightest(q, S)} \in P
      PROVE  S \in P
  <2> SUFFICES ASSUME Core(q, M) \subseteq S, S # Core(q, M)
               PROVE  Within(M, Canon(q, M)[S])
    OBVIOUS
  <2>1. PICK n, B, c : IsStep(q, M, S, n, B, c)
    BY <1>2, CanonStep
  <2>2. n = Lightest(q, S) /\ B = S \ {n} /\ c = Canon(q, M)[B]
    BY <2>1 DEF IsStep
  <2>3. n \notin Core(q, M) /\ Val(q, n, S) <= M
    BY <2>2, PeelAbove
  <2>4. Within(M, c)
    BY <1>2, <2>2, <2>3
  <2> HIDE DEF P
  <2> QED BY <2>1, <2>3, <2>4, LightFits
<1>3. SUBSET Live(q) \subseteq P
  <2> HIDE DEF P
  <2> QED BY <1>1, <1>2, PeelInduction
<1> QED BY <1>3, CoreHeavy

(* If all fits, the core does. *)
LEMMA FitsDown ==
    ASSUME NEW q, IsShape(q), NEW M \in Nat, Within(M, Canon(q, M)[Live(q)])
    PROVE  Within(M, Canon(q, M)[Core(q, M)])
<1> DEFINE K == Core(q, M)
           f == Canon(q, M)
           P == {S \in SUBSET Live(q) : K \subseteq S /\ Within(M, f[S]) => Within(M, f[K])}
<1>1. {} \in P
  BY DEF Core
<1>2. ASSUME NEW S \in SUBSET Live(q), S # {}, S \ {Lightest(q, S)} \in P
      PROVE  S \in P
  <2> SUFFICES ASSUME K \subseteq S, S # K, Within(M, f[S])
               PROVE  Within(M, f[K])
    OBVIOUS
  <2>1. PICK n, B, c : IsStep(q, M, S, n, B, c)
    BY <1>2, CanonStep
  <2>2. n = Lightest(q, S) /\ B = S \ {n} /\ c = f[B] /\ Used(c) \subseteq Used(f[S])
    BY <2>1 DEF IsStep
  <2>3. n \notin K
    BY <2>2, PeelAbove
  <2>4. Within(M, c)
    BY <2>2 DEF Within
  <2>5. K \subseteq B
    BY <2>2, <2>3
  <2> QED BY <1>2, <2>2, <2>4, <2>5
<1>3. SUBSET Live(q) \subseteq P
  <2> HIDE DEF P
  <2> QED BY <1>1, <1>2, PeelInduction
<1> QED BY <1>3, CoreHeavy
-----------------------------------------------------------------------------
(***************************************************************************)
(* Two graphs that agree on a set of nodes color it alike.                 *)
(***************************************************************************)
Agree(q, r, K) ==
    /\ K \in SUBSET Live(q) /\ K \in SUBSET Live(r)
    /\ \A n \in K : q.kind[n] = r.kind[n]
    /\ \A n \in K : Adjacent(q, n) \cap K = Adjacent(r, n) \cap K

(* Nodes of the same kinds weigh the same. *)
LEMMA AgreeWeight ==
    ASSUME NEW q, NEW r, NEW S, \A n \in S : q.kind[n] = r.kind[n]
    PROVE  W(q, S) = W(r, S)
<1>1. \A m \in S : Unit(q, m) = Unit(r, m)
  BY DEF Unit
<1>2. Units(q, S) = Units(r, S)
  BY <1>1 DEF Units
<1> QED BY <1>2 DEF W

(* Values agree. *)
LEMMA AgreeVal ==
    ASSUME NEW q, NEW r, NEW K, Agree(q, r, K), NEW R \in SUBSET K, NEW n \in K
    PROVE  Val(q, n, R) = Val(r, n, R)
<1>1. Adjacent(q, n) \cap R = Adjacent(r, n) \cap R
  <2>1. Adjacent(q, n) \cap K = Adjacent(r, n) \cap K
    BY DEF Agree
  <2> QED BY <2>1
<1>2. \A m \in Adjacent(q, n) \cap R : q.kind[m] = r.kind[m]
  BY DEF Agree
<1>3. W(q, Adjacent(q, n) \cap R) = W(r, Adjacent(q, n) \cap R)
  BY <1>2, AgreeWeight
<1>4. q.kind[n] = r.kind[n]
  BY DEF Agree
<1> QED BY <1>1, <1>3, <1>4 DEF Val

(* The lightest nodes agree. *)
LEMMA AgreeLightest ==
    ASSUME NEW q, IsShape(q), NEW r, IsShape(r), NEW K, Agree(q, r, K),
           NEW R \in SUBSET K, R # {}
    PROVE  Lightest(q, R) = Lightest(r, R)
<1> DEFINE n == Lightest(q, R)
<1>1. R \in SUBSET Live(q) /\ R \in SUBSET Live(r)
  BY DEF Agree
<1>2. n \in R /\ \A m \in R \ {n} : Ahead(q, R, n, m)
  BY <1>1, LightestExists DEF IsLightest
<1> HIDE DEF n
<1>3. \A m \in R : Val(q, m, R) = Val(r, m, R) /\ q.kind[m] = r.kind[m]
  BY AgreeVal DEF Agree
<1>4. \A m \in R \ {n} : Ahead(r, R, n, m)
  BY <1>2, <1>3 DEF Ahead
<1>5. IsLightest(r, R, n)
  BY <1>2, <1>4 DEF IsLightest
<1>6. n = Lightest(r, R)
  BY <1>1, <1>5, LightestUnique
<1> QED BY <1>6 DEF n

(* The ids given agree. *)
LEMMA AgreeGive ==
    ASSUME NEW q, IsShape(q), NEW r, IsShape(r), NEW K, Agree(q, r, K),
           NEW B \in SUBSET K, NEW n \in K, n \notin B,
           NEW c, IsColoring(q, B, c), IsColoring(r, B, c), NEW M
    PROVE  Give(q, M, c, n) = Give(r, M, c, n)
<1>1. B \in SUBSET Live(q) /\ B \in SUBSET Live(r) /\ n \in Live(q) /\ n \in Live(r)
  BY DEF Agree
<1>2. Adjacent(q, n) \cap B = Adjacent(r, n) \cap B
  <2>1. Adjacent(q, n) \cap K = Adjacent(r, n) \cap K
    BY DEF Agree
  <2> QED BY <2>1
<1>3. /\ TakenIn(q, c, n) = (UNION {c.ids[m] : m \in Adjacent(q, n) \cap B}) \cup ReservedIds
      /\ TakenIn(r, c, n) = (UNION {c.ids[m] : m \in Adjacent(r, n) \cap B}) \cup ReservedIds
  BY <1>1, TakenInFacts
<1>4. TakenIn(q, c, n) = TakenIn(r, c, n)
  BY <1>2, <1>3
<1>5. q.kind[n] = r.kind[n]
  BY DEF Agree
<1> QED BY <1>4, <1>5 DEF Give, Chosen

(* The colorings agree. *)
LEMMA AgreeCanon ==
    ASSUME NEW q, IsShape(q), NEW r, IsShape(r), NEW K, Agree(q, r, K), NEW M \in Nat
    PROVE  Canon(q, M)[K] = Canon(r, M)[K]
<1> DEFINE f == Canon(q, M)
           h == Canon(r, M)
           P == {R \in SUBSET K : f[R] = h[R]}
<1>0. K \in SUBSET Live(q) /\ K \in SUBSET Live(r)
  BY DEF Agree
<1>1. IsFiniteSet(K)
  BY <1>0, FS_Subset DEF IsShape
<1>2. ASSUME NEW R \in SUBSET K, \A n \in R : R \ {n} \in P
      PROVE  R \in P
  <2>1. CASE R = {}
    BY <2>1, CanonEquations
  <2>2. CASE R # {}
    <3>0. R \in SUBSET Live(q) /\ R \in SUBSET Live(r)
      BY <1>0
    <3> DEFINE n == Lightest(q, R)
               B == R \ {n}
               c == f[B]
    <3>1. n \in R /\ n = Lightest(r, R)
      BY <2>2, <3>0, LightestExists, AgreeLightest
    <3>2. f[R] = Give(q, M, c, n)
      BY <2>2, <3>0, CanonEquations
    <3>3. h[R] = Give(r, M, h[B], n)
      BY <2>2, <3>0, <3>1, CanonEquations
    <3>4. c = h[B]
      BY <1>2, <3>1
    <3>5. B \in SUBSET Live(q) /\ B \in SUBSET Live(r) /\ B \in SUBSET K /\ n \in K /\ n \notin B
      BY <3>0, <3>1
    <3> HIDE DEF n, B
    <3>6. IsColoring(q, B, f[B]) /\ IsColoring(r, B, h[B])
      BY <3>5, CanonColoring
    <3> HIDE DEF c, f, h
    <3>7. IsColoring(q, B, c) /\ IsColoring(r, B, c)
      BY <3>4, <3>6 DEF c
    <3>8. Give(q, M, c, n) = Give(r, M, c, n)
      BY <3>5, <3>7, AgreeGive
    <3> QED BY <3>2, <3>3, <3>4, <3>8
  <2> QED BY <2>1, <2>2
<1>3. SUBSET K \subseteq P
  <2> HIDE DEF P
  <2> QED BY <1>1, <1>2, SubsetInduction
<1> QED BY <1>3

(***************************************************************************)
(* Growing a graph around light nodes: every change touches a node of X,   *)
(* and these are light in the new graph.                                   *)
(***************************************************************************)
Grows(q, r, M, X) ==
    /\ Live(q) \subseteq Live(r) /\ X \subseteq Live(r)
    /\ \A n \in Live(q) : q.kind[n] = r.kind[n] /\ Adjacent(q, n) \subseteq Adjacent(r, n)
    /\ \A n \in Live(r) \ X : n \in Live(q) /\ Adjacent(r, n) \ X \subseteq Adjacent(q, n)
    /\ \A n \in X : Val(r, n, Live(r)) <= M

(* Values only grow. *)
LEMMA GrowVal ==
    ASSUME NEW q, IsShape(q), NEW r, IsShape(r), NEW M \in Nat, NEW X, Grows(q, r, M, X),
           NEW S \in SUBSET Live(q), NEW n \in Live(q)
    PROVE  Val(q, n, S) <= Val(r, n, S)
<1> DEFINE A == Adjacent(q, n) \cap S
           B == Adjacent(r, n) \cap S
<1>1. A \in SUBSET B /\ B \in SUBSET Live(r) /\ A \in SUBSET Live(q) /\ A \in SUBSET Live(r)
  BY DEF Grows, Adjacent
<1>2. \A m \in A : q.kind[m] = r.kind[m]
  BY DEF Grows, Adjacent
<1>3. q.kind[n] = r.kind[n] /\ q.kind[n].num \in Nat
  BY ValFacts DEF Grows
<1>4. Val(q, n, S) = q.kind[n].num + W(q, A) /\ Val(r, n, S) = r.kind[n].num + W(r, B)
  BY DEF Val
<1> HIDE DEF A, B
<1>5. W(q, A) = W(r, A)
  BY <1>2, AgreeWeight
<1>6. W(r, A) <= W(r, B) /\ W(r, A) \in Nat /\ W(r, B) \in Nat
  BY <1>1, WeightMono, UnitsFinite
<1> QED BY <1>3, <1>4, <1>5, <1>6

(* Both graphs have the same core, and agree on it. *)
LEMMA GrowCore ==
    ASSUME NEW q, IsShape(q), NEW r, IsShape(r), NEW M \in Nat, NEW X, Grows(q, r, M, X)
    PROVE  Core(q, M) = Core(r, M) /\ Agree(q, r, Core(q, M))
<1>1. ASSUME NEW S \in SUBSET Live(r), Heavy(r, M, S)
      PROVE  S \cap X = {}
  <2> SUFFICES ASSUME NEW n \in S, n \in X
               PROVE  FALSE
    OBVIOUS
  <2>1. n \in Live(r) /\ Val(r, n, S) > M /\ Val(r, n, Live(r)) <= M
    BY <1>1 DEF Heavy, Grows
  <2>2. Val(r, n, S) <= Val(r, n, Live(r))
    BY <2>1, ValMono
  <2>3. Val(r, n, S) \in Nat /\ Val(r, n, Live(r)) \in Nat
    BY <2>1, ValFacts
  <2> QED BY <2>1, <2>2, <2>3
<1>2. ASSUME NEW S \in SUBSET Live(q), S \in SUBSET Live(r), S \cap X = {}
      PROVE  Agree(q, r, S)
  <2>1. \A n \in S : q.kind[n] = r.kind[n]
    BY DEF Grows
  <2>2. \A n \in S : Adjacent(q, n) \cap S = Adjacent(r, n) \cap S
    <3>1. \A n \in S : /\ Adjacent(q, n) \subseteq Adjacent(r, n)
                       /\ Adjacent(r, n) \ X \subseteq Adjacent(q, n)
      BY <1>2 DEF Grows
    <3> QED BY <1>2, <3>1
  <2> QED BY <1>2, <2>1, <2>2 DEF Agree
<1>3. ASSUME NEW S \in SUBSET Live(q), Heavy(q, M, S)
      PROVE  S \in SUBSET Live(r) /\ Heavy(r, M, S)
  <2>1. S \in SUBSET Live(r)
    BY DEF Grows
  <2>2. ASSUME NEW n \in S
        PROVE  Val(r, n, S) > M
    <3>1. n \in Live(q) /\ n \in Live(r) /\ Val(q, n, S) > M
      BY <1>3, <2>1 DEF Heavy
    <3>2. Val(q, n, S) <= Val(r, n, S)
      BY <3>1, GrowVal
    <3>3. Val(q, n, S) \in Nat /\ Val(r, n, S) \in Nat
      BY <3>1, ValFacts
    <3> QED BY <3>1, <3>2, <3>3
  <2> QED BY <2>1, <2>2 DEF Heavy
<1>4. ASSUME NEW S \in SUBSET Live(r), Heavy(r, M, S)
      PROVE  S \in SUBSET Live(q) /\ Heavy(q, M, S)
  <2>1. S \cap X = {}
    BY <1>1, <1>4
  <2>2. S \in SUBSET Live(q)
    BY <2>1 DEF Grows
  <2>3. Agree(q, r, S)
    BY <1>2, <2>1, <2>2
  <2>4. \A n \in S : Val(q, n, S) = Val(r, n, S)
    BY <2>3, AgreeVal
  <2>5. Heavy(q, M, S)
    BY <1>4, <2>4 DEF Heavy
  <2> QED BY <2>2, <2>5
<1>5. Core(q, M) = Core(r, M)
  <2>1. \A S : (S \in SUBSET Live(q) /\ Heavy(q, M, S)) <=> (S \in SUBSET Live(r) /\ Heavy(r, M, S))
    BY <1>3, <1>4
  <2>2. {S \in SUBSET Live(q) : Heavy(q, M, S)} = {S \in SUBSET Live(r) : Heavy(r, M, S)}
    BY <2>1
  <2> QED BY <2>2 DEF Core
<1>6. Core(q, M) \in SUBSET Live(q) /\ Core(r, M) \in SUBSET Live(r) /\ Heavy(r, M, Core(r, M))
  BY CoreHeavy
<1>7. Core(r, M) \cap X = {}
  BY <1>1, <1>6
<1>8. Agree(q, r, Core(q, M))
  BY <1>2, <1>5, <1>6, <1>7
<1> QED BY <1>5, <1>8

(* So the larger graph fits if the smaller one does. *)
LEMMA GrowFits ==
    ASSUME ReservedIds = {}, NEW q, IsShape(q), NEW r, IsShape(r), NEW M \in Nat, M > 0,
           NEW X, Grows(q, r, M, X), Within(M, Canon(q, M)[Live(q)])
    PROVE  Within(M, Canon(r, M)[Live(r)])
<1> DEFINE K == Core(q, M)
<1>1. K = Core(r, M) /\ Agree(q, r, K)
  BY GrowCore
<1>2. Within(M, Canon(q, M)[K])
  BY FitsDown
<1> HIDE DEF K
<1>3. Canon(q, M)[K] = Canon(r, M)[K]
  BY <1>1, AgreeCanon
<1>4. Within(M, Canon(r, M)[Core(r, M)])
  BY <1>1, <1>2, <1>3
<1> QED BY <1>4, FitsUp
-----------------------------------------------------------------------------
(***************************************************************************)
(* A choice is determined by what it leaves free.                          *)
(***************************************************************************)
(* Fewer than n smallest members are all there are. *)
LEMMA LowestAll ==
    ASSUME NEW S \in SUBSET Nat, IsFiniteSet(S), NEW n \in Nat,
           Cardinality(Lowest(n, S)) < n
    PROVE  Lowest(n, S) = S
<1> DEFINE H == Lowest(n, S)
<1>1. \A x : IsFiniteSet({y \in S : y < x}) /\ Cardinality({y \in S : y < x}) \in Nat
  BY FS_Subset, FS_CardinalityType
<1>3. H \in SUBSET Nat /\ IsFiniteSet(H) /\ H \subseteq S /\ Cardinality(H) \in Nat
  BY FiniteLowest, FS_CardinalityType
<1>5. ASSUME H # S
      PROVE  FALSE
  <2> HIDE DEF H
  <2> DEFINE R == S \ H
  <2>1. R \in SUBSET Nat /\ R # {}
    BY <1>3, <1>5
  <2>2. PICK z \in R : \A y \in R : z <= y
    <3> HIDE DEF R
    <3> QED BY <2>1, Least
  <2>3. {y \in S : y < z} \in SUBSET H
    BY <2>1, <2>2
  <2>4. Cardinality({y \in S : y < z}) <= Cardinality(H)
    BY <1>3, <2>3, FS_Subset
  <2>5. Cardinality(H) < n
    BY DEF H
  <2>6. Cardinality({y \in S : y < z}) < n
    BY <1>1, <1>3, <2>4, <2>5
  <2> QED BY <2>2, <2>6 DEF H, Lowest
<1> QED BY <1>5

(* Fewer than n largest members are all there are. *)
LEMMA HighestAll ==
    ASSUME NEW S \in SUBSET Nat, IsFiniteSet(S), NEW n \in Nat,
           Cardinality(Highest(n, S)) < n
    PROVE  Highest(n, S) = S
BY HighestShape

(* Of n free ids the lowest are determined by leaving none free below. *)
LEMMA LowUnique ==
    ASSUME NEW T, NEW C \in SUBSET Nat, NEW D \in SUBSET Nat,
           IsFiniteSet(C), IsFiniteSet(D), Cardinality(C) = Cardinality(D),
           C \cap T = {}, D \cap T = {},
           \A x \in C : \A y \in 0 .. x : y \in T \cup C,
           \A x \in D : \A y \in 0 .. x : y \in T \cup D
    PROVE  C = D
<1> SUFFICES ASSUME C # D
             PROVE  FALSE
  OBVIOUS
<1>1. ~(C \subseteq D) /\ ~(D \subseteq C)
  <2>1. C \subseteq D => C = D
    BY FS_Subset
  <2>2. D \subseteq C => C = D
    BY FS_Subset
  <2> QED BY <2>1, <2>2
<1>2. PICK x \in C : x \notin D
  BY <1>1
<1>3. PICK y \in D : y \notin C
  BY <1>1
<1>4. x \in Nat /\ y \in Nat /\ x # y
  BY <1>2, <1>3
<1>5. x \in 0 .. y \/ y \in 0 .. x
  BY <1>4
<1> QED BY <1>2, <1>3, <1>5

(* Of n free ids up to m the highest are determined by leaving none free
   above. *)
LEMMA HighUnique ==
    ASSUME NEW T, NEW m \in Int, NEW C \in SUBSET (0 .. m), NEW D \in SUBSET (0 .. m),
           IsFiniteSet(C), IsFiniteSet(D), Cardinality(C) = Cardinality(D),
           C \cap T = {}, D \cap T = {},
           \A x \in C : \A y \in x .. m : y \in T \cup C,
           \A x \in D : \A y \in x .. m : y \in T \cup D
    PROVE  C = D
<1> SUFFICES ASSUME C # D
             PROVE  FALSE
  OBVIOUS
<1>1. ~(C \subseteq D) /\ ~(D \subseteq C)
  <2>1. C \subseteq D => C = D
    BY FS_Subset
  <2>2. D \subseteq C => C = D
    BY FS_Subset
  <2> QED BY <2>1, <2>2
<1>2. PICK x \in C : x \notin D
  BY <1>1
<1>3. PICK y \in D : y \notin C
  BY <1>1
<1>4. x \in 0 .. m /\ y \in 0 .. m /\ x # y
  BY <1>2, <1>3
<1>5. x \in y .. m \/ y \in x .. m
  BY <1>4
<1> QED BY <1>2, <1>3, <1>5

(* Next to an id below M that stays free, a choice is complete, and leaves
   nothing free below it, or above it. *)
Snug(k, T, M, C) ==
    /\ C \in SUBSET Nat /\ IsFiniteSet(C) /\ Cardinality(C) = k.num /\ C \cap T = {}
    /\ ~k.rev => \A x \in C : \A y \in 0 .. x : y \in T \cup C
    /\ k.rev => /\ C \in SUBSET (0 .. M - 1)
                /\ \A x \in C : \A y \in x .. M - 1 : y \in T \cup C

(* The lowest free ids are snug. *)
LEMMA LowSnug ==
    ASSUME NEW k \in Kinds, ~k.rev, ~PinnedKind(k), NEW T \in SUBSET Nat, IsFiniteSet(T),
           NEW top, NEW M
    PROVE  Snug(k, T, M, Choice(k, T, top, M))
<1> DEFINE C == Choice(k, T, top, M)
           m == k.num + Cardinality(T)
           F == FreeBelow(T, m)
<1>1. k.num \in Nat /\ k.num > 0 /\ Cardinality(T) \in Nat /\ m \in Int /\ m >= -1
  BY KindFacts, FS_CardinalityType
<1>2. C = Lowest(k.num, F)
  BY DEF Choice
<1>3. /\ C \in SUBSET Nat /\ IsFiniteSet(C) /\ Cardinality(C) <= k.num /\ C \cap T = {}
      /\ \A x \in C : \A y \in 0 .. x : y \in T \cup C
  BY <1>1, <1>2, LowChoice
<1>4. Cardinality(C) = k.num
  <2>0. m = k.num + Cardinality(T)
    OBVIOUS
  <2> HIDE DEF m
  <2>1. /\ F \in SUBSET Nat /\ IsFiniteSet(F) /\ Cardinality(F) \in Nat
        /\ Cardinality(F) + Cardinality(T) >= m + 1
    BY <1>1, FreeFacts, FreeCount
  <2> HIDE DEF F, C
  <2>2. Cardinality(C) \in Nat
    BY <1>3, FS_CardinalityType
  <2>3. Cardinality(C) < k.num => C = F
    BY <1>1, <1>2, <2>1, LowestAll
  <2> QED BY <1>1, <1>3, <2>0, <2>1, <2>2, <2>3
<1> HIDE DEF C
<1> QED BY <1>3, <1>4 DEF Snug, C

(* The highest free ids are snug, when there are enough of them. *)
LEMMA HighSnug ==
    ASSUME NEW k \in Kinds, k.rev, ~PinnedKind(k), NEW T \in SUBSET Nat, IsFiniteSet(T),
           NEW M \in Nat, NEW top \in Nat, top < M,
           Cardinality(HighOf(k, T, top, M)) = k.num
    PROVE  Snug(k, T, M, Choice(k, T, top, M))
<1> DEFINE C == Choice(k, T, top, M)
           H == HighOf(k, T, top, M)
           m == HighTop(top, M)
<1>1. /\ m \in Int /\ m >= top /\ m >= M - 1 /\ (m = top \/ m = M - 1)
      /\ H \in SUBSET Nat /\ IsFiniteSet(H)
  BY HighChoice
<1>11. MissingOf(k, T, top, M) = k.num - Cardinality(H)
  BY DEF MissingOf
<1>2. \A x \in H : x <= m /\ x \notin T
  BY HighChoice, Zenon
<1>3. \A x \in H : \A y \in x .. m : y \in T \cup H
  BY HighChoice, Zenon
<1>4. m = M - 1
  BY <1>1
<1>5. k.num \in Nat
  BY KindFacts
<1>6. C = H \cup (top + 1 .. top + MissingOf(k, T, top, M))
  BY DEF Choice
<1>7. Cardinality(H) = k.num
  OBVIOUS
<1> HIDE DEF C, H, m
<1>8. (top + 1 .. top + MissingOf(k, T, top, M)) = {}
  BY <1>5, <1>7, <1>11
<1>9. C = H
  BY <1>6, <1>8
<1>10. H \in SUBSET (0 .. M - 1)
  <2>1. \A x \in H : x \in 0 .. M - 1
    BY <1>1, <1>2, <1>4
  <2> QED BY <2>1
<1> QED BY <1>1, <1>2, <1>3, <1>4, <1>7, <1>9, <1>10 DEF Snug, C

(* A choice that leaves e free is snug. *)
LEMMA GapSnug ==
    ASSUME NEW k \in Kinds, ~PinnedKind(k), NEW T \in SUBSET Nat, IsFiniteSet(T),
           NEW M \in Nat, NEW top \in Nat, top < M,
           NEW e \in 0 .. M - 1, e \notin T, e \notin Choice(k, T, top, M)
    PROVE  Snug(k, T, M, Choice(k, T, top, M))
<1>1. CASE ~k.rev
  BY <1>1, LowSnug
<1>2. CASE k.rev
  <2> DEFINE H == HighOf(k, T, top, M)
             m == HighTop(top, M)
             miss == MissingOf(k, T, top, M)
  <2>1. /\ m \in Int /\ m >= M - 1
        /\ IsFiniteSet(H) /\ Cardinality(H) <= k.num /\ Cardinality(H) \in Nat
        /\ miss = k.num - Cardinality(H)
    BY HighChoice
  <2>2. miss > 0 => \A y \in 0 .. m : y \in T \cup H
    BY HighChoice, Zenon
  <2>3. H \subseteq Choice(k, T, top, M)
    BY <1>2 DEF Choice
  <2>4. k.num \in Nat
    BY KindFacts
  <2> HIDE DEF H, m, miss
  <2>5. e \in 0 .. m
    BY <2>1
  <2>6. ~(miss > 0)
    BY <2>2, <2>3, <2>5
  <2>7. Cardinality(H) = k.num
    BY <2>1, <2>4, <2>6
  <2> QED BY <1>2, <2>7, HighSnug DEF H
<1>3. k.rev \in BOOLEAN
  BY KindFacts
<1> QED BY <1>1, <1>2, <1>3

(* A snug set is the choice. *)
LEMMA SnugChoice ==
    ASSUME NEW k \in Kinds, ~PinnedKind(k), NEW T \in SUBSET Nat, IsFiniteSet(T),
           NEW M \in Nat, NEW top \in Nat, top < M, NEW D, Snug(k, T, M, D)
    PROVE  Choice(k, T, top, M) = D
<1> DEFINE C == Choice(k, T, top, M)
<1>0. k.rev \in BOOLEAN /\ k.num \in Nat
  BY KindFacts
<1>1. CASE ~k.rev
  <2>1. Snug(k, T, M, C)
    BY <1>1, LowSnug
  <2> HIDE DEF C
  <2>2. C = D
    BY <1>1, <2>1, LowUnique DEF Snug
  <2> QED BY <2>2 DEF C
<1>2. CASE k.rev
  <2> DEFINE H == HighOf(k, T, top, M)
             m == HighTop(top, M)
             F == FreeBelow(T, m)
  <2>1. m \in Int /\ m >= top /\ m >= M - 1 /\ (m = top \/ m = M - 1)
        /\ Cardinality(H) <= k.num /\ Cardinality(H) \in Nat
    BY HighChoice
  <2>2. m = M - 1 /\ H = Highest(k.num, F)
    BY <2>1 DEF HighOf
  <2>3. /\ F \in SUBSET Nat /\ IsFiniteSet(F)
        /\ \A x : x \in F <=> (x \in Nat /\ x <= m /\ x \notin T)
    BY <2>1, FreeFacts
  <2> HIDE DEF m, F, H
  <2>4. D \in SUBSET F
    BY <1>2, <2>1, <2>2, <2>3 DEF Snug
  <2>5. Cardinality(F) >= k.num /\ Cardinality(F) \in Nat
    <3>1. Cardinality(D) = k.num
      BY DEF Snug
    <3>2. Cardinality(D) <= Cardinality(F)
      BY <2>3, <2>4, FS_Subset
    <3>3. Cardinality(F) \in Nat
      BY <2>3, FS_CardinalityType
    <3> QED BY <1>0, <3>1, <3>2, <3>3
  <2>6. Cardinality(H) < k.num => H = F
    BY <1>0, <2>2, <2>3, HighestAll
  <2>7. Cardinality(H) = k.num
    BY <1>0, <2>1, <2>5, <2>6
  <2>8. Snug(k, T, M, C)
    BY <1>2, <2>7, HighSnug DEF H
  <2> HIDE DEF C
  <2> DEFINE z == M - 1
  <2>9. z \in Int
    OBVIOUS
  <2>11. /\ IsFiniteSet(C) /\ Cardinality(C) = k.num /\ C \cap T = {}
         /\ C \in SUBSET (0 .. z) /\ \A x \in C : \A y \in x .. z : y \in T \cup C
    BY <1>2, <2>8 DEF Snug
  <2>12. /\ IsFiniteSet(D) /\ Cardinality(D) = k.num /\ D \cap T = {}
         /\ D \in SUBSET (0 .. z) /\ \A x \in D : \A y \in x .. z : y \in T \cup D
    BY <1>2 DEF Snug
  <2> HIDE DEF z
  <2>10. C = D
    BY <2>9, <2>11, <2>12, HighUnique
  <2> QED BY <2>10 DEF C
<1> QED BY <1>0, <1>1, <1>2
-----------------------------------------------------------------------------
(***************************************************************************)
(* Closing the gap around e: ids above it come down by d.                  *)
(***************************************************************************)
Down(e, d, x) == IF x < e THEN x ELSE x - d
Shifted(e, d, S) == {Down(e, d, x) : x \in S}

(* Below e the ids in use start at 0, above it they end at M - 1. *)
Sides(M, e, V) ==
    /\ V \in SUBSET (0 .. M - 1) /\ e \in 0 .. M - 1 /\ e \notin V
    /\ \A x \in V : x < e => 0 .. x \subseteq V
    /\ \A x \in V : x > e => x .. M - 1 \subseteq V

(* A coloring that leaves an id e below M free fills the ids from 0 on and
   those from M - 1 down. *)
LEMMA CanonSides ==
    ASSUME ReservedIds = {}, NEW q, IsShape(q), NEW M \in Nat, NEW e \in 0 .. M - 1,
           NEW R \in SUBSET Live(q), Used(Canon(q, M)[R]) \subseteq (0 .. M - 1) \ {e}
    PROVE  Sides(M, e, Used(Canon(q, M)[R]))
<1> DEFINE f == Canon(q, M)
           P == {S \in SUBSET Live(q) : Used(f[S]) \subseteq (0 .. M - 1) \ {e}
                                            => Sides(M, e, Used(f[S]))}
<1>1. {} \in P
  <2>1. Used(f[{}]) = {}
    BY FreshUsed, CanonEquations
  <2> QED BY <2>1 DEF Sides
<1>2. ASSUME NEW S \in SUBSET Live(q), S # {}, S \ {Lightest(q, S)} \in P
      PROVE  S \in P
  <2> SUFFICES ASSUME Used(f[S]) \subseteq (0 .. M - 1) \ {e}
               PROVE  Sides(M, e, Used(f[S]))
    OBVIOUS
  <2>1. PICK n, B, c : IsStep(q, M, S, n, B, c)
    BY <1>2, CanonStep
  <2> DEFINE k == q.kind[n]
             T == TakenIn(q, c, n)
             C == Chosen(q, M, c, n)
             V == Used(c)
             A == Used(f[S])
  <2>2. /\ k \in Kinds /\ T \in SUBSET Nat /\ IsFiniteSet(T) /\ c.top \in Nat
        /\ T \subseteq V /\ C = Choice(k, T, c.top, M) /\ A = V \cup C
        /\ B = S \ {Lightest(q, S)} /\ c = f[B] /\ B \in SUBSET Live(q)
    BY <2>1 DEF IsStep
  <2>3. Sides(M, e, V)
    BY <1>2, <2>2
  <2>4. ~PinnedKind(k)
    BY <2>2, NoPins
  <2>5. c.top < M
    <3>1. M > 0
      OBVIOUS
    <3>2. NoGap(M, c)
      BY <2>2, <3>1, CanonNoGap
    <3> QED BY <3>1, <3>2, <2>3 DEF NoGap, Sides
  <2> HIDE DEF k, T, C, V, A
  <2>6. e \notin T /\ e \notin C /\ A \in SUBSET (0 .. M - 1) /\ e \notin A
    BY <2>2 DEF A
  <2>7. Snug(k, T, M, C)
    BY <2>2, <2>4, <2>5, <2>6, GapSnug
  <2>8. ASSUME NEW x \in C
        PROVE  /\ x < e => 0 .. x \subseteq A
               /\ x > e => x .. M - 1 \subseteq A
    <3>1. x \in 0 .. M - 1
      BY <2>2, <2>6
    <3>2. CASE ~k.rev
      <4>1. 0 .. x \subseteq T \cup C
        BY <2>7, <3>2 DEF Snug
      <4>2. ~(x > e)
        BY <2>6, <3>1, <4>1
      <4> QED BY <2>2, <4>1, <4>2
    <3>3. CASE k.rev
      <4>1. x .. M - 1 \subseteq T \cup C
        BY <2>7, <3>3 DEF Snug
      <4>2. ~(x < e)
        BY <2>6, <3>1, <4>1
      <4> QED BY <2>2, <4>1, <4>2
    <3> QED BY <2>2, <3>2, <3>3, KindFacts
  <2>9. \A x \in A : /\ x < e => 0 .. x \subseteq A
                     /\ x > e => x .. M - 1 \subseteq A
    BY <2>2, <2>3, <2>8 DEF Sides
  <2>10. Sides(M, e, A)
    BY <2>6, <2>9 DEF Sides
  <2> QED BY <2>10 DEF A
<1>3. SUBSET Live(q) \subseteq P
  <2> HIDE DEF P
  <2> QED BY <1>1, <1>2, PeelInduction
<1> QED BY <1>3
-----------------------------------------------------------------------------
(* The numbers of an interval. *)
LEMMA IntervalSize ==
    ASSUME NEW a \in Int, NEW b \in Int, b >= a - 1
    PROVE  IsFiniteSet(a .. b) /\ Cardinality(a .. b) = b - a + 1
<1>1. IsFiniteSet(a .. b) /\ Cardinality(a .. b) = IF a > b THEN 0 ELSE b - a + 1
  BY FS_Interval
<1> QED BY <1>1

(* Coming down by the number of free ids fills 0 .. N - 1 one to one.      *)
LEMMA Squeeze ==
    ASSUME NEW M \in Nat, NEW e, NEW V, Sides(M, e, V), NEW N, N = Cardinality(V)
    PROVE  /\ N \in Nat /\ N < M
           /\ \A x \in V : Down(e, M - N, x) \in 0 .. N - 1
           /\ \A x, y \in V : x < e /\ y > e => x < y - (M - N)
<1>1. /\ V \in SUBSET (0 .. M - 1) /\ e \in 0 .. M - 1 /\ e \notin V
      /\ \A x \in V : x < e => 0 .. x \subseteq V
      /\ \A x \in V : x > e => x .. M - 1 \subseteq V
  BY DEF Sides
<1> DEFINE G == (0 .. M - 1) \ V
<1>2. G \in SUBSET Nat /\ G # {} /\ IsFiniteSet(G) /\ e \in G
  <2>1. IsFiniteSet(0 .. M - 1)
    BY FS_Interval
  <2> QED BY <1>1, <2>1, FS_Subset
<1>3. PICK a \in G : \A y \in G : a <= y
  <2> HIDE DEF G
  <2> QED BY <1>2, Least
<1>4. PICK z \in G : \A y \in G : y <= z
  <2> HIDE DEF G
  <2> QED BY <1>2, FiniteMax
<1>5. a \in Int /\ z \in Int /\ 0 <= a /\ a <= e /\ e <= z /\ z <= M - 1 /\ e \in Int
  BY <1>1, <1>2, <1>3, <1>4
<1>6. ASSUME NEW x \in V
      PROVE  x \in 0 .. a - 1 \/ x \in z + 1 .. M - 1
  <2>1. x \in 0 .. M - 1 /\ x # e
    BY <1>1
  <2>2. CASE x < e
    <3>1. 0 .. x \subseteq V
      BY <1>1, <2>2
    <3>2. a \notin 0 .. x
      BY <1>3, <3>1
    <3> QED BY <1>5, <2>1, <3>2
  <2>3. CASE x > e
    <3>1. x .. M - 1 \subseteq V
      BY <1>1, <2>3
    <3>2. z \notin x .. M - 1
      BY <1>4, <3>1
    <3> QED BY <1>5, <2>1, <3>2
  <2> QED BY <1>5, <2>1, <2>2, <2>3
<1>7. ASSUME NEW x \in (0 .. a - 1) \cup (z + 1 .. M - 1)
      PROVE  x \in V
  <2>1. x \in 0 .. M - 1
    BY <1>5
  <2>2. x < a \/ x > z
    BY <1>5
  <2>3. x \notin G
    BY <1>3, <1>4, <1>5, <2>1, <2>2
  <2> QED BY <2>1, <2>3
<1>8. V = (0 .. a - 1) \cup (z + 1 .. M - 1)
  BY <1>6, <1>7
<1> DEFINE A == 0 .. a - 1
           B == z + 1 .. M - 1
<1>9. IsFiniteSet(A) /\ Cardinality(A) = a
  <2> DEFINE w == a - 1
  <2>1. w \in Int /\ w >= 0 - 1 /\ w - 0 + 1 = a
    BY <1>5
  <2> HIDE DEF w
  <2>2. IsFiniteSet(0 .. w) /\ Cardinality(0 .. w) = w - 0 + 1
    BY <2>1, IntervalSize
  <2> QED BY <2>1, <2>2 DEF w
<1>10. IsFiniteSet(B) /\ Cardinality(B) = M - 1 - z
  <2> DEFINE v == z + 1
             w == M - 1
  <2>1. v \in Int /\ w \in Int /\ w >= v - 1 /\ w - v + 1 = M - 1 - z
    BY <1>5
  <2> HIDE DEF v, w
  <2>2. IsFiniteSet(v .. w) /\ Cardinality(v .. w) = w - v + 1
    BY <2>1, IntervalSize
  <2> QED BY <2>1, <2>2 DEF v, w
<1>11. A \cap B = {}
  BY <1>5
<1>12. N = a + (M - 1 - z)
  <2> HIDE DEF A, B
  <2>1. Cardinality(A \cup B) = Cardinality(A) + Cardinality(B) - Cardinality(A \cap B)
    BY <1>9, <1>10, FS_Union
  <2>2. Cardinality(A \cap B) = 0
    BY <1>11, FS_EmptySet
  <2> QED BY <1>5, <1>8, <1>9, <1>10, <2>1, <2>2 DEF A, B
<1>13. M - N = z + 1 - a /\ N \in Nat /\ N < M /\ a <= N
  BY <1>5, <1>12
<1>14. ASSUME NEW x \in V
       PROVE  x \in Int /\ (x < e => 0 <= x /\ x < a) /\ (~(x < e) => x >= z + 1 /\ x <= M - 1)
  BY <1>1, <1>5, <1>6
<1>15. ASSUME NEW x \in V
       PROVE  Down(e, M - N, x) \in 0 .. N - 1
  <2>1. CASE x < e
    BY <1>5, <1>13, <1>14, <2>1 DEF Down
  <2>2. CASE ~(x < e)
    BY <1>5, <1>13, <1>14, <2>2 DEF Down
  <2> QED BY <2>1, <2>2
<1>16. ASSUME NEW x \in V, NEW y \in V, x < e, y > e
       PROVE  x < y - (M - N)
  BY <1>5, <1>13, <1>14, <1>16
<1> QED BY <1>13, <1>15, <1>16

(* No two ids come down to the same. *)
LEMMA DownInjective ==
    ASSUME NEW M \in Nat, NEW e, NEW V, Sides(M, e, V), NEW N, N = Cardinality(V),
           NEW x \in V, NEW y \in V, Down(e, M - N, x) = Down(e, M - N, y)
    PROVE  x = y
<1>1. /\ N \in Nat /\ N < M
      /\ \A u, w \in V : u < e /\ w > e => u < w - (M - N)
  BY Squeeze
<1>2. x \in Int /\ y \in Int /\ e \in Int /\ x # e /\ y # e
  BY DEF Sides
<1>3. CASE x < e /\ y > e
  BY <1>1, <1>2, <1>3 DEF Down
<1>4. CASE x > e /\ y < e
  BY <1>1, <1>2, <1>4 DEF Down
<1>5. CASE ~(x < e /\ y > e) /\ ~(x > e /\ y < e)
  BY <1>1, <1>2, <1>5 DEF Down
<1> QED BY <1>3, <1>4, <1>5

(* Coming down keeps a snug choice snug.                                    *)
LEMMA ShiftSnug ==
    ASSUME NEW k \in Kinds, NEW M \in Nat, NEW e, NEW V, Sides(M, e, V),
           NEW N, N = Cardinality(V), NEW T \in SUBSET V, NEW C \in SUBSET V,
           Snug(k, T, M, C)
    PROVE  Snug(k, Shifted(e, M - N, T), N, Shifted(e, M - N, C))
<1> DEFINE d == M - N
           D == Shifted(e, d, C)
           S == Shifted(e, d, T)
<1>1. /\ N \in Nat /\ N < M /\ d \in Nat
      /\ \A x \in V : Down(e, d, x) \in 0 .. N - 1
  BY Squeeze
<1>2. \A x \in V, y \in V : Down(e, d, x) = Down(e, d, y) => x = y
  BY DownInjective
<1>3. /\ e \in Int /\ \A x \in V : x \in Int /\ x # e
      /\ V \in SUBSET (0 .. M - 1) /\ e \in 0 .. M - 1
  BY DEF Sides
<1>0. N = M - d
  BY <1>1
<1> HIDE DEF d
<1>4. D \in SUBSET Nat /\ D \in SUBSET (0 .. N - 1)
  BY <1>1 DEF Shifted
<1>5. D \cap S = {}
  <2>1. ASSUME NEW x \in C, NEW y \in T, Down(e, d, x) = Down(e, d, y)
        PROVE  FALSE
    <3>1. x = y
      BY <1>2, <2>1
    <3> QED BY <3>1 DEF Snug
  <2> QED BY <2>1 DEF Shifted
<1>6. IsFiniteSet(D) /\ Cardinality(D) = k.num
  <2> DEFINE f == [x \in C |-> Down(e, d, x)]
  <2>1. f \in [C -> D]
    BY DEF Shifted
  <2>2. f \in Surjection(C, D)
    BY <2>1 DEF Surjection, Shifted
  <2>3. f \in Injection(C, D)
    BY <1>2, <2>1 DEF Injection, IsInjective
  <2>4. IsFiniteSet(C) /\ Cardinality(C) = k.num
    BY DEF Snug
  <2> HIDE DEF f, D
  <2> QED BY <2>2, <2>3, <2>4, FS_Surjection
<1>7. ASSUME ~k.rev, NEW u \in D, NEW y \in 0 .. u
      PROVE  y \in S \cup D
  <2>1. PICK x \in C : u = Down(e, d, x)
    BY DEF Shifted
  <2>2. 0 .. x \subseteq T \cup C
    BY <1>7 DEF Snug
  <2>3. x < e
    <3>1. e \notin 0 .. x
      BY <1>3, <2>2
    <3> QED BY <1>3, <3>1
  <2>4. u = x /\ y \in 0 .. x /\ y < e
    BY <1>3, <2>1, <2>3 DEF Down
  <2>5. Down(e, d, y) = y
    BY <2>4 DEF Down
  <2>6. y \in T \cup C
    BY <2>2, <2>4
  <2> QED BY <2>5, <2>6 DEF Shifted
<1>8. ASSUME k.rev, NEW u \in D, NEW y \in u .. N - 1
      PROVE  y \in S \cup D
  <2>1. PICK x \in C : u = Down(e, d, x)
    BY DEF Shifted
  <2>2. x .. M - 1 \subseteq T \cup C
    BY <1>8 DEF Snug
  <2>3. x > e
    <3>1. e \notin x .. M - 1
      BY <1>3, <2>2
    <3> QED BY <1>3, <3>1
  <2>4. u = x - d
    BY <1>3, <2>1, <2>3 DEF Down
  <2>5. y + d \in x .. M - 1 /\ ~(y + d < e) /\ (y + d) - d = y
    BY <1>0, <1>1, <1>3, <2>3, <2>4
  <2>6. Down(e, d, y + d) = y
    BY <2>5 DEF Down
  <2>7. y + d \in T \cup C
    BY <2>2, <2>5
  <2> QED BY <2>6, <2>7 DEF Shifted
<1> HIDE DEF D, S
<1>9. Snug(k, S, N, D)
  BY <1>4, <1>5, <1>6, <1>7, <1>8 DEF Snug
<1> QED BY <1>9 DEF D, S, d
-----------------------------------------------------------------------------
(* All ids above e brought down by d. *)
ShiftIds(e, d, ids) == [n \in Slot |-> Shifted(e, d, ids[n])]

Over(c, A) == UNION {c.ids[m] : m \in A}

(* Bringing the ids of nodes down, one node at a time or together. *)
LEMMA ShiftedUnion ==
    ASSUME NEW e, NEW d, NEW c, NEW b, b.ids = ShiftIds(e, d, c.ids),
           NEW A \in SUBSET Slot
    PROVE  Over(b, A) = Shifted(e, d, Over(c, A))
<1>1. \A m \in Slot : b.ids[m] = Shifted(e, d, c.ids[m])
  BY DEF ShiftIds
<1>2. ASSUME NEW x \in Over(b, A)
      PROVE  x \in Shifted(e, d, Over(c, A))
  BY <1>1 DEF Shifted, Over
<1>3. ASSUME NEW x \in Shifted(e, d, Over(c, A))
      PROVE  x \in Over(b, A)
  <2>1. PICK m \in A : \E y \in c.ids[m] : x = Down(e, d, y)
    BY DEF Shifted, Over
  <2>2. x \in b.ids[m]
    BY <1>1, <2>1 DEF Shifted
  <2> QED BY <2>2 DEF Over
<1> QED BY <1>2, <1>3

(* Bringing all ids in use down. *)
LEMMA ShiftedUsed ==
    ASSUME NEW e, NEW d, NEW c, NEW b, b.ids = ShiftIds(e, d, c.ids)
    PROVE  Used(b) = Shifted(e, d, Used(c))
<1>1. Over(b, Slot) = Shifted(e, d, Over(c, Slot))
  BY ShiftedUnion
<1> QED BY <1>1 DEF Over, Used

(* The shrunk maximum gives every node the same ids, brought down.          *)
LEMMA ShiftCanon ==
    ASSUME ReservedIds = {}, NEW q, IsShape(q), NEW M \in Nat, NEW e, NEW V,
           Sides(M, e, V), NEW N, N = Cardinality(V),
           NEW R \in SUBSET Live(q), Used(Canon(q, M)[R]) \subseteq V
    PROVE  Canon(q, N)[R].ids = ShiftIds(e, M - N, Canon(q, M)[R].ids)
<1> DEFINE f == Canon(q, M)
           h == Canon(q, N)
           d == M - N
           P == {S \in SUBSET Live(q) : Used(f[S]) \subseteq V
                                            => h[S].ids = ShiftIds(e, d, f[S].ids)}
<1>0. /\ N \in Nat /\ N < M /\ \A x \in V : Down(e, d, x) \in 0 .. N - 1
      /\ V \in SUBSET (0 .. M - 1) /\ e \in 0 .. M - 1 /\ e \notin V /\ IsFiniteSet(V)
  <2>1. V \in SUBSET (0 .. M - 1) /\ e \in 0 .. M - 1 /\ e \notin V
    BY DEF Sides
  <2>2. IsFiniteSet(0 .. M - 1)
    BY FS_Interval
  <2>3. IsFiniteSet(V)
    BY <2>1, <2>2, FS_Subset
  <2> QED BY <2>1, <2>3, Squeeze
<1>1. {} \in P
  <2>1. Fresh.ids = ShiftIds(e, d, Fresh.ids)
    BY DEF Fresh, ShiftIds, Shifted
  <2> QED BY <2>1, CanonEquations
<1>2. ASSUME NEW S \in SUBSET Live(q), S # {}, S \ {Lightest(q, S)} \in P
      PROVE  S \in P
  <2> SUFFICES ASSUME Used(f[S]) \subseteq V
               PROVE  h[S].ids = ShiftIds(e, d, f[S].ids)
    OBVIOUS
  <2>1. PICK n, B, c : IsStep(q, M, S, n, B, c)
    BY <1>2, CanonStep
  <2>2. PICK n1, B1, b : IsStep(q, N, S, n1, B1, b)
    BY <1>0, <1>2, CanonStep
  <2>3. n1 = n /\ B1 = B
    BY <2>1, <2>2 DEF IsStep
  <2> DEFINE k == q.kind[n]
             T == TakenIn(q, c, n)
             C == Chosen(q, M, c, n)
             T1 == TakenIn(q, b, n)
             C1 == Chosen(q, N, b, n)
  <2>4. /\ k \in Kinds /\ T \in SUBSET Nat /\ IsFiniteSet(T) /\ c.top \in Nat
        /\ T \subseteq Used(c) /\ C = Choice(k, T, c.top, M)
        /\ Used(f[S]) = Used(c) \cup C
        /\ B = S \ {Lightest(q, S)} /\ c = f[B] /\ B \in SUBSET Live(q)
        /\ n \in Slot /\ n \in Live(q)
        /\ f[S] = Give(q, M, c, n) /\ IsColoring(q, B, c)
    BY <2>1 DEF IsStep
  <2>5. /\ T1 \in SUBSET Nat /\ IsFiniteSet(T1) /\ b.top \in Nat
        /\ C1 = Choice(k, T1, b.top, N) /\ b = h[B]
        /\ h[S] = Give(q, N, b, n) /\ IsColoring(q, B, b)
    BY <2>2, <2>3 DEF IsStep
  <2>6. b.ids = ShiftIds(e, d, c.ids)
    BY <1>2, <2>4, <2>5
  <2>7. Used(c) \subseteq V /\ T \in SUBSET V /\ C \in SUBSET V
    BY <2>4
  <2>8. T1 = Shifted(e, d, T)
    <3>1. Adjacent(q, n) \in SUBSET Slot
      BY DEF Adjacent, IsShape
    <3>2. Over(b, Adjacent(q, n)) = Shifted(e, d, Over(c, Adjacent(q, n)))
      <4> HIDE DEF d
      <4> QED BY <2>6, <3>1, ShiftedUnion
    <3>3. T1 = Over(b, Adjacent(q, n)) /\ T = Over(c, Adjacent(q, n))
      BY DEF TakenIn, Over
    <3> QED BY <3>2, <3>3
  <2>9. Used(b) = Shifted(e, d, Used(c))
    BY <2>6, ShiftedUsed
  <2>10. ~PinnedKind(k)
    BY <2>4, NoPins
  <2>11. c.top < M
    <3>1. M > 0
      BY <1>0
    <3>2. NoGap(M, c)
      BY <2>4, <3>1, CanonNoGap
    <3>3. \A x \in V : x < M
      BY <1>0
    <3> QED BY <2>7, <3>1, <3>2, <3>3 DEF NoGap
  <2> HIDE DEF k, T, C, T1, C1
  <2>12. e \notin T /\ e \notin C
    BY <1>0, <2>7
  <2>13. Snug(k, T, M, C)
    BY <1>0, <2>4, <2>10, <2>11, <2>12, GapSnug
  <2>14. N > 0
    <3>1. k.num \in Nat /\ k.num > 0 /\ Cardinality(C) = k.num
      BY <2>4, <2>13, KindFacts DEF Snug
    <3>2. Cardinality(C) <= N
      BY <1>0, <2>7, FS_Subset
    <3> QED BY <1>0, <3>1, <3>2
  <2>15. b.top < N
    <3>1. NoGap(N, b)
      BY <1>0, <2>4, <2>5, <2>14, CanonNoGap
    <3>2. \A x \in Used(b) : x \in 0 .. N - 1
      BY <1>0, <2>7, <2>9 DEF Shifted
    <3> HIDE DEF d
    <3> QED BY <1>0, <2>14, <3>1, <3>2 DEF NoGap
  <2>16. Snug(k, T1, N, Shifted(e, d, C))
    BY <2>4, <2>7, <2>8, <2>13, ShiftSnug
  <2>17. C1 = Shifted(e, d, C)
    BY <1>0, <2>4, <2>5, <2>10, <2>15, <2>16, SnugChoice
  <2>18. f[S].ids = [c.ids EXCEPT ![n] = C] /\ h[S].ids = [b.ids EXCEPT ![n] = C1]
    <3>1. Give(q, M, c, n).ids = [c.ids EXCEPT ![n] = C]
      BY DEF Give, C
    <3>2. Give(q, N, b, n).ids = [b.ids EXCEPT ![n] = C1]
      BY DEF Give, C1
    <3> QED BY <2>4, <2>5, <3>1, <3>2
  <2>19. c.ids \in [Slot -> SUBSET Nat] /\ b.ids \in [Slot -> SUBSET Nat]
    BY <2>4, <2>5 DEF IsColoring
  <2> HIDE DEF f, h, d
  <2>20. \A m \in Slot : h[S].ids[m] = Shifted(e, d, f[S].ids[m])
    <3>1. \A m \in Slot : b.ids[m] = Shifted(e, d, c.ids[m])
      BY <2>6 DEF ShiftIds
    <3>2. ASSUME NEW m \in Slot
          PROVE  h[S].ids[m] = Shifted(e, d, f[S].ids[m])
      <4>1. CASE m = n
        BY <2>4, <2>17, <2>18, <2>19, <4>1
      <4>2. CASE m # n
        BY <2>18, <2>19, <3>1, <4>2
      <4> QED BY <4>1, <4>2
    <3> QED BY <3>2
  <2>21. h[S].ids = [m \in Slot |-> h[S].ids[m]]
    BY <2>18, <2>19
  <2> QED BY <2>20, <2>21 DEF ShiftIds
<1>3. SUBSET Live(q) \subseteq P
  <2> HIDE DEF P
  <2> QED BY <1>1, <1>2, PeelInduction
<1> QED BY <1>3

(* So a coloring that fits still fits when the maximum is the number of ids
   it uses. *)
LEMMA ShrinkFits ==
    ASSUME ReservedIds = {}, NEW q, IsShape(q), NEW M \in Nat,
           Within(M, Canon(q, M)[Live(q)]),
           NEW N, N = Cardinality(Used(Canon(q, M)[Live(q)]))
    PROVE  N \in Nat /\ N <= M /\ Within(N, Canon(q, N)[Live(q)])
<1> DEFINE V == Used(Canon(q, M)[Live(q)])
           I == 0 .. M - 1
<1>1. IsFiniteSet(I) /\ Cardinality(I) = M
  <2> DEFINE w == M - 1
  <2>1. w \in Int /\ w >= 0 - 1 /\ w - 0 + 1 = M
    OBVIOUS
  <2> HIDE DEF w
  <2>2. IsFiniteSet(0 .. w) /\ Cardinality(0 .. w) = w - 0 + 1
    BY <2>1, IntervalSize
  <2> QED BY <2>1, <2>2 DEF w
<1>2. V \in SUBSET I
  BY DEF Within
<1>3. N = Cardinality(V)
  OBVIOUS
<1> HIDE DEF I, V
<1>4. N \in Nat /\ N <= M /\ (N = M => V = I)
  BY <1>1, <1>2, <1>3, FS_Subset, FS_CardinalityType
<1>5. CASE V = I
  <2>1. N = M
    BY <1>1, <1>3, <1>5
  <2> QED BY <1>4, <2>1
<1>6. CASE V # I
  <2>1. PICK e \in I : e \notin V
    BY <1>2, <1>6
  <2>2. e \in 0 .. M - 1 /\ V \subseteq (0 .. M - 1) \ {e}
    BY <1>2, <2>1 DEF I
  <2>3. Sides(M, e, V)
    BY <2>2, CanonSides DEF V
  <2>4. Canon(q, N)[Live(q)].ids = ShiftIds(e, M - N, Canon(q, M)[Live(q)].ids)
    BY <1>3, <2>3, ShiftCanon DEF V
  <2>5. Used(Canon(q, N)[Live(q)]) = Shifted(e, M - N, V)
    BY <2>4, ShiftedUsed DEF V
  <2>6. \A x \in V : Down(e, M - N, x) \in 0 .. N - 1
    BY <1>3, <2>3, Squeeze
  <2>7. Within(N, Canon(q, N)[Live(q)])
    BY <2>5, <2>6 DEF Within, Shifted
  <2> QED BY <1>4, <2>7
<1> QED BY <1>5, <1>6

(* Without reversed pairs the maximum makes no difference. *)
LEMMA SameForAll ==
    ASSUME \A k \in Kinds : ~k.rev, NEW q, IsShape(q), NEW M \in Nat, NEW N \in Nat
    PROVE  Canon(q, M)[Live(q)] = Canon(q, N)[Live(q)]
<1> DEFINE f == Canon(q, M)
           h == Canon(q, N)
           P == {S \in SUBSET Live(q) : f[S] = h[S]}
<1>1. {} \in P
  BY CanonEquations
<1>2. ASSUME NEW S \in SUBSET Live(q), S # {}, S \ {Lightest(q, S)} \in P
      PROVE  S \in P
  <2> DEFINE n == Lightest(q, S)
             c == f[S \ {n}]
  <2>1. n \in S /\ f[S] = Give(q, M, c, n) /\ h[S] = Give(q, N, h[S \ {n}], n)
    BY <1>2, CanonEquations
  <2>2. h[S \ {n}] = c
    BY <1>2
  <2>3. ~q.kind[n].rev
    BY <2>1 DEF IsShape
  <2> HIDE DEF n, c, f, h
  <2>4. Give(q, M, c, n) = Give(q, N, c, n)
    BY <2>3 DEF Give, Chosen, Choice, LastOf
  <2>5. f[S] = h[S]
    BY <2>1, <2>2, <2>4
  <2> QED BY <2>5
<1>3. SUBSET Live(q) \subseteq P
  <2> HIDE DEF P
  <2> QED BY <1>1, <1>2, PeelInduction
<1> QED BY <1>3
-----------------------------------------------------------------------------
(***************************************************************************)
(* What the graph of the solver has to do with these colorings.            *)
(***************************************************************************)
SumsRight(h)   == \A n \in Live(h) : h.sum[n] = W(Shape(h), Adjacent(h, n))
Whole(h, M)    == Canon(Shape(h), M)[Live(h)]
Matches(h, M)  == \A n \in Live(h) : h.ids[n] = Whole(h, M).ids[n]
Fits(h)        == Within(HwEventIdNum, Whole(h, HwEventIdNum))

(* The nodes left after i steps of the ordering s, and an ordering that takes
   the lightest node every time. *)
Rest(q, s, i) == Live(q) \ {s[j] : j \in 1 .. i}
Peeled(q, s)  == \A i \in 1 .. Len(s) : IsLightest(q, Rest(q, s, i - 1), s[i])

(* The shape of a well-formed graph is one. *)
LEMMA GoodShape ==
    ASSUME NEW h \in GoodGraph
    PROVE  /\ IsShape(Shape(h)) /\ Live(Shape(h)) = Live(h)
           /\ Shape(h).kind = h.kind /\ Shape(h).adj = h.adj
           /\ Live(h) \in SUBSET Slot
           /\ \A n : Adjacent(Shape(h), n) = Adjacent(h, n)
<1>1. /\ GraphOK(h) /\ h.count \in Nat
      /\ \A n \in Live(h) : n \in Slot /\ h.kind[n] \in Kinds
  BY GoodParts
<1>2. /\ Live(Shape(h)) = Live(h) /\ Shape(h).kind = h.kind /\ Shape(h).adj = h.adj
      /\ \A n : Adjacent(Shape(h), n) = Adjacent(h, n)
  BY DEF Shape, Live, Adjacent
<1>3. IsFiniteSet(Live(h)) /\ Live(h) \in SUBSET Slot
  BY <1>1, FS_Interval DEF Live
<1>4. \A a, b \in Live(h) : a \in Adjacent(h, b) <=> b \in Adjacent(h, a)
  BY <1>1 DEF GraphOK, Adjacent
<1>5. \A n \in Live(h) : n \notin Adjacent(h, n)
  BY <1>1 DEF GraphOK, Adjacent
<1>6. IsShape(Shape(h))
  BY <1>1, <1>2, <1>3, <1>4, <1>5 DEF IsShape
<1> QED BY <1>2, <1>3, <1>6

(* Two graphs of the same structure have one shape, one coloring and one
   degree sum for each node. *)
LEMMA SameStructure ==
    ASSUME NEW h, NEW w, h.count = w.count, h.kind = w.kind, h.adj = w.adj
    PROVE  /\ Shape(h) = Shape(w) /\ Live(h) = Live(w)
           /\ \A n : Adjacent(h, n) = Adjacent(w, n)
           /\ Fits(h) <=> Fits(w)
           /\ \A M : Whole(h, M) = Whole(w, M)
           /\ h.sum = w.sum => (SumsRight(h) <=> SumsRight(w))
<1>1. Shape(h) = Shape(w) /\ Live(h) = Live(w)
  BY DEF Shape, Live
<1>2. \A n : Adjacent(h, n) = Adjacent(w, n)
  BY <1>1 DEF Adjacent
<1>3. \A M : Whole(h, M) = Whole(w, M)
  BY <1>1 DEF Whole
<1>4. Fits(h) <=> Fits(w)
  BY <1>3 DEF Fits
<1>5. ASSUME h.sum = w.sum
      PROVE  SumsRight(h) <=> SumsRight(w)
  BY <1>1, <1>2, <1>5 DEF SumsRight
<1> QED BY <1>1, <1>2, <1>3, <1>4, <1>5

(* A graph with the ids of its coloring uses the ids the coloring does. *)
LEMMA MatchUsed ==
    ASSUME NEW h \in GoodGraph, NEW M \in Nat, Matches(h, M)
    PROVE  UsedIds(h) = Used(Whole(h, M))
<1> DEFINE c == Whole(h, M)
<1>1. IsColoring(Shape(h), Live(h), c) /\ Live(h) \in SUBSET Slot
  <2>1. /\ IsShape(Shape(h)) /\ Live(Shape(h)) = Live(h) /\ Live(h) \in SUBSET Slot
    BY GoodShape
  <2>2. IsColoring(Shape(h), Live(Shape(h)), Canon(Shape(h), M)[Live(Shape(h))])
    BY <2>1, CanonColoring
  <2> QED BY <2>1, <2>2 DEF Whole
<1>2. \A n \in Live(h) : h.ids[n] = c.ids[n]
  BY DEF Matches
<1> HIDE DEF c
<1>3. \A n \in Slot \ Live(h) : c.ids[n] = {}
  BY <1>1 DEF IsColoring
<1>4. Used(c) = UsedIds(h)
  BY <1>1, <1>2, <1>3 DEF Used, UsedIds
<1> QED BY <1>4 DEF c

(* The ids of a graph are finitely many numbers. *)
LEMMA UsedFinite ==
    ASSUME NEW h \in GoodGraph
    PROVE  /\ UsedIds(h) \in SUBSET Nat /\ IsFiniteSet(UsedIds(h))
           /\ Cardinality(UsedIds(h)) \in Nat
<1>1. Live(h) \in SUBSET Slot
  BY GoodShape
<1>2. UsedIds(h) \in SUBSET Nat /\ IsFiniteSet(UsedIds(h))
  BY <1>1, NeighboursFinite DEF UsedIds
<1> QED BY <1>2, FS_CardinalityType
-----------------------------------------------------------------------------
(* addNode: the new node has no neighbours. *)
LEMMA GrowNode ==
    ASSUME NEW h \in GoodGraph, h.count < MaxNodes, NEW k \in Kinds,
           NEW w \in GoodGraph, w.count = h.count + 1,
           w.kind[h.count + 1] = k, \A m \in Live(h) : w.kind[m] = h.kind[m],
           w.adj = h.adj
    PROVE  /\ w.sum = h.sum /\ SumsRight(h) => SumsRight(w)
           /\ k.num <= HwEventIdNum =>
                  Grows(Shape(h), Shape(w), HwEventIdNum, {h.count + 1})
<1> DEFINE n == h.count + 1
           q == Shape(h)
           r == Shape(w)
<1>1. /\ h.count \in Nat /\ n \in Slot /\ n \notin Live(h)
      /\ Live(w) = Live(h) \cup {n} /\ Live(h) \in SUBSET Slot
  BY SolverAssumption, GoodParts, GoodShape DEF Live, Slot
<1>2. /\ GraphOK(h)
      /\ h.adj \in [Slot -> [Slot -> Nat]]
  BY GoodParts DEF Parts
<1>3. w.kind[n] = k /\ \A m \in Live(h) : w.kind[m] = h.kind[m]
  OBVIOUS
<1>4. \A m \in Slot : ~(h.adj[n][m] > 0) /\ ~(h.adj[m][n] > 0)
  BY <1>1, <1>2 DEF GraphOK
<1>5. Adjacent(w, n) = {} /\ \A m \in Live(h) : Adjacent(w, m) = Adjacent(h, m)
  <2>1. Adjacent(w, n) = {}
    BY <1>1, <1>4 DEF Adjacent
  <2>2. ASSUME NEW m \in Live(h)
        PROVE  Adjacent(w, m) = Adjacent(h, m)
    BY <1>1, <1>4 DEF Adjacent
  <2> QED BY <2>1, <2>2
<1>6. /\ Live(q) = Live(h) /\ q.kind = h.kind /\ \A m : Adjacent(q, m) = Adjacent(h, m)
      /\ Live(r) = Live(w) /\ r.kind = w.kind /\ \A m : Adjacent(r, m) = Adjacent(w, m)
  BY GoodShape
<1>7. ASSUME w.sum = h.sum, SumsRight(h)
      PROVE  SumsRight(w)
  <2>1. w.sum[n] = W(r, Adjacent(w, n))
    <3>1. h.sum[n] = 0
      BY <1>1, <1>2 DEF GraphOK
    <3> HIDE DEF n, r
    <3> QED BY <1>5, <1>7, <3>1, WeightEmpty
  <2>2. ASSUME NEW m \in Live(h)
        PROVE  w.sum[m] = W(r, Adjacent(w, m))
    <3>1. \A x \in Adjacent(h, m) : q.kind[x] = r.kind[x]
      BY <1>3, <1>6 DEF Adjacent
    <3> HIDE DEF q, r, n
    <3>2. W(q, Adjacent(h, m)) = W(r, Adjacent(h, m))
      BY <3>1, AgreeWeight
    <3>3. h.sum[m] = W(q, Adjacent(h, m))
      BY <1>7 DEF SumsRight, q
    <3> QED BY <1>5, <1>7, <3>2, <3>3
  <2> QED BY <1>1, <2>1, <2>2 DEF SumsRight
<1>8. ASSUME k.num <= HwEventIdNum
      PROVE  Grows(q, r, HwEventIdNum, {n})
  <2>1. Val(r, n, Live(r)) = k.num + W(r, {})
    BY <1>3, <1>5, <1>6 DEF Val
  <2>2. Val(r, n, Live(r)) <= HwEventIdNum
    <3>1. k.num \in Nat
      BY KindFacts
    <3> HIDE DEF r, n
    <3>2. W(r, {}) = 0
      BY WeightEmpty
    <3> QED BY <1>8, <2>1, <3>1, <3>2
  <2> HIDE DEF q, r, n
  <2> QED BY <1>1, <1>3, <1>5, <1>6, <2>2 DEF Grows
<1> QED BY <1>7, <1>8

(* One more edge between a and b: their sums grow by what the other asks for
   unless they were neighbours already. *)
LEMMA GrowEdge ==
    ASSUME NEW h \in GoodGraph, NEW a \in Live(h), NEW b \in Live(h), a # b,
           SumsRight(h)
    PROVE  /\ SumsRight(WithEdge(h, a, b))
           /\ WithEdge(h, a, b).kind = h.kind /\ WithEdge(h, a, b).ids = h.ids
           /\ WithEdge(h, a, b).sum[a] + h.kind[a].num <= HwEventIdNum
                  /\ WithEdge(h, a, b).sum[b] + h.kind[b].num <= HwEventIdNum
              => Grows(Shape(h), Shape(WithEdge(h, a, b)), HwEventIdNum, {a, b})
<1> DEFINE w == WithEdge(h, a, b)
           q == Shape(h)
           r == Shape(w)
<1>1. /\ GraphOK(h) /\ a \in Slot /\ b \in Slot
      /\ h.adj \in [Slot -> [Slot -> Nat]] /\ h.sum \in [Slot -> Int]
      /\ h = Build(h.count, h.kind, h.adj, h.sum, h.owner, h.ids, h.stale)
  BY GoodParts DEF Parts
<1>2. /\ w.kind = h.kind /\ w.ids = h.ids /\ w.count = h.count
      /\ w.adj = Bump(h.adj, a, b, 1)
      /\ w.sum = [h.sum EXCEPT ![a] = h.sum[a] + Gain(h, a, b, 0),
                               ![b] = h.sum[b] + Gain(h, b, a, 0)]
  <2> DEFINE adj == Bump(h.adj, a, b, 1)
             sum == [h.sum EXCEPT ![a] = h.sum[a] + Gain(h, a, b, 0),
                                  ![b] = h.sum[b] + Gain(h, b, a, 0)]
  <2>1. w = SetEdges(h, adj, sum)
    BY DEF WithEdge, SetEdges
  <2> HIDE DEF adj, sum, w
  <2>2. w = Build(h.count, h.kind, adj, sum, h.owner, h.ids, h.stale)
    BY <1>1, <2>1, EdgeFields
  <2> QED BY <2>2 DEF Build, adj, sum
<1>3. w \in GoodGraph
  BY EdgeChange
<1>4. /\ Live(q) = Live(h) /\ q.kind = h.kind /\ \A m : Adjacent(q, m) = Adjacent(h, m)
      /\ Live(r) = Live(w) /\ r.kind = w.kind /\ \A m : Adjacent(r, m) = Adjacent(w, m)
      /\ IsShape(r)
  <2> HIDE DEF w
  <2> QED BY <1>3, GoodShape
<1>5. Live(w) = Live(h) /\ Live(h) \in SUBSET Slot
  BY <1>2, GoodShape DEF Live
<1>6. /\ w.adj[a][b] = h.adj[a][b] + 1 /\ w.adj[b][a] = h.adj[b][a] + 1
      /\ \A x, y \in Slot : <<x, y>> \notin {<<a, b>>, <<b, a>>} => w.adj[x][y] = h.adj[x][y]
  BY <1>1, <1>2 DEF Bump
<1> HIDE DEF w
<1>7. /\ Adjacent(w, a) = Adjacent(h, a) \cup {b}
      /\ Adjacent(w, b) = Adjacent(h, b) \cup {a}
      /\ \A m \in Live(h) \ {a, b} : Adjacent(w, m) = Adjacent(h, m)
  <2>1. h.adj[a][b] \in Nat /\ h.adj[b][a] \in Nat
    BY <1>1
  <2>2. ASSUME NEW x \in Live(h), NEW y \in Live(h)
        PROVE  y \in Adjacent(w, x) <=> (y \in Adjacent(h, x) \/ <<x, y>> \in {<<a, b>>, <<b, a>>})
    BY <1>5, <1>6, <2>1 DEF Adjacent
  <2>3. \A x : Adjacent(w, x) \subseteq Live(h) /\ Adjacent(h, x) \subseteq Live(h)
    BY <1>5 DEF Adjacent
  <2>4. Adjacent(w, a) = Adjacent(h, a) \cup {b}
    BY <2>2, <2>3
  <2>5. Adjacent(w, b) = Adjacent(h, b) \cup {a}
    BY <2>2, <2>3
  <2>6. \A m \in Live(h) \ {a, b} : Adjacent(w, m) = Adjacent(h, m)
    BY <2>2, <2>3
  <2> QED BY <2>4, <2>5, <2>6
<1>8. /\ w.sum[a] = h.sum[a] + Gain(h, a, b, 0) /\ w.sum[b] = h.sum[b] + Gain(h, b, a, 0)
      /\ \A m \in Live(h) \ {a, b} : w.sum[m] = h.sum[m]
  BY <1>1, <1>2, <1>5
<1> HIDE DEF q, r
<1>9. \A S : W(q, S) = W(r, S)
  BY <1>2, <1>4, AgreeWeight
<1>10. \A m \in Live(h) : h.sum[m] = W(r, Adjacent(h, m))
  BY <1>9 DEF SumsRight, q
<1>11. ASSUME NEW x \in Live(h), NEW y \in Live(h), x # y
       PROVE  h.sum[x] + Gain(h, x, y, 0) = W(r, Adjacent(h, x) \cup {y})
  <2>1. h.adj[x][y] \in Nat /\ h.sum[x] = W(r, Adjacent(h, x)) /\ h.sum[x] \in Int
    BY <1>1, <1>5, <1>10
  <2>2. CASE h.adj[x][y] = 0
    <3>1. y \notin Adjacent(h, x) /\ Gain(h, x, y, 0) = h.kind[y].num
      BY <2>2 DEF Adjacent, Gain
    <3> DEFINE S == Adjacent(h, x) \cup {y}
    <3>2. S \in SUBSET Live(r) /\ y \in S /\ S \ {y} = Adjacent(h, x)
      BY <1>4, <1>5, <3>1 DEF Adjacent
    <3> HIDE DEF S
    <3>3. W(r, S) = W(r, S \ {y}) + r.kind[y].num
      BY <1>4, <3>2, WeightStep
    <3> QED BY <1>2, <1>4, <2>1, <3>1, <3>2, <3>3 DEF S
  <2>3. CASE h.adj[x][y] # 0
    <3>1. y \in Adjacent(h, x) /\ Gain(h, x, y, 0) = 0
      BY <2>1, <2>3 DEF Adjacent, Gain
    <3>2. Adjacent(h, x) \cup {y} = Adjacent(h, x)
      BY <3>1
    <3>3. h.sum[x] + Gain(h, x, y, 0) = h.sum[x]
      BY <2>1, <3>1
    <3> QED BY <2>1, <3>2, <3>3
  <2> QED BY <2>2, <2>3
<1>12. SumsRight(w)
  <2>1. w.sum[a] = W(r, Adjacent(w, a)) /\ w.sum[b] = W(r, Adjacent(w, b))
    BY <1>7, <1>8, <1>11
  <2>2. \A m \in Live(h) \ {a, b} : w.sum[m] = W(r, Adjacent(w, m))
    BY <1>7, <1>8, <1>10
  <2> QED BY <1>5, <2>1, <2>2 DEF SumsRight, r
<1>13. ASSUME w.sum[a] + h.kind[a].num <= HwEventIdNum,
              w.sum[b] + h.kind[b].num <= HwEventIdNum
       PROVE  Grows(q, r, HwEventIdNum, {a, b})
  <2>1. ASSUME NEW x \in {a, b}
        PROVE  Val(r, x, Live(r)) <= HwEventIdNum
    <3>1. x \in Live(h) /\ w.sum[x] = W(r, Adjacent(w, x))
      BY <1>5, <1>12 DEF SumsRight, r
    <3>2. Adjacent(r, x) \cap Live(r) = Adjacent(w, x)
      BY <1>4 DEF Adjacent
    <3>3. Val(r, x, Live(r)) = h.kind[x].num + w.sum[x]
      BY <1>2, <1>4, <3>1, <3>2 DEF Val
    <3>4. h.kind[x].num \in Nat /\ w.sum[x] \in Int
      <4>1. h.kind[x] \in Kinds
        BY <3>1, GoodParts
      <4>2. w.sum \in [Slot -> Int]
        BY <1>3, GoodParts DEF Parts
      <4> QED BY <1>5, <3>1, <4>1, <4>2, KindFacts
    <3>5. w.sum[x] + h.kind[x].num <= HwEventIdNum
      BY <1>13
    <3> QED BY <3>3, <3>4, <3>5
  <2> QED BY <1>2, <1>4, <1>5, <1>7, <2>1 DEF Grows
<1> QED BY <1>2, <1>12, <1>13 DEF w, q, r
-----------------------------------------------------------------------------
(***************************************************************************)
(* What the steps leave of the graph.                                      *)
(***************************************************************************)
Kept == g'.count = g.count /\ g'.kind = g.kind /\ g'.adj = g.adj /\ g'.sum = g.sum

(* Assigning ids, the flag or a pair changes neither nodes nor edges. *)
LEMMA FieldsKept ==
    ASSUME NEW h, h = Build(h.count, h.kind, h.adj, h.sum, h.owner, h.ids, h.stale),
           NEW n, NEW s
    PROVE  /\ WithIds(h, n, s) = Build(h.count, h.kind, h.adj, h.sum, h.owner,
                                       [h.ids EXCEPT ![n] = s], h.stale)
           /\ WithStale(h, s) = Build(h.count, h.kind, h.adj, h.sum, h.owner, h.ids, s)
           /\ WithPair(h, n, s) = Build(h.count, h.kind, h.adj, h.sum,
                                        [h.owner EXCEPT ![s] = n], h.ids, h.stale)
<1> DEFINE ids == [h.ids EXCEPT ![n] = s]
           owner == [h.owner EXCEPT ![s] = n]
<1>1. /\ WithIds(h, n, s) = [h EXCEPT !.ids = ids]
      /\ WithStale(h, s) = [h EXCEPT !.stale = s]
      /\ WithPair(h, n, s) = [h EXCEPT !.owner = owner]
  BY DEF WithIds, WithStale, WithPair
<1> HIDE DEF ids, owner
<1>2. [h EXCEPT !.ids = ids]
         = Build(h.count, h.kind, h.adj, h.sum, h.owner, ids, h.stale)
  BY DEF Build
<1>3. [h EXCEPT !.stale = s]
         = Build(h.count, h.kind, h.adj, h.sum, h.owner, h.ids, s)
  BY DEF Build
<1>4. [h EXCEPT !.owner = owner]
         = Build(h.count, h.kind, h.adj, h.sum, owner, h.ids, h.stale)
  BY DEF Build
<1> QED BY <1>1, <1>2, <1>3, <1>4 DEF ids, owner

(* The logged changes of calcEventIds, and of a pair. *)
LEMMA ChangeKept ==
    ASSUME g \in GoodGraph, NEW n, NEW s, NEW e
    PROVE  /\ AssignIds(n, s) => Kept /\ g'.stale = g.stale
           /\ AssignNeedRecalc(s) => Kept /\ g'.ids = g.ids
           /\ Do(e, WithPair(g, n, s)) => Kept /\ g'.ids = g.ids /\ g'.stale = g.stale
<1>1. g = Build(g.count, g.kind, g.adj, g.sum, g.owner, g.ids, g.stale)
  BY GoodParts
<1>2. AssignIds(n, s) => g' = g \/ g' = WithIds(g, n, s)
  BY DEF AssignIds, Do, SameGraph
<1>3. AssignNeedRecalc(s) => g' = g \/ g' = WithStale(g, s)
  BY DEF AssignNeedRecalc, Do, SameGraph
<1>4. Do(e, WithPair(g, n, s)) => g' = WithPair(g, n, s)
  BY DEF Do
<1>5. /\ WithIds(g, n, s) = Build(g.count, g.kind, g.adj, g.sum, g.owner,
                                  [g.ids EXCEPT ![n] = s], g.stale)
      /\ WithStale(g, s) = Build(g.count, g.kind, g.adj, g.sum, g.owner, g.ids, s)
      /\ WithPair(g, n, s) = Build(g.count, g.kind, g.adj, g.sum,
                                   [g.owner EXCEPT ![s] = n], g.ids, g.stale)
  BY <1>1, FieldsKept
<1>6. AssignIds(n, s) => Kept /\ g'.stale = g.stale
  <2> DEFINE ids == [g.ids EXCEPT ![n] = s]
  <2>1. WithIds(g, n, s) = Build(g.count, g.kind, g.adj, g.sum, g.owner, ids, g.stale)
    BY <1>5
  <2> HIDE DEF ids
  <2> QED BY <1>2, <2>1 DEF Kept, Build
<1>7. AssignNeedRecalc(s) => Kept /\ g'.ids = g.ids
  BY <1>3, <1>5 DEF Kept, Build
<1>8. Do(e, WithPair(g, n, s)) => Kept /\ g'.ids = g.ids /\ g'.stale = g.stale
  <2> DEFINE owner == [g.owner EXCEPT ![s] = n]
  <2>1. WithPair(g, n, s) = Build(g.count, g.kind, g.adj, g.sum, owner, g.ids, g.stale)
    BY <1>5
  <2> HIDE DEF owner
  <2> QED BY <1>4, <2>1 DEF Kept, Build
<1> QED BY <1>6, <1>7, <1>8

(* createNode adds a node and gives it the ids from 0 on. *)
LEMMA NodeAdded ==
    ASSUME g \in GoodGraph, NEW k \in Kinds, NEW p \in Pair, CreateNode(k, p)
    PROVE  /\ g'.count = g.count + 1 /\ g'.kind[g.count + 1] = k
           /\ \A m \in Live(g) : g'.kind[m] = g.kind[m]
           /\ g'.adj = g.adj /\ g'.sum = g.sum
           /\ g'.ids[g.count + 1] = 0 .. k.num - 1
<1> DEFINE n == g.count + 1
           kind == [g.kind EXCEPT ![n] = k]
           h1 == WithNode(g, k)
           h2 == WithPair(h1, n, p)
           s == 0 .. k.num - 1
<1>1. g = Build(g.count, g.kind, g.adj, g.sum, g.owner, g.ids, g.stale)
  BY GoodParts
<1>2. g' = WithIds(h2, n, s)
  BY DEF CreateNode
<1>3. h1 = Build(n, kind, g.adj, g.sum, g.owner, g.ids, g.stale)
  <2>1. h1 = [g EXCEPT !.count = n, !.kind = kind]
    BY DEF WithNode
  <2> HIDE DEF n, kind, h1
  <2> QED BY <1>1, <2>1 DEF Build
<1> HIDE DEF h1
<1>4. h2 = Build(n, kind, g.adj, g.sum, [g.owner EXCEPT ![p] = n], g.ids, g.stale)
  <2>1. /\ h1.count = n /\ h1.kind = kind /\ h1.adj = g.adj /\ h1.sum = g.sum
        /\ h1.owner = g.owner /\ h1.ids = g.ids /\ h1.stale = g.stale
    BY <1>3 DEF Build
  <2>2. h2 = Build(h1.count, h1.kind, h1.adj, h1.sum, [h1.owner EXCEPT ![p] = n], h1.ids, h1.stale)
    <3> HIDE DEF n, kind
    <3>1. h1 = Build(h1.count, h1.kind, h1.adj, h1.sum, h1.owner, h1.ids, h1.stale)
      BY <1>3, <2>1
    <3> QED BY <3>1, FieldsKept
  <2> QED BY <2>1, <2>2
<1> DEFINE owner == [g.owner EXCEPT ![p] = n]
<1>5. h2 = Build(n, kind, g.adj, g.sum, owner, g.ids, g.stale)
  BY <1>4
<1> HIDE DEF h2, owner, kind, n, s
<1>6. /\ h2.count = n /\ h2.kind = kind /\ h2.adj = g.adj /\ h2.sum = g.sum
      /\ h2.owner = owner /\ h2.ids = g.ids /\ h2.stale = g.stale
  BY <1>5 DEF Build
<1> DEFINE ids == [g.ids EXCEPT ![n] = s]
<1>7. g' = [h2 EXCEPT !.ids = ids]
  BY <1>2, <1>6 DEF WithIds
<1> HIDE DEF ids
<1>8. g' = Build(n, kind, g.adj, g.sum, owner, ids, g.stale)
  BY <1>5, <1>7 DEF Build
<1>9. g'.count = n /\ g'.kind = kind /\ g'.adj = g.adj /\ g'.sum = g.sum /\ g'.ids = ids
  BY <1>8 DEF Build
<1>10. /\ n \in Slot /\ g.ids \in [Slot -> SUBSET Nat]
       /\ g.kind \in [Slot -> Kinds \cup {Blank}]
       /\ \A m \in Live(g) : m \in Slot /\ m # n
  BY SolverAssumption, GoodParts DEF n, Parts, Slot, Live, CreateNode
<1>11. kind[n] = k /\ (\A m \in Live(g) : kind[m] = g.kind[m]) /\ ids[n] = s
  BY <1>10 DEF kind, ids
<1> QED BY <1>9, <1>11 DEF n, s

(* A step of calcEventIds stays in it or returns, and keeps nodes, edges and
   the maximum. *)
LEMMA CalcMoves ==
    ASSUME IInv, CalcEventIds
    PROVE  /\ pc \in Calculating /\ calc.ret \in {"judge", "resize", "finish"}
           /\ \/ pc' \in Calculating /\ calc'.ret = calc.ret
              \/ pc' = calc.ret
           /\ UNCHANGED <<maxNum, reserved>> /\ Kept
<1>1. g \in GoodGraph /\ calc \in CalcType(calc.next)
  BY DEF IInv, History, Locals
<1>2. pc \in Calculating
  BY DEF CalcEventIds, ClearIds, ClearDone, PeelNode, PeelDone, ColorNode,
     ColorDone, RobinNode, RobinDone, Calculating
<1>3. calc.ret \in {"judge", "resize", "finish"}
  BY <1>1, <1>2 DEF IInv, CalcType, Placed
<1>4. UNCHANGED <<maxNum, reserved>>
  BY DEF CalcEventIds, ClearIds, ClearDone, PeelNode, PeelDone, ColorNode,
     ColorDone, RobinNode, RobinDone
<1>5. Kept
  <2>1. CASE ClearDone \/ PeelNode \/ PeelDone
    BY <2>1 DEF ClearDone, PeelNode, PeelDone, Kept
  <2>2. CASE ~(ClearDone \/ PeelNode \/ PeelDone)
    <3>1. (\E n, s : AssignIds(n, s)) \/ AssignNeedRecalc(FALSE)
      BY <2>2 DEF CalcEventIds, ClearIds, ColorNode, ColorDone, RobinNode, RobinDone
    <3> QED BY <1>1, <3>1, ChangeKept
  <2> QED BY <2>1, <2>2
<1>6. \/ pc' \in Calculating /\ calc'.ret = calc.ret
      \/ pc' = calc.ret
  <2> USE DEF Calculating
  <2>1. CASE ClearIds
    <3>1. pc' = pc /\ \E x : calc' = [calc EXCEPT !.left = x]
      BY <2>1 DEF ClearIds
    <3> QED BY <1>1, <1>2, <3>1 DEF CalcType
  <2>2. CASE ClearDone
    <3>1. pc' \in {"robin", "peel"} /\ \E x, y : calc' = [calc EXCEPT !.left = x, !.value = y]
      BY <2>2 DEF ClearDone
    <3> QED BY <1>1, <3>1 DEF CalcType
  <2>3. CASE PeelNode
    <3>1. pc' = pc /\ \E x, y, z : calc' = [calc EXCEPT !.left = x, !.order = y, !.value = z]
      BY <2>3 DEF PeelNode
    <3> QED BY <1>1, <1>2, <3>1 DEF CalcType
  <2>4. CASE PeelDone
    BY <2>4 DEF PeelDone
  <2>5. CASE ColorNode
    <3>1. pc' = pc /\ \E x, y : calc' = [calc EXCEPT !.order = x, !.top = y]
      BY <2>5 DEF ColorNode
    <3> QED BY <1>1, <1>2, <3>1 DEF CalcType
  <2>6. CASE ColorDone
    <3>1. CASE pc' = calc.ret
      BY <3>1
    <3>2. CASE pc' = "clear" /\ calc' = [calc EXCEPT !.roundRobin = TRUE, !.left = Live(g)]
      BY <1>1, <3>2 DEF CalcType
    <3> QED BY <2>6, <3>1, <3>2 DEF ColorDone
  <2>7. CASE RobinNode
    <3>1. pc' = pc /\ \E x, y : calc' = [calc EXCEPT !.left = x, !.next = y]
      BY <2>7 DEF RobinNode
    <3> QED BY <1>1, <1>2, <3>1 DEF CalcType
  <2>8. CASE RobinDone
    BY <2>8 DEF RobinDone
  <2> QED BY <2>1, <2>2, <2>3, <2>4, <2>5, <2>6, <2>7, <2>8 DEF CalcEventIds
<1> QED BY <1>2, <1>3, <1>4, <1>5, <1>6

(* A step of the transaction is outside calcEventIds, or enters it. *)
LEMMA TransactionMoves ==
    ASSUME IInv, Transaction
    PROVE  /\ pc \in {"idle", "open", "pair", "link", "judge", "checked", "undo"}
           /\ \/ pc' \in {"idle", "open", "pair", "link", "judge", "checked", "undo"}
              \/ pc' = "clear" /\ StartCalc("judge")
           /\ UNCHANGED <<maxNum, reserved>>
           /\ \/ \E k \in Kinds, p \in Pair : CreateNode(k, p)
              \/ AddEdge \/ UndoAction \/ Kept
<1>1. /\ pc \in {"idle", "open", "pair", "link", "judge", "checked", "undo"}
      /\ \/ pc' \in {"idle", "open", "pair", "link", "judge", "checked", "undo"}
         \/ pc' = "clear" /\ StartCalc("judge")
      /\ UNCHANGED <<maxNum, reserved>>
  BY DEF Transaction, CreateNode, ReuseNode, AddConflicts, InsertExtraPair,
     PushActionNone, AddEdge, CheckColorable, Judge, ClearActionStack,
     UndoAction, UndoMarker, StartCalc
<1>2. g \in GoodGraph
  BY DEF IInv, History
<1>3. ASSUME NEW n \in Slot, NEW p \in Pair, ReuseNode(n, p)
      PROVE  Kept
  BY <1>2, <1>3, ChangeKept DEF ReuseNode
<1>4. ASSUME NEW p \in Pair, InsertExtraPair(p)
      PROVE  Kept
  BY <1>2, <1>4, ChangeKept DEF InsertExtraPair
<1>5. ASSUME NEW S \in SUBSET Slot, AddConflicts(S)
      PROVE  Kept
  BY <1>5 DEF AddConflicts, Kept
<1>6. PushActionNone \/ CheckColorable \/ Judge \/ ClearActionStack \/ UndoMarker => Kept
  BY DEF PushActionNone, Do, CheckColorable, Judge, ClearActionStack, UndoMarker, Kept
<1>7. \/ \E k \in Kinds, p \in Pair : CreateNode(k, p)
      \/ AddEdge \/ UndoAction \/ Kept
  BY <1>3, <1>4, <1>5, <1>6 DEF Transaction
<1> QED BY <1>1, <1>7

-----------------------------------------------------------------------------
(***************************************************************************)
(* Degree sums.  Between pushes and pops they are the weights of the       *)
(* neighbours; while the stack is unwound only those of the graph to come  *)
(* back to are known.                                                      *)
(***************************************************************************)
SumsInv ==
    /\ pc # "undo" => SumsRight(g)
    /\ InTransaction => SumsRight(trail[1])

(* A graph whose nodes and edges are kept has the sums, shape and coloring it
   had. *)
LEMMA KeptFacts ==
    ASSUME Kept
    PROVE  /\ Shape(g') = Shape(g) /\ Live(g') = Live(g)
           /\ \A n : Adjacent(g', n) = Adjacent(g, n)
           /\ Fits(g') <=> Fits(g)
           /\ \A M : Whole(g', M) = Whole(g, M)
           /\ SumsRight(g') <=> SumsRight(g)
BY SameStructure DEF Kept

(* addEdge adds an edge and sets the flag when it makes an end too heavy, or
   changes nothing. *)
LEMMA EdgeAdded ==
    ASSUME IInv, SumsRight(g), AddEdge
    PROVE  /\ SumsRight(g')
           /\ \/ g' = g
              \/ g'.stale
              \/ /\ ~g.stale /\ g'.count = g.count /\ g'.kind = g.kind /\ g'.ids = g.ids
                 /\ \E m \in Live(g) :
                        maxNum = HwEventIdNum =>
                            Grows(Shape(g), Shape(g'), HwEventIdNum, {cur, m})
<1>1. /\ g \in GoodGraph /\ cur \in Live(g) /\ todo \subseteq Live(g)
  BY DEF IInv, History, Placed, InTransaction, AddEdge
<1>2. PICK m \in todo :
          \/ g' = g
          \/ /\ m # cur
             /\ ~g.stale
             /\ g' = WithStale(WithEdge(g, cur, m), TRUE)
          \/ /\ m # cur
             /\ \/ g.stale
                \/ ~(TooHeavy(WithEdge(g, cur, m), cur) \/ TooHeavy(WithEdge(g, cur, m), m))
             /\ g' = WithEdge(g, cur, m)
  BY DEF AddEdge, Do, SameGraph
<1> DEFINE h == WithEdge(g, cur, m)
<1>3. CASE g' = g
  BY <1>3
<1>4. CASE m # cur /\ g' = WithStale(h, TRUE)
  <2>1. h \in GoodGraph /\ SumsRight(h)
    BY <1>1, <1>4, EdgeChange, GrowEdge
  <2> HIDE DEF h
  <2>2. h = Build(h.count, h.kind, h.adj, h.sum, h.owner, h.ids, h.stale)
    BY <2>1, GoodParts
  <2>3. g' = Build(h.count, h.kind, h.adj, h.sum, h.owner, h.ids, TRUE)
    BY <1>4, <2>2, FieldsKept
  <2>4. /\ g'.count = h.count /\ g'.kind = h.kind /\ g'.adj = h.adj
        /\ g'.sum = h.sum /\ g'.stale = TRUE
    BY <2>3 DEF Build
  <2>5. SumsRight(g') <=> SumsRight(h)
    BY <2>4, SameStructure
  <2> QED BY <2>1, <2>4, <2>5
<1>5. CASE /\ m # cur /\ g' = h
           /\ g.stale \/ ~(TooHeavy(h, cur) \/ TooHeavy(h, m))
  <2>1. /\ SumsRight(h) /\ h.count = g.count /\ h.stale = g.stale
        /\ h.kind = g.kind /\ h.ids = g.ids
        /\ h.sum[cur] + g.kind[cur].num <= HwEventIdNum
               /\ h.sum[m] + g.kind[m].num <= HwEventIdNum
           => Grows(Shape(g), Shape(h), HwEventIdNum, {cur, m})
    BY <1>1, <1>5, EdgeChange, GrowEdge
  <2>2. CASE g.stale
    BY <1>5, <2>1, <2>2
  <2>3. CASE ~g.stale
    <3>1. ~(h.sum[cur] + h.kind[cur].num > maxNum) /\ ~(h.sum[m] + h.kind[m].num > maxNum)
      BY <1>5, <2>3 DEF TooHeavy
    <3>2. /\ h.sum[cur] \in Int /\ h.kind[cur].num \in Int
          /\ h.sum[m] \in Int /\ h.kind[m].num \in Int
      <4>1. h \in GoodGraph
        BY <1>1, <1>5, EdgeChange
      <4> HIDE DEF h
      <4>2. /\ cur \in Slot /\ m \in Slot /\ h.sum \in [Slot -> Int]
            /\ h.kind[cur] \in Kinds /\ h.kind[m] \in Kinds
        BY <1>1, <2>1, <4>1, GoodParts DEF Parts
      <4> QED BY <4>2, KindFacts
    <3> HIDE DEF h
    <3>3. maxNum = HwEventIdNum => Grows(Shape(g), Shape(h), HwEventIdNum, {cur, m})
      BY <2>1, <3>1, <3>2, SolverAssumption
    <3> QED BY <1>1, <1>5, <2>1, <2>3, <3>3
  <2> QED BY <2>2, <2>3
<1> QED BY <1>2, <1>3, <1>4, <1>5

(* Every step keeps the degree sums right. *)
LEMMA SumsStep == IInv /\ SumsInv /\ [Next]_vars => SumsInv'
<1> SUFFICES ASSUME IInv, SumsInv, Next
             PROVE  SumsInv'
  BY DEF vars, SumsInv, InTransaction
<1>1. InTransaction' => SumsRight(trail'[1])
  BY EveryStepKind DEF StepKind, Opens, GoesOn, Closes, Outside, SumsInv
<1>2. ASSUME pc = "undo", pc' # "undo"
      PROVE  SumsRight(g')
  <2>1. UndoMarker
    BY <1>2 DEF Next, Transaction, CalcEventIds, Finish, CreateNode, ReuseNode,
       AddConflicts, InsertExtraPair, PushActionNone, AddEdge, CheckColorable,
       Judge, ClearActionStack, UndoAction, ClearIds, ClearDone, PeelNode,
       PeelDone, ColorNode, ColorDone, RobinNode, RobinDone, ShrinkEventIdMax,
       Resize, ShrinkDone, AllocateUnusedEventId
  <2>2. InTransaction /\ ~InTransaction'
    BY <1>2, <2>1 DEF UndoMarker, InTransaction, Calculating
  <2>3. g' = g /\ trail[1] = g
    BY <1>2, <2>2, EveryStepKind DEF StepKind, Opens, GoesOn, Closes, Outside
  <2> QED BY <2>2, <2>3 DEF SumsInv
<1>3. ASSUME pc # "undo"
      PROVE  SumsRight(g')
  <2>1. SumsRight(g) /\ g \in GoodGraph /\ g' \in GoodGraph
    BY <1>3, StepInvariant DEF SumsInv, IInv, History
  <2>2. CASE Kept
    BY <2>1, <2>2, KeptFacts
  <2>3. ASSUME NEW k \in Kinds, NEW p \in Pair, CreateNode(k, p)
        PROVE  SumsRight(g')
    <3>1. /\ g'.count = g.count + 1 /\ g'.kind[g.count + 1] = k
          /\ \A m \in Live(g) : g'.kind[m] = g.kind[m]
          /\ g'.adj = g.adj /\ g'.sum = g.sum /\ g.count < MaxNodes
      BY <2>1, <2>3, NodeAdded DEF CreateNode
    <3> QED BY <2>1, <3>1, GrowNode
  <2>4. CASE AddEdge
    BY <2>1, <2>4, EdgeAdded
  <2>5. CASE Finish
    BY <2>1, <2>5 DEF Finish, ShrinkEventIdMax, Resize, ShrinkDone, AllocateUnusedEventId
  <2>6. ~UndoAction
    BY <1>3 DEF UndoAction
  <2> QED BY <2>2, <2>3, <2>4, <2>5, <2>6, CalcMoves, TransactionMoves DEF Next
<1> QED BY <1>1, <1>2, <1>3 DEF SumsInv

(* The empty graph has no degree sums. *)
LEMMA InitSums == Init => SumsInv
<1> SUFFICES ASSUME Init
             PROVE  SumsInv
  OBVIOUS
<1>1. Live(g) = {} /\ pc = "idle"
  BY DEF Init, EmptyGraph, Live
<1> QED BY <1>1 DEF SumsInv, SumsRight, InTransaction, Calculating
-----------------------------------------------------------------------------
(***************************************************************************)
(* The maximum and the reserved ids, until custom macros take more.        *)
(***************************************************************************)
Finishing ==
    \/ pc \in {"finish", "done"}
    \/ pc \in Calculating /\ calc.ret = "finish"

LimitInv ==
    /\ pc # "done" => reserved = ReservedIds
    /\ ~Finishing => maxNum = HwEventIdNum
    /\ Finishing => maxNum = Cardinality(Used(Whole(g, HwEventIdNum)))

(***************************************************************************)
(* calcEventIds computes the coloring: after clearing, it takes the        *)
(* lightest node off again and again, its values being what Val says of    *)
(* the nodes left; then it gives ids in the opposite order, and has at any *)
(* time the coloring of the nodes taken off the ordering so far.           *)
(***************************************************************************)
Clearing ==
    /\ calc.order = <<>> /\ calc.top = 0
    /\ \A n \in Live(g) \ calc.left : g.ids[n] = {}
Peeling ==
    /\ calc.top = 0 /\ \A n \in Live(g) : g.ids[n] = {}
    /\ Peeled(Shape(g), calc.order)
    /\ calc.left = Rest(Shape(g), calc.order, Len(calc.order))
    /\ \A n \in calc.left : calc.value[n] = Val(Shape(g), n, calc.left)
Colored(c) == calc.top = c.top /\ \A n \in Live(g) : g.ids[n] = c.ids[n]
Coloring ==
    /\ Peeled(Shape(g), calc.order)
    /\ Colored(Canon(Shape(g), maxNum)[Rest(Shape(g), calc.order, Len(calc.order))])

CalcInv ==
    /\ pc # "robin" /\ (pc \in Calculating => ~calc.roundRobin)
    /\ pc = "clear" => Clearing
    /\ pc = "peel" => Peeling
    /\ pc = "color" => Coloring
    /\ pc \in Calculated => Matches(g, maxNum)

CInv == SumsInv /\ LimitInv /\ CalcInv

(* One more node taken off. *)
LEMMA PeelMore ==
    ASSUME NEW q, NEW s \in Seq(Slot), Peeled(q, s),
           NEW n \in Slot, IsLightest(q, Rest(q, s, Len(s)), n)
    PROVE  /\ Peeled(q, Append(s, n))
           /\ Rest(q, Append(s, n), Len(Append(s, n))) = Rest(q, s, Len(s)) \ {n}
<1> DEFINE t == Append(s, n)
           k == Len(s)
<1>1. /\ k \in Nat /\ Len(t) = k + 1 /\ t[k + 1] = n
      /\ \A i \in 1 .. k : t[i] = s[i]
  BY LenProperties
<1> HIDE DEF t
<1>2. \A i \in 0 .. k : Rest(q, t, i) = Rest(q, s, i)
  <2> SUFFICES ASSUME NEW i \in 0 .. k
               PROVE  Rest(q, t, i) = Rest(q, s, i)
    OBVIOUS
  <2>1. \A j \in 1 .. i : t[j] = s[j]
    BY <1>1
  <2> QED BY <2>1 DEF Rest
<1>3. Rest(q, t, k + 1) = Rest(q, s, k) \ {n}
  <2>1. {t[j] : j \in 1 .. k + 1} = {s[j] : j \in 1 .. k} \cup {n}
    <3>1. 1 .. k + 1 = 1 .. k \cup {k + 1}
      BY <1>1
    <3> QED BY <1>1, <3>1
  <2> QED BY <2>1 DEF Rest
<1>4. ASSUME NEW i \in 1 .. k + 1
      PROVE  IsLightest(q, Rest(q, t, i - 1), t[i])
  <2>1. i - 1 \in 0 .. k
    BY <1>1
  <2>2. CASE i = k + 1
    <3>1. i - 1 = k
      BY <1>1, <2>2
    <3> QED BY <1>1, <1>2, <2>1, <2>2, <3>1
  <2>3. CASE i # k + 1
    <3>1. i \in 1 .. k
      BY <1>1, <2>3
    <3>2. IsLightest(q, Rest(q, s, i - 1), s[i])
      BY <3>1 DEF Peeled
    <3> QED BY <1>1, <1>2, <2>1, <3>1, <3>2
  <2> QED BY <2>2, <2>3
<1> HIDE DEF k
<1>5. Peeled(q, t)
  BY <1>1, <1>4 DEF Peeled
<1> QED BY <1>1, <1>3, <1>5 DEF t, k

(* The last one taken off is put back. *)
LEMMA PeelLess ==
    ASSUME NEW q, NEW s \in Seq(Slot), Peeled(q, s), s # <<>>
    PROVE  /\ Peeled(q, Pop(s))
           /\ IsLightest(q, Rest(q, Pop(s), Len(Pop(s))), s[Len(s)])
           /\ Rest(q, s, Len(s)) = Rest(q, Pop(s), Len(Pop(s))) \ {s[Len(s)]}
<1> DEFINE t == Pop(s)
           k == Len(s)
           n == s[k]
<1>1. k \in Nat /\ k > 0
  BY EmptySeq, LenProperties
<1>2. /\ Len(t) = k - 1 /\ \A i \in 1 .. k - 1 : t[i] = s[i]
  <2> DEFINE l == k - 1
  <2>1. l \in Int /\ 1 \in Int /\ t = SubSeq(s, 1, l) /\ \A i \in 1 .. l : s[i] \in Slot
    BY <1>1 DEF Pop
  <2> HIDE DEF l, t
  <2>2. /\ Len(t) = IF 1 <= l THEN l - 1 + 1 ELSE 0
        /\ \A i \in 1 .. l - 1 + 1 : t[i] = s[1 + i - 1]
    BY <2>1, SubSeqProperties
  <2>3. l \in Nat /\ l - 1 + 1 = l
    BY <1>1 DEF l
  <2> HIDE DEF k
  <2>4. Len(t) = l /\ \A i \in 1 .. l : t[i] = s[i]
    BY <2>2, <2>3
  <2> QED BY <2>4 DEF l
<1> HIDE DEF t
<1>3. \A i \in 0 .. k - 1 : Rest(q, t, i) = Rest(q, s, i)
  <2> SUFFICES ASSUME NEW i \in 0 .. k - 1
               PROVE  Rest(q, t, i) = Rest(q, s, i)
    OBVIOUS
  <2>1. \A j \in 1 .. i : t[j] = s[j]
    BY <1>1, <1>2
  <2> QED BY <2>1 DEF Rest
<1>4. Rest(q, s, k) = Rest(q, s, k - 1) \ {n}
  <2>1. {s[j] : j \in 1 .. k} = {s[j] : j \in 1 .. k - 1} \cup {n}
    <3>1. 1 .. k = 1 .. k - 1 \cup {k}
      BY <1>1
    <3> QED BY <3>1
  <2> QED BY <2>1 DEF Rest
<1>5. IsLightest(q, Rest(q, s, k - 1), n)
  BY <1>1 DEF Peeled
<1>6. \A i \in 1 .. k - 1 : IsLightest(q, Rest(q, t, i - 1), t[i])
  <2> SUFFICES ASSUME NEW i \in 1 .. k - 1
               PROVE  IsLightest(q, Rest(q, t, i - 1), t[i])
    OBVIOUS
  <2>1. i \in 1 .. k /\ i - 1 \in 0 .. k - 1
    BY <1>1
  <2>2. IsLightest(q, Rest(q, s, i - 1), s[i])
    BY <2>1 DEF Peeled
  <2> QED BY <1>2, <1>3, <2>1, <2>2
<1>7. k - 1 \in 0 .. k - 1
  BY <1>1
<1> HIDE DEF n, k
<1>8. Peeled(q, t) /\ Rest(q, t, Len(t)) = Rest(q, s, k - 1)
  BY <1>2, <1>3, <1>6, <1>7 DEF Peeled
<1> QED BY <1>4, <1>5, <1>8 DEF t, k, n

(* Taking a node off lowers the values of its neighbours by what it asks for. *)
LEMMA ValLess ==
    ASSUME NEW q, IsShape(q), NEW R \in SUBSET Live(q), NEW n \in R, NEW m \in R \ {n}
    PROVE  Val(q, m, R \ {n}) = IF m \in Adjacent(q, n) \cap R
                                THEN Val(q, m, R) - q.kind[n].num ELSE Val(q, m, R)
<1> DEFINE A == Adjacent(q, m) \cap R
           B == Adjacent(q, m) \cap (R \ {n})
<1>1. n \in Adjacent(q, m) <=> m \in Adjacent(q, n) \cap R
  BY DEF IsShape
<1>2. A \in SUBSET Live(q) /\ B \in SUBSET Live(q) /\ B = A \ {n}
  OBVIOUS
<1>3. Val(q, m, R \ {n}) = q.kind[m].num + W(q, B) /\ Val(q, m, R) = q.kind[m].num + W(q, A)
  BY DEF Val
<1>4. m \in Live(q) /\ n \in Live(q) /\ q.kind[m].num \in Nat /\ q.kind[n].num \in Nat
  BY ValFacts
<1>5. n \in Adjacent(q, m) => n \in A
  OBVIOUS
<1>6. n \notin Adjacent(q, m) => A = B
  OBVIOUS
<1> HIDE DEF A, B
<1>7. W(q, A) \in Nat /\ W(q, B) \in Nat
  BY <1>2, UnitsFinite
<1>8. n \in A => W(q, A) = W(q, B) + q.kind[n].num
  BY <1>2, WeightStep
<1> QED BY <1>1, <1>3, <1>4, <1>5, <1>6, <1>7, <1>8
-----------------------------------------------------------------------------
(* A calculation starts with nothing ordered. *)
LEMMA StartClears ==
    ASSUME IInv, NEW r \in {"judge", "resize", "finish"}, StartCalc(r), g' = g
    PROVE  CalcInv' /\ calc'.ret = r /\ pc' = "clear"
<1>1. pc' = "clear" /\ calc'.left = Live(g) /\ calc'.ret = r
  BY StartLocals DEF StartCalc
<1>2. calc' = Started(r, Live(g), [n \in Slot |-> 0])
  BY DEF StartCalc, NoCalc, Started
<1>3. calc'.order = <<>> /\ calc'.top = 0 /\ calc'.roundRobin = FALSE
  BY <1>2 DEF Started
<1> QED BY <1>1, <1>3 DEF CalcInv, Clearing, Calculated

(* Clearing the ids. *)
LEMMA ClearingStep ==
    ASSUME IInv, SumsInv, CalcInv, ClearIds \/ ClearDone
    PROVE  CalcInv'
<1>1. /\ pc = "clear" /\ Clearing /\ ~calc.roundRobin /\ SumsRight(g)
      /\ g \in GoodGraph /\ calc \in CalcType(calc.next)
      /\ calc.left \subseteq Live(g) /\ History(log, trail, g)
  BY DEF ClearIds, ClearDone, CalcInv, Calculating, SumsInv, IInv, History, Locals, Placed
<1>2. CASE ClearIds
  <2>1. PICK n \in calc.left : /\ AssignIds(n, {})
                               /\ calc' = [calc EXCEPT !.left = @ \ {n}]
    BY <1>2 DEF ClearIds
  <2>2. {} \in SUBSET Nat /\ IsFiniteSet({}) /\ n \in Live(g)
    BY <1>1, FS_EmptySet
  <2>3. g'.ids = [g.ids EXCEPT ![n] = {}] /\ g'.count = g.count
    BY <1>1, <2>1, <2>2, LoggedIds
  <2>4. /\ calc'.left = calc.left \ {n} /\ calc'.order = calc.order
        /\ calc'.top = calc.top /\ calc'.roundRobin = calc.roundRobin
    BY <1>1, <2>1 DEF CalcType
  <2>5. ASSUME NEW x \in Live(g) \ (calc.left \ {n})
        PROVE  g'.ids[x] = {}
    <3>1. x \in Slot /\ g.ids \in [Slot -> SUBSET Nat]
      BY <1>1, GoodParts DEF Parts
    <3>2. CASE x = n
      BY <2>3, <3>1, <3>2
    <3>3. CASE x # n
      BY <1>1, <2>3, <3>1, <3>3 DEF Clearing
    <3> QED BY <3>2, <3>3
  <2>6. Live(g') = Live(g) /\ pc' = "clear"
    BY <1>1, <1>2, <2>3 DEF Live, ClearIds
  <2> QED BY <1>1, <2>4, <2>5, <2>6 DEF CalcInv, Clearing, Calculated
<1>3. CASE ClearDone
  <2> DEFINE q == Shape(g)
             value == [n \in Slot |-> g.sum[n] + g.kind[n].num]
  <2>1. /\ g' = g /\ calc.left = {} /\ pc' = "peel"
        /\ calc' = [calc EXCEPT !.left = Live(g), !.value = value]
    BY <1>1, <1>3 DEF ClearDone
  <2>2. /\ IsShape(q) /\ Live(q) = Live(g) /\ Live(g) \in SUBSET Slot
        /\ q.kind = g.kind /\ \A n : Adjacent(q, n) = Adjacent(g, n)
    BY <1>1, GoodShape
  <2>3. ASSUME NEW n \in Live(g)
        PROVE  value[n] = Val(q, n, Live(g))
    <3>1. g.sum[n] = W(q, Adjacent(g, n)) /\ value[n] = g.sum[n] + g.kind[n].num
      BY <1>1, <2>2 DEF SumsRight
    <3>2. Adjacent(q, n) \cap Live(g) = Adjacent(g, n)
      BY <2>2 DEF Adjacent
    <3>3. Val(q, n, Live(g)) = g.kind[n].num + W(q, Adjacent(g, n))
      BY <2>2, <3>2 DEF Val
    <3>4. g.kind[n].num \in Nat /\ W(q, Adjacent(g, n)) \in Nat
      <4> HIDE DEF q
      <4>1. Adjacent(g, n) \in SUBSET Live(q)
        BY <2>2 DEF Adjacent
      <4>2. W(q, Adjacent(g, n)) \in Nat
        BY <2>2, <4>1, UnitsFinite
      <4>3. q.kind[n].num \in Nat
        BY <2>2, ValFacts
      <4> QED BY <2>2, <4>2, <4>3
    <3> QED BY <3>1, <3>3, <3>4
  <2> HIDE DEF value
  <2>4. /\ calc'.left = Live(g) /\ calc'.value = value /\ calc'.order = <<>>
        /\ calc'.top = 0 /\ ~calc'.roundRobin
    BY <1>1, <2>1 DEF Clearing, CalcType
  <2>5. Rest(q, <<>>, Len(<<>>)) = Live(g) /\ Peeled(q, <<>>)
    BY <2>2 DEF Rest, Peeled
  <2>6. Peeling'
    <3>1. \A n \in Live(g) : g.ids[n] = {}
      BY <1>1, <2>1 DEF Clearing
    <3> QED BY <2>1, <2>3, <2>4, <2>5, <3>1 DEF Peeling, q
  <2> QED BY <2>1, <2>4, <2>6 DEF CalcInv, Calculated
<1> QED BY <1>2, <1>3

(* Ordering the nodes. *)
LEMMA PeelingStep ==
    ASSUME IInv, CalcInv, PeelNode \/ PeelDone
    PROVE  CalcInv'
<1> DEFINE q == Shape(g)
<1>1. /\ pc = "peel" /\ Peeling /\ ~calc.roundRobin
      /\ g \in GoodGraph /\ calc \in CalcType(calc.next) /\ maxNum \in Nat
      /\ calc.left \subseteq Live(g) /\ calc.order \in Seq(Slot)
  BY DEF PeelNode, PeelDone, CalcInv, Calculating, IInv, History, Locals, Placed, CalcType
<1>2. /\ IsShape(q) /\ Live(q) = Live(g) /\ Live(g) \in SUBSET Slot
      /\ q.kind = g.kind /\ \A n : Adjacent(q, n) = Adjacent(g, n)
  BY <1>1, GoodShape
<1>3. CASE PeelNode
  <2>1. PICK n \in calc.left :
            /\ \A m \in calc.left \ {n} : Lighter(n, m)
            /\ calc' = [calc EXCEPT
                   !.left = @ \ {n},
                   !.order = Append(@, n),
                   !.value = [m \in Slot |->
                       IF m \in Adjacent(g, n) \cap calc.left
                       THEN @[m] - g.kind[n].num ELSE @[m]]]
    BY <1>3 DEF PeelNode
  <2> DEFINE left == calc.left \ {n}
             order == Append(calc.order, n)
             value == [m \in Slot |-> IF m \in Adjacent(g, n) \cap calc.left
                                      THEN calc.value[m] - g.kind[n].num
                                      ELSE calc.value[m]]
  <2>2. calc' = [calc EXCEPT !.left = left, !.order = order, !.value = value]
    BY <2>1
  <2>3. /\ calc'.left = left /\ calc'.order = order /\ calc'.value = value
        /\ calc'.top = calc.top /\ calc'.roundRobin = calc.roundRobin
    <3> HIDE DEF left, order, value
    <3> QED BY <1>1, <2>2 DEF CalcType
  <2>4. IsLightest(q, calc.left, n)
    <3> SUFFICES ASSUME NEW m \in calc.left \ {n}
                 PROVE  Ahead(q, calc.left, n, m)
      BY DEF IsLightest
    <3>1. Lighter(n, m) /\ calc.value[n] = Val(q, n, calc.left) /\ calc.value[m] = Val(q, m, calc.left)
      BY <1>1, <2>1 DEF Peeling
    <3> HIDE DEF q
    <3> QED BY <1>2, <3>1 DEF Lighter, Ahead
  <2>5. n \in Slot /\ calc.left = Rest(q, calc.order, Len(calc.order)) /\ Peeled(q, calc.order)
    BY <1>1, <1>2 DEF Peeling
  <2>6. Peeled(q, order) /\ Rest(q, order, Len(order)) = left
    <3> HIDE DEF q
    <3>1. IsLightest(q, Rest(q, calc.order, Len(calc.order)), n)
      BY <2>4, <2>5
    <3>2. /\ Peeled(q, Append(calc.order, n))
          /\ Rest(q, Append(calc.order, n), Len(Append(calc.order, n)))
                = Rest(q, calc.order, Len(calc.order)) \ {n}
      BY <1>1, <2>5, <3>1, PeelMore
    <3> QED BY <2>5, <3>2
  <2>7. ASSUME NEW m \in left
        PROVE  value[m] = Val(q, m, left)
    <3>1. /\ m \in Slot /\ calc.value[m] = Val(q, m, calc.left)
      BY <1>1, <1>2 DEF Peeling
    <3>2. value[m] = IF m \in Adjacent(q, n) \cap calc.left
                     THEN calc.value[m] - q.kind[n].num ELSE calc.value[m]
      BY <1>2, <3>1
    <3> HIDE DEF q, value
    <3>3. calc.left \in SUBSET Live(q) /\ m \in calc.left \ {n} /\ IsShape(q)
      BY <1>1, <1>2
    <3> HIDE DEF left
    <3>4. Val(q, m, calc.left \ {n}) = IF m \in Adjacent(q, n) \cap calc.left
                                       THEN Val(q, m, calc.left) - q.kind[n].num
                                       ELSE Val(q, m, calc.left)
      BY <3>3, ValLess
    <3> QED BY <3>1, <3>2, <3>4 DEF left
  <2> HIDE DEF left, order, value
  <2>8. g' = g /\ pc' = "peel"
    BY <1>3 DEF PeelNode
  <2>9. Peeling'
    BY <1>1, <2>3, <2>6, <2>7, <2>8 DEF Peeling
  <2> QED BY <1>1, <2>3, <2>8, <2>9 DEF CalcInv, Calculated
<1>4. CASE PeelDone
  <2>1. g' = g /\ calc' = calc /\ maxNum' = maxNum /\ pc' = "color" /\ calc.left = {}
    BY <1>4 DEF PeelDone
  <2>2. Canon(q, maxNum)[Rest(q, calc.order, Len(calc.order))] = Fresh
    <3>1. Rest(q, calc.order, Len(calc.order)) = {}
      BY <1>1, <2>1 DEF Peeling
    <3> QED BY <1>2, <3>1, CanonEquations
  <2>3. Colored(Fresh)
    BY <1>1, <1>2 DEF Peeling, Colored, Fresh
  <2>4. Coloring
    BY <1>1, <2>2, <2>3 DEF Coloring, Peeling
  <2>5. Coloring'
    BY <2>1, <2>4 DEF Coloring, Colored
  <2> QED BY <1>1, <2>1, <2>5 DEF CalcInv, Calculated
<1> QED BY <1>3, <1>4

(* Giving a node its ids. *)
LEMMA ColoringStep ==
    ASSUME IInv, LimitInv, CalcInv, ColorNode
    PROVE  CalcInv'
<1> DEFINE q == Shape(g)
           M == maxNum
           n == calc.order[Len(calc.order)]
           order == Pop(calc.order)
           B == Rest(q, calc.order, Len(calc.order))
           R == Rest(q, order, Len(order))
           c == Canon(q, M)[B]
           top == Max2(calc.top, LastChosen(n))
<1>1. /\ pc = "color" /\ calc.order # <<>> /\ Coloring /\ ~calc.roundRobin
      /\ AssignIds(n, ChosenIds(n))
      /\ calc' = [calc EXCEPT !.order = order, !.top = top]
      /\ pc' = pc /\ maxNum' = maxNum
  BY DEF ColorNode, CalcInv, Calculating
<1>2. /\ g \in GoodGraph /\ calc \in CalcType(calc.next) /\ maxNum \in Nat
      /\ calc.order \in Seq(Slot) /\ History(log, trail, g)
      /\ reserved \in SUBSET Nat /\ IsFiniteSet(reserved) /\ reserved = ReservedIds
      /\ calc.top \in Nat
  BY <1>1 DEF IInv, History, Locals, CalcType, LimitInv
<1>3. /\ IsShape(q) /\ Live(q) = Live(g) /\ Live(g) \in SUBSET Slot
      /\ q.kind = g.kind /\ \A m : Adjacent(q, m) = Adjacent(g, m)
  BY <1>2, GoodShape
<1>4. Peeled(q, order) /\ IsLightest(q, R, n) /\ B = R \ {n}
  <2>1. Peeled(q, calc.order)
    BY <1>1 DEF Coloring
  <2> HIDE DEF q
  <2> QED BY <1>1, <1>2, <2>1, PeelLess
<1>5. R \in SUBSET Live(q) /\ n \in R
  BY <1>4 DEF Rest, IsLightest
<1>6. Colored(c)
  BY <1>1 DEF Coloring
<1> HIDE DEF order, n, top, R, B
<1>7. n = Lightest(q, R) /\ R # {} /\ n \in Live(g) /\ n \in Slot
  BY <1>3, <1>4, <1>5, LightestUnique
<1>8. Canon(q, M)[R] = Give(q, M, c, n)
  <2> HIDE DEF q
  <2>1. Canon(q, M)[R] = Give(q, M, Canon(q, M)[R \ {Lightest(q, R)}], Lightest(q, R))
    BY <1>3, <1>5, <1>7, CanonEquations
  <2> QED BY <1>4, <1>7, <2>1
<1> HIDE DEF c
<1>9. Taken(n) = TakenIn(q, c, n)
  <2>1. \A m \in Adjacent(g, n) : g.ids[m] = c.ids[m]
    BY <1>6 DEF Colored, Adjacent
  <2>2. UNION {g.ids[m] : m \in Adjacent(g, n)} = UNION {c.ids[m] : m \in Adjacent(g, n)}
    BY <2>1
  <2> QED BY <1>2, <1>3, <2>2 DEF Taken, TakenIn
<1>10. /\ ChosenIds(n) = Chosen(q, M, c, n)
       /\ LastChosen(n) = LastOf(q.kind[n], TakenIn(q, c, n), c.top, M)
  <2>1. /\ ChosenIds(n) = Choice(g.kind[n], Taken(n), calc.top, maxNum)
        /\ LastChosen(n) = LastOf(g.kind[n], Taken(n), calc.top, maxNum)
    BY SameChoice
  <2>2. calc.top = c.top
    BY <1>6 DEF Colored
  <2> QED BY <1>3, <1>9, <2>1, <2>2 DEF Chosen
<1>11. /\ ChosenIds(n) \in SUBSET Nat /\ IsFiniteSet(ChosenIds(n))
  BY <1>2, <1>7, ChosenFinite
<1>12. g'.ids = [g.ids EXCEPT ![n] = ChosenIds(n)] /\ Kept
  BY <1>1, <1>2, <1>7, <1>11, LoggedIds, ChangeKept
<1>13. calc'.order = order /\ calc'.top = top /\ calc'.roundRobin = calc.roundRobin
  BY <1>1, <1>2 DEF CalcType
<1>14. Shape(g') = q /\ Live(g') = Live(g)
  BY <1>12, KeptFacts
<1> DEFINE d == Give(q, M, c, n)
<1>15. d.top = top
  <2>1. d.top = Max2(c.top, LastOf(q.kind[n], TakenIn(q, c, n), c.top, M))
    BY DEF Give
  <2> QED BY <1>6, <1>10, <2>1 DEF Colored, top
<1>16. \A m \in Live(g) : g'.ids[m] = d.ids[m]
  <2>1. d.ids = [c.ids EXCEPT ![n] = Chosen(q, M, c, n)]
    BY DEF Give
  <2>2. g.ids \in [Slot -> SUBSET Nat]
    BY <1>2, GoodParts DEF Parts
  <2>3. c.ids \in [Slot -> SUBSET Nat]
    <3>1. IsColoring(q, B, c)
      <4>1. B \in SUBSET Live(q)
        BY <1>4, <1>5
      <4> HIDE DEF q
      <4> QED BY <1>2, <1>3, <4>1, CanonColoring DEF c
    <3> QED BY <3>1 DEF IsColoring
  <2> HIDE DEF d, q, M
  <2>4. \A m \in Live(g) : g.ids[m] = c.ids[m] /\ m \in Slot
    BY <1>3, <1>6 DEF Colored
  <2>5. ASSUME NEW m \in Live(g)
        PROVE  g'.ids[m] = d.ids[m]
    <3>1. m \in Slot /\ g.ids[m] = c.ids[m]
      BY <2>4
    <3>2. CASE m = n
      BY <1>7, <1>10, <1>12, <2>1, <2>2, <2>3, <3>2
    <3>3. CASE m # n
      BY <1>12, <2>1, <2>2, <2>3, <3>1, <3>3
    <3> QED BY <3>2, <3>3
  <2> QED BY <2>5
<1>17. Coloring'
  <2>1. Rest(q, calc'.order, Len(calc'.order)) = R
    BY <1>13 DEF R
  <2>2. Peeled(q, calc'.order)
    BY <1>4, <1>13
  <2> HIDE DEF d, q
  <2>3. calc'.top = Canon(q, M)[R].top /\ \A m \in Live(g) : g'.ids[m] = Canon(q, M)[R].ids[m]
    BY <1>8, <1>13, <1>15, <1>16 DEF d
  <2> QED BY <1>1, <1>14, <2>1, <2>2, <2>3 DEF Coloring, Colored
<1> QED BY <1>1, <1>13, <1>17 DEF CalcInv, Calculated

(* The end of a calculation: every live node has its ids. *)
LEMMA ColoredAll ==
    ASSUME RoundRobin = FALSE, IInv, CalcInv, ColorDone
    PROVE  CalcInv' /\ Matches(g', maxNum) /\ Kept /\ pc' = calc.ret
<1>1. /\ pc = "color" /\ calc.order = <<>> /\ Coloring /\ g \in GoodGraph
      /\ AssignNeedRecalc(FALSE) /\ pc' = calc.ret /\ maxNum' = maxNum
  BY DEF ColorDone, CalcInv, IInv, History
<1>2. calc.ret \in {"judge", "resize", "finish"}
  BY <1>1 DEF IInv, Locals, CalcType, Placed, Calculating
<1>3. Kept /\ g'.ids = g.ids
  BY <1>1, ChangeKept
<1>4. Rest(Shape(g), <<>>, Len(<<>>)) = Live(g)
  BY <1>1, GoodShape DEF Rest
<1>5. Colored(Whole(g, maxNum))
  BY <1>1, <1>4 DEF Coloring, Whole
<1>6. Matches(g', maxNum)
  BY <1>3, <1>5, KeptFacts DEF Colored, Matches
<1>7. CalcInv'
  BY <1>1, <1>2, <1>6 DEF CalcInv, Calculating
<1> QED BY <1>1, <1>3, <1>6, <1>7

(* The whole of CalcInv. *)
LEMMA CalcStep ==
    ASSUME RoundRobin = FALSE, IInv, CInv, [Next]_vars
    PROVE  CalcInv'
<1>1. CASE UNCHANGED vars
  BY <1>1 DEF vars, CInv, CalcInv, Clearing, Peeling, Coloring, Colored, Matches, Calculated
<1>2. CASE Transaction
  <2>1. CASE pc' \in {"idle", "open", "pair", "link", "judge", "checked", "undo"}
    BY <2>1 DEF CalcInv, Calculating, Calculated
  <2>2. CASE pc' = "clear" /\ StartCalc("judge")
    <3>1. CheckColorable
      BY <1>2, <2>2 DEF Transaction, CreateNode, ReuseNode, AddConflicts,
         InsertExtraPair, PushActionNone, AddEdge, Judge, ClearActionStack,
         UndoAction, UndoMarker
    <3> QED BY <2>2, <3>1, StartClears DEF CheckColorable
  <2> QED BY <1>2, <2>1, <2>2, TransactionMoves
<1>3. CASE CalcEventIds
  <2>1. ~RobinNode /\ ~RobinDone
    BY DEF CInv, CalcInv, RobinNode, RobinDone
  <2> QED BY <1>3, <2>1, ClearingStep, PeelingStep, ColoringStep, ColoredAll
          DEF CalcEventIds, CInv
<1>4. CASE Finish
  <2>1. CASE ShrinkEventIdMax \/ Resize
    BY <2>1, StartClears DEF ShrinkEventIdMax, Resize
  <2>2. CASE ShrinkDone \/ AllocateUnusedEventId
    <3>1. g' = g /\ maxNum' = maxNum /\ pc \in Calculated /\ pc' = "done"
      BY <2>2 DEF ShrinkDone, AllocateUnusedEventId, Calculated
    <3>2. Matches(g', maxNum')
      BY <3>1 DEF CInv, CalcInv
    <3> QED BY <3>1, <3>2 DEF CalcInv, Calculating
  <2> QED BY <1>4, <2>1, <2>2 DEF Finish
<1> QED BY <1>1, <1>2, <1>3, <1>4 DEF Next

(* The maximum changes once, to the number of ids the final graph needs. *)
LEMMA LimitStep ==
    ASSUME RoundRobin = FALSE, IInv, CInv, [Next]_vars
    PROVE  LimitInv'
<1>1. CASE UNCHANGED vars
  BY <1>1 DEF vars, CInv, LimitInv, Finishing
<1>2. CASE Transaction
  <2>1. ~Finishing /\ pc # "done" /\ UNCHANGED <<maxNum, reserved>>
    BY <1>2, TransactionMoves DEF Finishing, Calculating
  <2>2. CASE pc' \in {"idle", "open", "pair", "link", "judge", "checked", "undo"}
    BY <2>1, <2>2 DEF CInv, LimitInv, Finishing, Calculating
  <2>3. CASE pc' = "clear" /\ StartCalc("judge")
    <3>1. calc'.ret = "judge"
      BY <2>3, StartLocals
    <3> QED BY <2>1, <2>3, <3>1 DEF CInv, LimitInv, Finishing
  <2> QED BY <1>2, <2>2, <2>3, TransactionMoves
<1>3. CASE CalcEventIds
  <2>1. /\ pc \in Calculating /\ calc.ret \in {"judge", "resize", "finish"}
        /\ \/ pc' \in Calculating /\ calc'.ret = calc.ret
           \/ pc' = calc.ret
        /\ UNCHANGED <<maxNum, reserved>> /\ Kept
    BY <1>3, CalcMoves
  <2>2. (Finishing' <=> Finishing) /\ pc # "done"
    BY <2>1 DEF Finishing, Calculating
  <2>3. Whole(g', HwEventIdNum) = Whole(g, HwEventIdNum)
    BY <2>1, KeptFacts
  <2> QED BY <2>1, <2>2, <2>3 DEF CInv, LimitInv
<1>4. CASE ShrinkEventIdMax
  <2>1. calc'.ret = "resize" /\ pc' = "clear"
    BY <1>4, StartClears DEF ShrinkEventIdMax
  <2> QED BY <1>4, <2>1 DEF ShrinkEventIdMax, CInv, LimitInv, Finishing, Calculating
<1>5. CASE Resize
  <2>1. calc'.ret = "finish" /\ pc' = "clear" /\ pc = "resize" /\ g' = g
        /\ maxNum' = Cardinality(UsedIds(g)) /\ reserved' = reserved
    BY <1>5, StartClears DEF Resize
  <2>2. Matches(g, maxNum) /\ maxNum = HwEventIdNum /\ g \in GoodGraph /\ reserved = ReservedIds
    BY <2>1 DEF CInv, CalcInv, LimitInv, Calculated, Finishing, Calculating, IInv, History
  <2>3. UsedIds(g) = Used(Whole(g, HwEventIdNum))
    BY <2>2, MatchUsed, SolverAssumption
  <2>4. Finishing'
    BY <2>1 DEF Finishing, Calculating
  <2> QED BY <2>1, <2>2, <2>3, <2>4 DEF LimitInv
<1>6. CASE ShrinkDone
  <2>1. g' = g /\ UNCHANGED <<maxNum, reserved>> /\ Finishing /\ Finishing'
    BY <1>6 DEF ShrinkDone, Finishing
  <2> QED BY <1>6, <2>1 DEF ShrinkDone, CInv, LimitInv
<1>7. CASE AllocateUnusedEventId
  <2>1. g' = g /\ maxNum' = maxNum /\ Finishing /\ Finishing' /\ pc' = "done"
    BY <1>7 DEF AllocateUnusedEventId, Finishing
  <2> QED BY <2>1 DEF CInv, LimitInv
<1> QED BY <1>1, <1>2, <1>3, <1>4, <1>5, <1>6, <1>7 DEF Next, Finish

(* The three together hold in every reachable state. *)
LEMMA CanonInvariance ==
    ASSUME RoundRobin = FALSE
    PROVE  Spec => []CInv
<1>1. Init => CInv
  <2> SUFFICES ASSUME Init
               PROVE  CInv
    OBVIOUS
  <2>1. pc = "idle" /\ maxNum = HwEventIdNum /\ reserved = ReservedIds
    BY DEF Init
  <2> QED BY <2>1, InitSums DEF CInv, LimitInv, CalcInv, Finishing, Calculating, Calculated
<1>2. IInv /\ CInv /\ [Next]_vars => CInv'
  BY SumsStep, LimitStep, CalcStep DEF CInv
<1> QED BY <1>1, <1>2, Invariance, PTL DEF Spec
-----------------------------------------------------------------------------
(***************************************************************************)
(* The lazy check.  FInv says that a graph the solver has accepted can be  *)
(* given ids 0 .. HwEventIdNum - 1, though they may not be the ids it has; *)
(* a node of more ids than the hardware has is rejected for its            *)
(* placeholders alone.                                                     *)
(***************************************************************************)
Overweight(h) == \E n \in Live(h) : /\ h.kind[n].num > HwEventIdNum
                                    /\ h.ids[n] = 0 .. h.kind[n].num - 1
Returning == pc \in Calculating /\ calc.ret # "judge"

FInv ==
    /\ pc \in {"idle", "open", "checked"} => Fits(g)
    /\ InTransaction => Fits(trail[1])
    /\ pc \in {"pair", "link"} /\ ~g.stale => Fits(g) \/ Overweight(g)
    /\ pc = "judge" => Fits(g) \/ Overweight(g) \/ Matches(g, maxNum)
    /\ pc \in Calculated \/ Returning => Fits(g)

(* A graph of placeholders that overflow the hardware is rejected. *)
LEMMA OverweightRejected ==
    ASSUME g \in GoodGraph, maxNum = HwEventIdNum, Overweight(g)
    PROVE  ~IsColorable(g)
<1>1. PICK n \in Live(g) : /\ g.kind[n].num > HwEventIdNum
                           /\ g.ids[n] = 0 .. g.kind[n].num - 1
  BY DEF Overweight
<1>2. /\ UsedIds(g) \in SUBSET Nat /\ IsFiniteSet(UsedIds(g))
      /\ Cardinality(UsedIds(g)) \in Nat
  BY UsedFinite
<1>3. g.ids[n] \in SUBSET UsedIds(g)
  BY <1>1 DEF UsedIds
<1>4. Cardinality(g.ids[n]) <= Cardinality(UsedIds(g))
  BY <1>2, <1>3, FS_Subset
<1> DEFINE w == g.kind[n].num
           z == w - 1
<1>5. w \in Nat /\ w > 0
  BY <1>1, GoodParts, KindFacts
<1> HIDE DEF w
<1>6. z \in Int /\ 0 \in Int /\ z >= 0 - 1 /\ z - 0 + 1 = w
  BY <1>5
<1> HIDE DEF z
<1>7. Cardinality(0 .. z) = z - 0 + 1
  BY <1>6, IntervalSize
<1>8. Cardinality(g.ids[n]) = w /\ w > HwEventIdNum
  BY <1>1, <1>6, <1>7 DEF z, w
<1> QED BY <1>2, <1>4, <1>5, <1>8, SolverAssumption DEF IsColorable

(* A graph that grows at light nodes only still fits. *)
LEMMA StillFits ==
    ASSUME ReservedIds = {}, NEW h \in GoodGraph, NEW w \in GoodGraph, NEW X,
           Grows(Shape(h), Shape(w), HwEventIdNum, X), Fits(h)
    PROVE  Fits(w)
<1> DEFINE q == Shape(h)
           r == Shape(w)
<1>1. IsShape(q) /\ IsShape(r) /\ Live(q) = Live(h) /\ Live(r) = Live(w)
  BY GoodShape
<1>2. HwEventIdNum \in Nat /\ HwEventIdNum > 0
  BY SolverAssumption
<1>3. Within(HwEventIdNum, Canon(q, HwEventIdNum)[Live(q)])
  BY <1>1 DEF Fits, Whole
<1>4. Grows(q, r, HwEventIdNum, X)
  OBVIOUS
<1> HIDE DEF q, r
<1>5. Within(HwEventIdNum, Canon(r, HwEventIdNum)[Live(r)])
  BY <1>1, <1>2, <1>3, <1>4, GrowFits
<1> QED BY <1>1, <1>5 DEF Fits, Whole, r

(* Ids computed afresh that are few enough all exist. *)
LEMMA FreshFits ==
    ASSUME ReservedIds = {}, g \in GoodGraph, maxNum = HwEventIdNum,
           Matches(g, maxNum), IsColorable(g)
    PROVE  Fits(g)
<1> DEFINE q == Shape(g)
           c == Canon(q, HwEventIdNum)[Live(q)]
<1>1. IsShape(q) /\ Live(q) = Live(g) /\ HwEventIdNum \in Nat /\ HwEventIdNum > 0
  BY GoodShape, SolverAssumption
<1>2. UsedIds(g) = Used(c)
  BY <1>1, MatchUsed DEF Whole
<1>3. NoGap(HwEventIdNum, c)
  <2> HIDE DEF q
  <2> QED BY <1>1, CanonNoGap
<1> HIDE DEF c
<1>4. /\ Used(c) \in SUBSET Nat /\ IsFiniteSet(Used(c))
      /\ Cardinality(Used(c)) <= HwEventIdNum
  BY <1>2, UsedFinite DEF IsColorable
<1>5. Within(HwEventIdNum, c)
  BY <1>1, <1>3, <1>4, FewFit
<1> QED BY <1>1, <1>5 DEF Fits, Whole, c

(* Between transactions and after a judgement. *)
LEMMA RestingFits ==
    ASSUME ReservedIds = {}, IInv, CInv, FInv, Next
    PROVE  /\ InTransaction' => Fits(trail'[1])
           /\ pc' \in {"idle", "open", "checked"} => Fits(g')
<1>1. InTransaction' => Fits(trail'[1])
  <2>1. Opens => Fits(g)
    BY DEF Opens, FInv
  <2> QED BY <2>1, EveryStepKind DEF StepKind, Opens, GoesOn, Closes, Outside, FInv
<1>2. ASSUME pc' = "idle"
      PROVE  Fits(g')
  <2>1. UndoMarker \/ ClearActionStack
    BY <1>2, Arrivals
  <2>2. CASE ClearActionStack
    BY <2>2 DEF ClearActionStack, FInv
  <2>3. CASE UndoMarker
    <3>1. InTransaction /\ ~InTransaction' /\ pc = "undo"
      BY <2>3 DEF UndoMarker, InTransaction, Calculating
    <3>2. g' = g /\ trail[1] = g
      BY <3>1, EveryStepKind DEF StepKind, Opens, GoesOn, Closes, Outside
    <3> QED BY <3>1, <3>2 DEF FInv
  <2> QED BY <2>1, <2>2, <2>3
<1>3. ASSUME pc' = "open"
      PROVE  Fits(g')
  <2>1. PushActionNone
    BY <1>3, CalcMoves
       DEF Next, Transaction, Finish, CreateNode, ReuseNode,
           AddConflicts, InsertExtraPair, PushActionNone, AddEdge,
           CheckColorable, Judge, ClearActionStack, UndoAction, UndoMarker,
           ShrinkEventIdMax, Resize, ShrinkDone, AllocateUnusedEventId, StartCalc,
           Calculating
  <2> QED BY <2>1 DEF PushActionNone, Do, FInv
<1>4. ASSUME pc' = "checked"
      PROVE  Fits(g')
  <2>1. Judge
    BY <1>4, Arrivals
  <2>2. /\ pc = "judge" /\ g' = g /\ IsColorable(g) /\ g \in GoodGraph
        /\ maxNum = HwEventIdNum
    BY <1>4, <2>1 DEF Judge, CInv, LimitInv, Finishing, Calculating, IInv, History
  <2>3. Fits(g) \/ Overweight(g) \/ Matches(g, maxNum)
    BY <2>2 DEF FInv
  <2>4. ~Overweight(g)
    BY <2>2, OverweightRejected
  <2> QED BY <2>2, <2>3, <2>4, FreshFits
<1> QED BY <1>1, <1>2, <1>3, <1>4

(* A transaction under way, as long as no edge asks for a calculation. *)
LEMMA GrowingFits ==
    ASSUME ReservedIds = {}, IInv, CInv, FInv, Transaction,
           pc' \in {"pair", "link"}, ~g'.stale
    PROVE  Fits(g') \/ Overweight(g')
<1>1. /\ g \in GoodGraph /\ g' \in GoodGraph
  BY StepInvariant DEF IInv, History, Next
<1>2. /\ pc \in {"idle", "open", "pair", "link", "judge", "checked", "undo"}
      /\ maxNum = HwEventIdNum /\ (pc # "undo" => SumsRight(g))
  BY TransactionMoves DEF CInv, LimitInv, Finishing, Calculating, SumsInv
<1>3. ASSUME NEW k \in Kinds, NEW p \in Pair, CreateNode(k, p)
      PROVE  Fits(g') \/ Overweight(g')
  <2>1. /\ g'.count = g.count + 1 /\ g'.kind[g.count + 1] = k
        /\ \A m \in Live(g) : g'.kind[m] = g.kind[m]
        /\ g'.adj = g.adj /\ g'.sum = g.sum /\ g.count < MaxNodes
        /\ g'.ids[g.count + 1] = 0 .. k.num - 1 /\ pc = "open"
    BY <1>1, <1>3, NodeAdded DEF CreateNode
  <2>2. CASE k.num <= HwEventIdNum
    <3>1. Grows(Shape(g), Shape(g'), HwEventIdNum, {g.count + 1})
      BY <1>1, <2>1, <2>2, GrowNode
    <3>2. Fits(g)
      BY <2>1 DEF FInv
    <3> QED BY <1>1, <3>1, <3>2, StillFits
  <2>3. CASE ~(k.num <= HwEventIdNum)
    <3>1. k.num > HwEventIdNum
      BY <2>3, KindFacts, SolverAssumption
    <3>2. g.count + 1 \in Live(g')
      <4>1. g.count \in Nat
        BY <1>1, GoodParts
      <4> QED BY <2>1, <4>1 DEF Live
    <3> QED BY <2>1, <3>1, <3>2 DEF Overweight
  <2> QED BY <2>2, <2>3
<1>4. ASSUME Kept, g'.ids = g.ids, Fits(g) \/ Overweight(g)
      PROVE  Fits(g') \/ Overweight(g')
  BY <1>4, KeptFacts DEF Overweight, Kept
<1>5. ASSUME NEW n, NEW p, ReuseNode(n, p)
      PROVE  Fits(g') \/ Overweight(g')
  <2>1. Kept /\ g'.ids = g.ids /\ Fits(g)
    BY <1>1, <1>5, ChangeKept DEF ReuseNode, FInv
  <2> QED BY <1>4, <2>1
<1>6. ASSUME NEW p, InsertExtraPair(p)
      PROVE  Fits(g') \/ Overweight(g')
  <2>1. Kept /\ g'.ids = g.ids /\ Fits(g)
    BY <1>1, <1>6, ChangeKept DEF InsertExtraPair, FInv
  <2> QED BY <1>4, <2>1
<1>7. ASSUME NEW S, AddConflicts(S)
      PROVE  Fits(g') \/ Overweight(g')
  BY <1>7 DEF AddConflicts, FInv
<1>8. CASE AddEdge
  <2>1. pc = "link" /\ SumsRight(g)
    BY <1>2, <1>8 DEF AddEdge
  <2>2. CASE g' = g
    BY <2>1, <2>2 DEF FInv
  <2>3. CASE /\ ~g.stale /\ g'.count = g.count /\ g'.kind = g.kind /\ g'.ids = g.ids
             /\ \E m \in Live(g) : Grows(Shape(g), Shape(g'), HwEventIdNum, {cur, m})
    <3>1. Fits(g) \/ Overweight(g)
      BY <2>1, <2>3 DEF FInv
    <3>2. CASE Overweight(g)
      BY <2>3, <3>2 DEF Overweight, Live
    <3>3. CASE Fits(g)
      <4>1. PICK X : Grows(Shape(g), Shape(g'), HwEventIdNum, X)
        BY <2>3
      <4> QED BY <1>1, <3>3, <4>1, StillFits
    <3> QED BY <3>1, <3>2, <3>3
  <2> QED BY <1>2, <1>8, <2>1, <2>2, <2>3, EdgeAdded
<1>9. ~(PushActionNone \/ CheckColorable \/ Judge \/ ClearActionStack \/ UndoAction
        \/ UndoMarker)
  BY DEF PushActionNone, CheckColorable, StartCalc, Judge, ClearActionStack,
     UndoAction, UndoMarker
<1> QED BY <1>3, <1>5, <1>6, <1>7, <1>8, <1>9 DEF Transaction

(* Arriving at a judgement, with or without a calculation. *)
LEMMA JudgedFits ==
    ASSUME RoundRobin = FALSE, IInv, CInv, FInv, Next, pc' = "judge"
    PROVE  Fits(g') \/ Overweight(g') \/ Matches(g', maxNum')
<1>1. CheckColorable \/ ColorDone \/ RobinDone
  BY Arrivals
<1>2. CASE CheckColorable
  <2>1. pc = "link" /\ ~g.stale /\ g' = g
    BY <1>2 DEF CheckColorable, StartCalc
  <2> QED BY <2>1 DEF FInv
<1>3. CASE ColorDone
  BY <1>3, ColoredAll DEF CInv, ColorDone
<1>4. CASE RobinDone
  BY <1>4 DEF RobinDone, CInv, CalcInv
<1> QED BY <1>1, <1>2, <1>3, <1>4

(* The final calculations keep the graph. *)
LEMMA FinalFits ==
    ASSUME IInv, CInv, FInv, Next, pc' \in Calculated \/ Returning'
    PROVE  Fits(g')
<1>1. CASE Finish
  BY <1>1 DEF Finish, ShrinkEventIdMax, Resize, ShrinkDone, AllocateUnusedEventId,
     FInv, Calculated
<1>2. CASE CalcEventIds
  <2>1. /\ pc \in Calculating /\ Kept
        /\ \/ pc' \in Calculating /\ calc'.ret = calc.ret
           \/ pc' = calc.ret
    BY <1>2, CalcMoves
  <2>2. Returning
    BY <2>1 DEF Returning, Calculating, Calculated
  <2> QED BY <2>1, <2>2, KeptFacts DEF FInv
<1>3. CASE Transaction
  <2>1. \/ pc' \in {"idle", "open", "pair", "link", "judge", "checked", "undo"}
        \/ pc' = "clear" /\ StartCalc("judge")
    BY <1>3, TransactionMoves
  <2>2. StartCalc("judge") => calc'.ret = "judge"
    BY StartLocals
  <2> QED BY <2>1, <2>2 DEF Returning, Calculating, Calculated
<1> QED BY <1>1, <1>2, <1>3 DEF Next

(* Every step keeps accepted graphs within the hardware. *)
LEMMA FitsStep ==
    ASSUME RoundRobin = FALSE, ReservedIds = {}
    PROVE  IInv /\ CInv /\ FInv /\ [Next]_vars => FInv'
<1> SUFFICES ASSUME IInv, CInv, FInv, [Next]_vars
             PROVE  FInv'
  OBVIOUS
<1>1. CASE UNCHANGED vars
  BY <1>1 DEF vars, FInv, InTransaction, Overweight, Matches, Returning
<1>2. CASE Next
  <2>1. ASSUME pc' \in {"pair", "link"}
        PROVE  Transaction
    BY <1>2, <2>1, CalcMoves DEF Next, Calculating, Finish, ShrinkEventIdMax,
       Resize, ShrinkDone, AllocateUnusedEventId, StartCalc
  <2>2. /\ InTransaction' => Fits(trail'[1])
        /\ pc' \in {"idle", "open", "checked"} => Fits(g')
    BY <1>2, RestingFits
  <2>3. pc' \in {"pair", "link"} /\ ~g'.stale => Fits(g') \/ Overweight(g')
    BY <2>1, GrowingFits
  <2>4. pc' = "judge" => Fits(g') \/ Overweight(g') \/ Matches(g', maxNum')
    BY <1>2, JudgedFits
  <2>5. pc' \in Calculated \/ Returning' => Fits(g')
    BY <1>2, FinalFits
  <2> QED BY <2>2, <2>3, <2>4, <2>5 DEF FInv
<1> QED BY <1>1, <1>2

(* The empty graph fits. *)
LEMMA InitFits == Init => FInv
<1> SUFFICES ASSUME Init
             PROVE  FInv
  OBVIOUS
<1>1. Live(g) = {} /\ pc = "idle"
  BY DEF Init, EmptyGraph, Live
<1>2. g \in GoodGraph
  BY InitInvariant DEF IInv, History
<1>3. Whole(g, HwEventIdNum) = Fresh
  <2>1. IsShape(Shape(g)) /\ Live(Shape(g)) = {}
    BY <1>1, <1>2, GoodShape
  <2> QED BY <1>1, <2>1, SolverAssumption, CanonEquations DEF Whole
<1>4. Used(Fresh) = {}
  BY FreshUsed
<1>5. Fits(g)
  BY <1>3, <1>4 DEF Fits, Within
<1> QED BY <1>1, <1>5 DEF FInv, InTransaction, Returning, Calculating, Calculated

(* FInv holds in every reachable state. *)
LEMMA FitsInvariance ==
    ASSUME RoundRobin = FALSE, ReservedIds = {}
    PROVE  Spec => []FInv
<1>1. IInv /\ CInv /\ FInv /\ [Next]_vars => FInv'
  BY FitsStep
<1>2. Spec => []CInv
  BY CanonInvariance
<1> QED BY <1>1, <1>2, InitFits, Invariance, PTL DEF Spec
-----------------------------------------------------------------------------
(* The ids of the coloring within 0 .. M - 1 are at most M. *)
LEMMA WithinFew ==
    ASSUME NEW M \in Nat, NEW c, Within(M, c)
    PROVE  IsFiniteSet(Used(c)) /\ Cardinality(Used(c)) <= M
<1> DEFINE z == M - 1
<1>1. z \in Int /\ 0 \in Int /\ z >= 0 - 1 /\ z - 0 + 1 = M
  OBVIOUS
<1>2. Used(c) \in SUBSET (0 .. z)
  BY DEF Within
<1> HIDE DEF z
<1>3. IsFiniteSet(0 .. z) /\ Cardinality(0 .. z) = M
  BY <1>1, IntervalSize
<1> QED BY <1>2, <1>3, FS_Subset

(* The lazy check is sound: the graph accepted with ids that may be out of   *)
(* date has, computed afresh, at most as many as the hardware (the assertion *)
(* in shrinkEventIdMaxToEventIdNum), when no id is reserved and ids are not  *)
(* given in turn.                                                            *)
THEOREM LazyCheckIsSound ==
    ASSUME RoundRobin = FALSE, ReservedIds = {}
    PROVE  Spec => []LazyCheckSound
<1>1. IInv /\ CInv /\ FInv => LazyCheckSound
  <2> SUFFICES ASSUME IInv, CInv, FInv, pc = "resize"
               PROVE  IsColorable(g)
    BY DEF LazyCheckSound
  <2>1. g \in GoodGraph /\ maxNum = HwEventIdNum /\ Matches(g, maxNum) /\ Fits(g)
    BY DEF IInv, History, CInv, LimitInv, CalcInv, FInv, Finishing, Calculating, Calculated
  <2>2. UsedIds(g) = Used(Whole(g, HwEventIdNum)) /\ HwEventIdNum \in Nat
    BY <2>1, MatchUsed, SolverAssumption
  <2>3. Cardinality(Used(Whole(g, HwEventIdNum))) <= HwEventIdNum
    BY <2>1, <2>2, WithinFew DEF Fits
  <2> QED BY <2>1, <2>2, <2>3 DEF IsColorable
<1> QED BY <1>1, Invariance, CanonInvariance, FitsInvariance, PTL

(* What the final ids are: those of the coloring under the number of ids the *)
(* hardware maximum needs.                                                   *)
LEMMA FinalIds ==
    ASSUME IInv, CInv, pc = "done"
    PROVE  /\ IsShape(Shape(g)) /\ Live(Shape(g)) = Live(g)
           /\ maxNum \in Nat /\ maxNum = Cardinality(Used(Whole(g, HwEventIdNum)))
           /\ UsedIds(g) = Used(Whole(g, maxNum))
<1>1. /\ g \in GoodGraph /\ maxNum \in Nat
      /\ maxNum = Cardinality(Used(Whole(g, HwEventIdNum))) /\ Matches(g, maxNum)
  BY DEF IInv, History, Locals, CInv, LimitInv, CalcInv, Finishing, Calculated
<1> QED BY <1>1, GoodShape, MatchUsed

(* Without reserved ids the shrunk maximum is within the hardware, and the   *)
(* ids under it are 0 .. maxNum - 1 at most.                                 *)
LEMMA FinalFit ==
    ASSUME ReservedIds = {}, IInv, CInv, FInv, pc = "done"
    PROVE  maxNum <= HwEventIdNum /\ Within(maxNum, Whole(g, maxNum))
<1> DEFINE q == Shape(g)
           c == Canon(q, HwEventIdNum)[Live(q)]
<1>1. /\ IsShape(q) /\ Live(q) = Live(g) /\ maxNum = Cardinality(Used(c))
  BY FinalIds DEF Whole
<1>2. Within(HwEventIdNum, c) /\ HwEventIdNum \in Nat
  BY <1>1, SolverAssumption DEF FInv, Calculated, Fits, Whole
<1>3. maxNum <= HwEventIdNum /\ Within(maxNum, Canon(q, maxNum)[Live(q)])
  <2> HIDE DEF q
  <2> QED BY <1>1, <1>2, ShrinkFits
<1> QED BY <1>1, <1>3 DEF Whole

(* calcAllEventIds recomputes the ids under the smaller maximum and asserts   *)
(* that they are still few enough: they are, when no id is reserved, and also *)
(* with reserved ids when no pair is reversed.                                *)
THEOREM ShrinkIsColorable ==
    ASSUME RoundRobin = FALSE, ReservedIds = {} \/ \A k \in Kinds : ~k.rev
    PROVE  Spec => []ShrinkKeepsColorable
<1>1. CASE ReservedIds = {}
  <2>1. IInv /\ CInv /\ FInv => ShrinkKeepsColorable
    <3> SUFFICES ASSUME IInv, CInv, FInv, pc = "done"
                 PROVE  IsColorable(g)
      BY DEF ShrinkKeepsColorable
    <3>1. /\ Within(maxNum, Whole(g, maxNum)) /\ maxNum \in Nat
          /\ UsedIds(g) = Used(Whole(g, maxNum))
      BY <1>1, FinalIds, FinalFit
    <3> QED BY <3>1, WithinFew DEF IsColorable
  <2>2. (Spec => []CInv) /\ (Spec => []FInv)
    BY <1>1, CanonInvariance, FitsInvariance
  <2> QED BY <2>1, <2>2, Invariance, PTL
<1>2. CASE \A k \in Kinds : ~k.rev
  <2>1. IInv /\ CInv => ShrinkKeepsColorable
    <3> SUFFICES ASSUME IInv, CInv, pc = "done"
                 PROVE  IsColorable(g)
      BY DEF ShrinkKeepsColorable
    <3> DEFINE q == Shape(g)
    <3>1. /\ IsShape(q) /\ Live(q) = Live(g) /\ maxNum \in Nat /\ HwEventIdNum \in Nat
          /\ maxNum = Cardinality(Used(Whole(g, HwEventIdNum)))
          /\ UsedIds(g) = Used(Whole(g, maxNum))
      BY FinalIds, SolverAssumption
    <3>2. Canon(q, HwEventIdNum)[Live(q)] = Canon(q, maxNum)[Live(q)]
      <4> HIDE DEF q
      <4> QED BY <1>2, <3>1, SameForAll
    <3>3. Whole(g, HwEventIdNum) = Whole(g, maxNum)
      BY <3>1, <3>2 DEF Whole
    <3> QED BY <3>1, <3>3 DEF IsColorable
  <2> QED BY <2>1, Invariance, CanonInvariance, PTL
<1> QED BY <1>1, <1>2

(* Every id handed out exists in the hardware, when no id is reserved. *)
THEOREM IdsExistInHardware ==
    ASSUME RoundRobin = FALSE, ReservedIds = {}
    PROVE  Spec => []IdsInHardwareRange
<1>1. IInv /\ CInv /\ FInv => IdsInHardwareRange
  <2> SUFFICES ASSUME IInv, CInv, FInv, pc = "done"
               PROVE  UsedIds(g) \subseteq 0 .. HwEventIdNum - 1
    BY DEF IdsInHardwareRange
  <2>1. UsedIds(g) \subseteq 0 .. maxNum - 1
    BY FinalIds, FinalFit DEF Within
  <2>2. maxNum \in Nat /\ HwEventIdNum \in Nat /\ maxNum <= HwEventIdNum
    BY FinalIds, FinalFit, SolverAssumption
  <2> QED BY <2>1, <2>2
<1> QED BY <1>1, Invariance, CanonInvariance, FitsInvariance, PTL
=============================================================================
