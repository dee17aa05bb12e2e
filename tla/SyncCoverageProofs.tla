------------------------- MODULE SyncCoverageProofs -------------------------
(***************************************************************************)
(* Theorems about what the pairs that the sync solver chooses put in order,*)
(* for every function that it may be given.                                *)
(*                                                                         *)
(*   - What was enforced when a conflict was passed stays enforced, though *)
(*     pairs are reused and barriers added after it.                       *)
(*   - A kept graph of the second version holds each edge as often as the  *)
(*     lists that it is brought up to date from say, and so answers as a   *)
(*     graph made afresh.                                                  *)
(*   - What the second version passes over with the rest of a group is     *)
(*     enforced by what lies outside the parts that the group compares.    *)
(*   - So each conflict of the function is ordered in the end.             *)
(***************************************************************************)
EXTENDS SyncSolverProofs

(***************************************************************************)
(* Which orders a set of edges enforces.  What is reached from a set of     *)
(* arrivals is the least set that has them and is closed, since a search    *)
(* that goes on uses an edge that was of no use before.                     *)
(***************************************************************************)
Onward(V, s)   == {r \in V : \E e \in s : e[1] = r.src /\ e[2] <= r.start}
Further(V, s)  == s \cup {<<q.dst, q.end>> : q \in Onward(V, s)}

AreArrivals(f, V, at, n) ==
    f = [i \in 0 .. n |-> IF i = 0 THEN at ELSE Further(V, f[i - 1])]

LEMMA ArrivalsExist ==
    ASSUME NEW V, NEW at, NEW m \in Nat
    PROVE  \E f : AreArrivals(f, V, at, m)
<1> DEFINE P == {n \in Nat : \E f : AreArrivals(f, V, at, n)}
<1>1. 0 \in P
    <2> DEFINE f == [i \in 0 .. 0 |-> at]
    <2>1. f = [i \in 0 .. 0 |-> IF i = 0 THEN at ELSE Further(V, f[i - 1])]
        OBVIOUS
    <2> HIDE DEF f
    <2> QED BY <2>1 DEF AreArrivals
<1>2. ASSUME NEW n \in Nat, n \in P PROVE n + 1 \in P
    <2>1. PICK f : AreArrivals(f, V, at, n)
        BY <1>2
    <2> DEFINE g == [i \in 0 .. n + 1 |-> IF i = n + 1 THEN Further(V, f[n]) ELSE f[i]]
    <2>2. \A i \in 0 .. n : f[i] = IF i = 0 THEN at ELSE Further(V, f[i - 1])
        BY <2>1 DEF AreArrivals
    <2>3. \A i \in 0 .. n : g[i] = f[i]
        OBVIOUS
    <2>4. g[n + 1] = Further(V, f[n]) /\ g[n] = f[n]
        OBVIOUS
    <2>5. g = [i \in 0 .. n + 1 |-> g[i]]
        OBVIOUS
    <2> HIDE DEF g
    <2>6. ASSUME NEW i \in 0 .. n + 1
          PROVE  g[i] = IF i = 0 THEN at ELSE Further(V, g[i - 1])
        <3>1. CASE i = n + 1
            BY <2>4, <3>1
        <3>2. CASE i # n + 1
            <4>1. i \in 0 .. n /\ (i # 0 => i - 1 \in 0 .. n)
                BY <3>2
            <4> QED BY <2>2, <2>3, <4>1
        <3> QED BY <3>1, <3>2
    <2>7. g = [i \in 0 .. n + 1 |-> IF i = 0 THEN at ELSE Further(V, g[i - 1])]
        BY <2>5, <2>6
    <2>8. AreArrivals(g, V, at, n + 1)
        BY <2>7 DEF AreArrivals
    <2> QED BY <2>8
<1>3. Nat \subseteq P
    <2> HIDE DEF P
    <2> QED BY <1>1, <1>2, Upwards
<1> QED BY <1>3

LEMMA ArrivalsAre ==
    ASSUME NEW V, IsFiniteSet(V), NEW at
    PROVE  \E f : /\ Arrivals(V, at) = f[Cardinality(V)] /\ f[0] = at
                  /\ \A i \in Nat : i < Cardinality(V) => f[i + 1] = Further(V, f[i])
<1> DEFINE m == Cardinality(V)
           f == CHOOSE h : AreArrivals(h, V, at, m)
<1>1. Arrivals(V, at) = f[m]
    BY DEF Arrivals, AreArrivals, Further, Onward
<1>2. m \in Nat
    BY FS_CardinalityType
<1> HIDE DEF m
<1>3. AreArrivals(f, V, at, m)
    BY <1>2, ArrivalsExist
<1> HIDE DEF f
<1>4. \A i \in 0 .. m : f[i] = IF i = 0 THEN at ELSE Further(V, f[i - 1])
    BY <1>3 DEF AreArrivals
<1>5. f[0] = at
    BY <1>2, <1>4
<1>6. ASSUME NEW i \in Nat, i < m PROVE f[i + 1] = Further(V, f[i])
    <2>1. i + 1 \in 0 .. m /\ i + 1 # 0 /\ (i + 1) - 1 = i
        BY <1>2, <1>6
    <2> QED BY <1>4, <2>1
<1> QED BY <1>1, <1>5, <1>6 DEF m

LEMMA OnwardGrows ==
    ASSUME NEW V, NEW s
    PROVE  Onward(V, s) \subseteq Onward(V, Further(V, s))
BY DEF Onward, Further

(* Nothing new can be reached from there.                                   *)
LEMMA ArrivalsAreClosed ==
    ASSUME NEW V, IsFiniteSet(V), NEW at
    PROVE  at \subseteq Arrivals(V, at) /\ Further(V, Arrivals(V, at)) = Arrivals(V, at)
<1>1. PICK f : /\ Arrivals(V, at) = f[Cardinality(V)] /\ f[0] = at
               /\ \A i \in Nat : i < Cardinality(V) => f[i + 1] = Further(V, f[i])
    BY ArrivalsAre
<1> DEFINE m == Cardinality(V)
           used(i) == Cardinality(Onward(V, f[i]))
           P == {n \in Nat : n <= m => /\ at \subseteq f[n]
                                       /\ Further(V, f[n]) = f[n] \/ used(n) > n}
<1>2. m \in Nat
    BY FS_CardinalityType
<1>3. \A i : IsFiniteSet(Onward(V, f[i])) /\ used(i) \in Nat /\ used(i) <= m
    <2>1. ASSUME NEW i PROVE IsFiniteSet(Onward(V, f[i])) /\ used(i) \in Nat /\ used(i) <= m
        <3>1. Onward(V, f[i]) \subseteq V
            BY DEF Onward
        <3>2. IsFiniteSet(Onward(V, f[i])) /\ used(i) <= m
            BY <3>1, FS_Subset
        <3> QED BY <3>2, FS_CardinalityType
    <2> QED BY <2>1
<1>4. ASSUME NEW i, used(i) = 0 PROVE Further(V, f[i]) = f[i]
    <2>1. Onward(V, f[i]) = {}
        BY <1>3, <1>4, FS_EmptySet
    <2> QED BY <2>1 DEF Further
<1>5. \A i \in Nat : i < m => f[i + 1] = Further(V, f[i])
    BY <1>1
<1> HIDE DEF m
<1>6. 0 \in P
    <2>1. used(0) = 0 => Further(V, f[0]) = f[0]
        BY <1>4
    <2>2. used(0) \in Nat
        BY <1>3
    <2> HIDE DEF used
    <2> QED BY <1>1, <2>1, <2>2
<1>7. ASSUME NEW n \in Nat, n \in P PROVE n + 1 \in P
    <2> SUFFICES ASSUME n + 1 <= m
                 PROVE  /\ at \subseteq f[n + 1]
                        /\ Further(V, f[n + 1]) = f[n + 1] \/ used(n + 1) > n + 1
        OBVIOUS
    <2>1. n < m /\ n <= m
        BY <1>2
    <2>2. at \subseteq f[n] /\ (Further(V, f[n]) = f[n] \/ used(n) > n)
        BY <1>7, <2>1
    <2>3. f[n + 1] = Further(V, f[n])
        BY <1>5, <2>1
    <2>4. at \subseteq f[n + 1]
        BY <2>2, <2>3 DEF Further
    <2>5. CASE Further(V, f[n]) = f[n]
        BY <2>3, <2>4, <2>5
    <2>6. CASE used(n) > n
        <3>1. Onward(V, f[n]) \subseteq Onward(V, f[n + 1])
            BY <2>3, OnwardGrows
        <3>2. CASE Onward(V, f[n + 1]) = Onward(V, f[n])
            <4>1. {<<q.dst, q.end>> : q \in Onward(V, f[n + 1])} \subseteq f[n + 1]
                BY <2>3, <3>2 DEF Further
            <4> QED BY <2>4, <4>1 DEF Further
        <3>3. CASE Onward(V, f[n + 1]) # Onward(V, f[n])
            <4>1. used(n) < used(n + 1)
                <5> DEFINE R == Onward(V, f[n])
                           S == Onward(V, f[n + 1])
                <5>1. IsFiniteSet(S) /\ R \subseteq S /\ R # S
                    BY <1>3, <3>1, <3>3
                <5> HIDE DEF R, S
                <5>2. Cardinality(R) <= Cardinality(S) /\ (Cardinality(R) = Cardinality(S) => R = S)
                    BY <5>1, FS_Subset
                <5>3. IsFiniteSet(R) /\ Cardinality(R) \in Nat /\ Cardinality(S) \in Nat
                    BY <5>1, FS_Subset, FS_CardinalityType
                <5>4. Cardinality(R) < Cardinality(S)
                    BY <5>1, <5>2, <5>3
                <5> QED BY <5>4 DEF R, S
            <4>2. used(n) \in Nat /\ used(n + 1) \in Nat
                BY <1>3
            <4> HIDE DEF used
            <4>3. used(n + 1) > n + 1
                BY <2>6, <4>1, <4>2
            <4> QED BY <2>4, <4>3
        <3> QED BY <3>2, <3>3
    <2> QED BY <2>2, <2>5, <2>6
<1>8. Nat \subseteq P
    <2> HIDE DEF P
    <2> QED BY <1>6, <1>7, Upwards
<1>9. at \subseteq f[m] /\ (Further(V, f[m]) = f[m] \/ used(m) > m)
    <2>1. m \in P
        <3> HIDE DEF P
        <3> QED BY <1>2, <1>8
    <2> QED BY <1>2, <2>1
<1>10. used(m) \in Nat /\ used(m) <= m
    BY <1>3
<1>11. Further(V, f[m]) = f[m]
    <2> HIDE DEF used
    <2> QED BY <1>2, <1>9, <1>10
<1> QED BY <1>1, <1>9, <1>11 DEF m

(* It is in every closed set that has the first arrivals.                   *)
LEMMA ArrivalsAreLeast ==
    ASSUME NEW V, IsFiniteSet(V), NEW at, NEW Z, at \subseteq Z, Further(V, Z) \subseteq Z
    PROVE  Arrivals(V, at) \subseteq Z
<1>1. PICK f : /\ Arrivals(V, at) = f[Cardinality(V)] /\ f[0] = at
               /\ \A i \in Nat : i < Cardinality(V) => f[i + 1] = Further(V, f[i])
    BY ArrivalsAre
<1> DEFINE m == Cardinality(V)
           P == {n \in Nat : n <= m => f[n] \subseteq Z}
<1>2. m \in Nat
    BY FS_CardinalityType
<1>3. \A i \in Nat : i < m => f[i + 1] = Further(V, f[i])
    BY <1>1
<1> HIDE DEF m
<1>4. 0 \in P
    BY <1>1
<1>5. ASSUME NEW n \in Nat, n \in P PROVE n + 1 \in P
    <2> SUFFICES ASSUME n + 1 <= m PROVE f[n + 1] \subseteq Z
        OBVIOUS
    <2>1. n < m /\ n <= m
        BY <1>2
    <2>2. f[n] \subseteq Z /\ f[n + 1] = Further(V, f[n])
        BY <1>3, <1>5, <2>1
    <2>3. Further(V, f[n]) \subseteq Further(V, Z)
        BY <2>2 DEF Further, Onward
    <2> QED BY <2>2, <2>3
<1>6. Nat \subseteq P
    <2> HIDE DEF P
    <2> QED BY <1>4, <1>5, Upwards
<1>7. m \in P
    <2> HIDE DEF P
    <2> QED BY <1>2, <1>6
<1> QED BY <1>1, <1>2, <1>7 DEF m

(* An edge serves for another that ends with it and starts earlier: moving  *)
(* a set to a later place keeps what the pair ordered.                      *)
AreEdges(V) == \A v \in V : v.start \in Nat /\ v.end \in Nat
Serves(w, v) == w.src = v.src /\ w.dst = v.dst /\ v.start <= w.start /\ w.end = v.end
ServeFor(W, V) == \A v \in V : \E w \in W : Serves(w, v)

LEMMA ServingReaches ==
    ASSUME NEW V, NEW W, IsFiniteSet(V), IsFiniteSet(W), AreEdges(V), AreEdges(W), ServeFor(W, V),
           NEW from, NEW to, NEW Z, Z = Arrivals(W, to),
           from \subseteq to, \A x \in to : \E q \in W : x = <<q.dst, q.end>>
    PROVE  Arrivals(V, from) \subseteq Z
<1> DEFINE all == {<<q.dst, q.end>> : q \in W}
<1>1. to \subseteq Z /\ Further(W, Z) = Z
    BY ArrivalsAreClosed
<1>2. Z \subseteq all
    <2>1. to \subseteq all /\ Further(W, all) \subseteq all
        BY DEF Further, Onward
    <2> HIDE DEF all
    <2> QED BY <2>1, ArrivalsAreLeast
<1>3. \A x \in Z : x[2] \in Nat
    BY <1>2 DEF AreEdges
<1>4. ASSUME NEW x \in Further(V, Z) PROVE x \in Z
    <2>1. CASE x \in Z
        BY <2>1
    <2>2. CASE \E q \in Onward(V, Z) : x = <<q.dst, q.end>>
        <3>1. PICK q \in Onward(V, Z) : x = <<q.dst, q.end>>
            BY <2>2
        <3>2. q \in V /\ \E e \in Z : e[1] = q.src /\ e[2] <= q.start
            BY DEF Onward
        <3>3. PICK e \in Z : e[1] = q.src /\ e[2] <= q.start
            BY <3>2
        <3>4. PICK w \in W : Serves(w, q)
            BY <3>2 DEF ServeFor
        <3>5. e[2] \in Nat /\ q.start \in Nat /\ w.start \in Nat
            BY <1>3, <3>2, <3>3, <3>4 DEF AreEdges
        <3>6. e[1] = w.src /\ e[2] <= w.start /\ x = <<w.dst, w.end>>
            BY <3>1, <3>3, <3>4, <3>5 DEF Serves
        <3>7. w \in Onward(W, Z)
            BY <3>3, <3>4, <3>6 DEF Onward
        <3> QED BY <1>1, <3>6, <3>7 DEF Further
    <2> QED BY <2>1, <2>2 DEF Further
<1>5. from \subseteq Z /\ Further(V, Z) \subseteq Z
    BY <1>1, <1>4
<1> QED BY <1>5, ArrivalsAreLeast

InsideOf(V, s, e)   == {q \in V : s <= q.start /\ q.end <= e}
BarriersOf(V)       == {q \in V : IsBarrier(q)}
FirstSteps(V, src)  == {<<q.dst, q.end>> : q \in {r \in V : r.src = src}}

LEMMA OrderedByIs ==
    ASSUME NEW V, NEW src, NEW dst, NEW s, NEW e, NEW I, I = InsideOf(V, s, e),
           NEW E, E = I \ BarriersOf(I)
    PROVE  OrderedBy(V, src, dst, s, e) <=>
               \/ \E q \in BarriersOf(I) : IsBarrierAll(q) \/ (q.src = src /\ src = dst)
               \/ \E x \in Arrivals(E, FirstSteps(E, src)) : x[1] = dst
BY DEF OrderedBy, InsideOf, BarriersOf, FirstSteps

LEMMA ServingOrders ==
    ASSUME NEW V, NEW W, IsFiniteSet(V), IsFiniteSet(W), AreEdges(V), AreEdges(W),
           NEW src, NEW dst, NEW s \in Nat, NEW e, ServeFor(W, InsideOf(V, s, e)),
           OrderedBy(V, src, dst, s, e)
    PROVE  OrderedBy(W, src, dst, s, e)
<1> DEFINE IV == InsideOf(V, s, e)
           IW == InsideOf(W, s, e)
           EV == IV \ BarriersOf(IV)
           EW == IW \ BarriersOf(IW)
<1>1. IV \subseteq V /\ EV \subseteq IV /\ IW \subseteq W /\ EW \subseteq IW
    BY DEF InsideOf
<1>2. /\ IsFiniteSet(EV) /\ IsFiniteSet(EW) /\ AreEdges(EV) /\ AreEdges(EW)
      /\ AreEdges(IV) /\ AreEdges(IW)
    BY <1>1, FS_Subset DEF AreEdges
<1>3. ASSUME NEW v \in IV PROVE \E w \in IW : Serves(w, v)
    <2>1. PICK w \in W : Serves(w, v)
        BY <1>1 DEF ServeFor
    <2>2. s <= v.start /\ v.end <= e /\ v.start \in Nat /\ w.start \in Nat
        BY <1>1, <2>1 DEF AreEdges, InsideOf
    <2>3. s <= w.start /\ w.end <= e
        BY <2>1, <2>2 DEF Serves
    <2> QED BY <2>1, <2>3 DEF InsideOf
<1>4. \A v \in IV, w \in IW : Serves(w, v) => (v \in BarriersOf(IV) <=> w \in BarriersOf(IW))
    BY DEF BarriersOf, Serves, IsBarrier
<1>5. ServeFor(EW, EV)
    BY <1>3, <1>4 DEF ServeFor
<1>6. FirstSteps(EV, src) \subseteq FirstSteps(EW, src)
    BY <1>5 DEF FirstSteps, ServeFor, Serves
<1>7. \A x \in FirstSteps(EW, src) : \E q \in EW : x = <<q.dst, q.end>>
    BY DEF FirstSteps
<1>8. CASE \E q \in BarriersOf(IV) : IsBarrierAll(q) \/ (q.src = src /\ src = dst)
    <2>1. PICK q \in BarriersOf(IV) : IsBarrierAll(q) \/ (q.src = src /\ src = dst)
        BY <1>8
    <2>2. q \in IV
        BY DEF BarriersOf
    <2>3. PICK w \in IW : Serves(w, q)
        BY <1>3, <2>2
    <2>4. w \in BarriersOf(IW) /\ (IsBarrierAll(w) \/ (w.src = src /\ src = dst))
        BY <1>4, <2>1, <2>2, <2>3 DEF Serves, IsBarrierAll, IsBarrier
    <2> HIDE DEF IW, IV
    <2> QED BY <2>4, OrderedByIs DEF IW
<1>9. CASE \E x \in Arrivals(EV, FirstSteps(EV, src)) : x[1] = dst
    <2> DEFINE Z == Arrivals(EW, FirstSteps(EW, src))
    <2>1. Arrivals(EV, FirstSteps(EV, src)) \subseteq Z
        <3> HIDE DEF EV, EW
        <3> QED BY <1>2, <1>5, <1>6, <1>7, ServingReaches
    <2>2. \E x \in Z : x[1] = dst
        BY <1>9, <2>1
    <2> QED BY <2>2, OrderedByIs
<1> QED BY <1>8, <1>9, OrderedByIs
-----------------------------------------------------------------------------
(***************************************************************************)
(* Enforced, of the values it depends on.                                   *)
(***************************************************************************)
SpeaksOf(t, p, q) ==
    IF q.par1 = q.par2 THEN q.par1 \in t.occ[p.a].up \cup t.occ[p.b].up
    ELSE q.par1 \in t.occ[p.a].up /\ q.par2 \in t.occ[p.b].up

SeenBy(t, p, q) ==
    /\ SpeaksOf(t, p, q) /\ ~q.mayNotRun
    /\ ~(q.end < t.occ[p.a].end) /\ ~(q.start > t.occ[p.b].start)
    /\ ~(q.inner /\ p.num < q.num)

SeenEdges(t, S, p) == {Edge(q) : q \in {r \in S : SeenBy(t, p, r)}}

EnforcedBy(t, S, p) ==
    OrderedBy(SeenEdges(t, S, p), p.src, p.dst, t.occ[p.a].end, t.occ[p.b].start)

LEMMA EnforcedIs ==
    ASSUME NEW p
    PROVE  Enforced(p) <=> EnforcedBy(ir, ToSet(chosen) \cup ToSet(persistent), p)
BY DEF Enforced, EnforcedBy, SeenEdges, SeenBy, SpeaksOf, Visible, InScope

LEMMA EdgeIs ==
    ASSUME NEW q
    PROVE  /\ Edge(q).src = q.src /\ Edge(q).dst = q.dst
           /\ Edge(q).start = q.start /\ Edge(q).end = q.end
BY DEF Edge

LEMMA SeenEdgesAre ==
    ASSUME NEW t, NEW S, IsFiniteSet(S), PairsOk(t, S), NEW p
    PROVE  IsFiniteSet(SeenEdges(t, S, p)) /\ AreEdges(SeenEdges(t, S, p))
<1> DEFINE R == {r \in S : SeenBy(t, p, r)}
           f == [q \in R |-> Edge(q)]
<1>1. IsFiniteSet(R) /\ R \subseteq S
    BY FS_Subset
<1>2. SeenEdges(t, S, p) = {f[q] : q \in R}
    BY DEF SeenEdges
<1>3. IsFiniteSet({f[q] : q \in R})
    <2> HIDE DEF R, f
    <2> QED BY <1>1, ImageFinite
<1>4. \A q \in R : q.start \in Nat /\ q.end \in Nat
    BY <1>1 DEF PairsOk, PairOk
<1>5. AreEdges(SeenEdges(t, S, p))
    BY <1>4, EdgeIs DEF AreEdges, SeenEdges
<1> QED BY <1>2, <1>3, <1>5

LEMMA PlanTimes ==
    ASSUME NEW t, WellBuilt(t), NEW p, IsPlan(t, p)
    PROVE  /\ p.a \in DOMAIN t.occ /\ p.b \in DOMAIN t.occ
           /\ t.occ[p.a].end \in Nat /\ t.occ[p.b].start \in Nat
           /\ p.num \in Nat
<1>1. p.a \in DOMAIN t.occ /\ p.b \in DOMAIN t.occ /\ p.num \in Nat
    BY PlanFacts DEF IsOrder, IsAccess
<1>2. t.occ[p.a].end \in Nat /\ t.occ[p.b].start \in Nat
    BY <1>1, Built, TimeFacts
<1> QED BY <1>1, <1>2

(* A barrier between the two accesses, in a scope around either, enforces   *)
(* the plan.                                                                *)
StopsBetween(t, p, k) ==
    /\ k \in DOMAIN t.occ /\ t.occ[k].parent \in t.occ[p.a].up \cup t.occ[p.b].up
    /\ t.occ[p.a].end <= t.occ[k].start /\ t.occ[k].start <= t.occ[p.b].start

LEMMA BarrierEnforces ==
    ASSUME NEW t, WellBuilt(t), NEW p, IsPlan(t, p), NEW S, NEW q \in S, NEW pipe,
           NEW k, StopsBetween(t, p, k),
           StandsAt(t, q, k, pipe), pipe = All \/ (pipe = p.src /\ p.src = p.dst)
    PROVE  EnforcedBy(t, S, p)
<1> DEFINE s == t.occ[p.a].end
           e == t.occ[p.b].start
           V == SeenEdges(t, S, p)
           I == InsideOf(V, s, e)
           d == Edge(q)
<1>1. s \in Nat /\ e \in Nat /\ p.num \in Nat
    BY PlanTimes
<1>2. /\ k \in DOMAIN t.occ /\ t.occ[k].parent \in t.occ[p.a].up \cup t.occ[p.b].up
      /\ s <= t.occ[k].start /\ t.occ[k].start <= e
    BY DEF StopsBetween, s, e
<1>3. t.occ[k].start \in Nat
    BY <1>2, Built, TimeFacts
<1> HIDE DEF s, e
<1>4. /\ q.src = pipe /\ q.dst = pipe /\ q.start = t.occ[k].start /\ q.end = t.occ[k].start
      /\ q.par1 = t.occ[k].parent /\ q.par2 = t.occ[k].parent
      /\ q.mayNotRun = FALSE /\ q.inner = FALSE
    BY DEF StandsAt
<1>5. SeenBy(t, p, q)
    BY <1>1, <1>2, <1>3, <1>4 DEF SeenBy, SpeaksOf, s, e
<1>6. d \in V
    BY <1>5 DEF SeenEdges
<1>7. d.src = pipe /\ d.dst = pipe /\ d.start = t.occ[k].start /\ d.end = t.occ[k].start
    BY <1>4, EdgeIs
<1> HIDE DEF V, d
<1>8. d \in BarriersOf(I)
    BY <1>2, <1>6, <1>7 DEF InsideOf, BarriersOf, IsBarrier
<1>9. IsBarrierAll(d) \/ (d.src = p.src /\ p.src = p.dst)
    BY <1>7 DEF IsBarrierAll, IsBarrier
<1> DEFINE E == I \ BarriersOf(I)
<1>10. OrderedBy(V, p.src, p.dst, s, e)
    <2>2. I = InsideOf(V, s, e) /\ E = I \ BarriersOf(I)
        OBVIOUS
    <2> HIDE DEF I, E
    <2>1. OrderedBy(V, p.src, p.dst, s, e) <=>
              \/ \E b \in BarriersOf(I) : IsBarrierAll(b) \/ (b.src = p.src /\ p.src = p.dst)
              \/ \E x \in Arrivals(E, FirstSteps(E, p.src)) : x[1] = p.dst
        BY <2>2, OrderedByIs
    <2> QED BY <1>8, <1>9, <2>1
<1> QED BY <1>10 DEF EnforcedBy, V, s, e

(* So does one where the plan has it.                                       *)
LEMMA PlannedBarrier ==
    ASSUME NEW t, WellBuilt(t), NEW p, IsPlan(t, p)
    PROVE  StopsBetween(t, p, p.bar)
BY PlanFacts, BarrierWaitOccIsGood DEF StopsBetween

(* So does a pair of its channel between the two accesses.                  *)
LiesBetween(t, p, q) ==
    /\ q.src = p.src /\ q.dst = p.dst /\ p.src # p.dst
    /\ SpeaksOf(t, p, q) /\ ~q.mayNotRun /\ q.num <= p.num
    /\ t.occ[p.a].end <= q.start /\ q.end <= t.occ[p.b].start

LEMMA PairEnforces ==
    ASSUME NEW t, WellBuilt(t), NEW p, IsPlan(t, p), NEW S, IsFiniteSet(S), PairsOk(t, S),
           NEW q \in S, LiesBetween(t, p, q)
    PROVE  EnforcedBy(t, S, p)
<1> DEFINE s == t.occ[p.a].end
           e == t.occ[p.b].start
           V == SeenEdges(t, S, p)
           I == InsideOf(V, s, e)
           E == I \ BarriersOf(I)
           d == Edge(q)
           x == <<p.dst, d.end>>
<1>1. s \in Nat /\ e \in Nat /\ p.num \in Nat
    BY PlanTimes
<1>2. q.start \in Nat /\ q.end \in Nat /\ q.start <= q.end /\ q.num \in Nat
    BY DEF PairsOk, PairOk
<1> HIDE DEF s, e
<1>3. /\ q.src = p.src /\ q.dst = p.dst /\ p.src # p.dst /\ SpeaksOf(t, p, q) /\ ~q.mayNotRun
      /\ q.num <= p.num /\ s <= q.start /\ q.end <= e
    BY DEF LiesBetween, s, e
<1>4. SeenBy(t, p, q)
    BY <1>1, <1>2, <1>3 DEF SeenBy, s, e
<1>5. d \in V
    BY <1>4 DEF SeenEdges
<1>6. d.src = p.src /\ d.dst = p.dst /\ d.start = q.start /\ d.end = q.end
    BY <1>3, EdgeIs
<1>7. IsFiniteSet(V)
    BY SeenEdgesAre
<1> HIDE DEF V, d
<1>8. d \in E /\ IsFiniteSet(E)
    <2>1. d \in I /\ d \notin BarriersOf(I)
        BY <1>3, <1>5, <1>6 DEF InsideOf, BarriersOf, IsBarrier
    <2>2. E \subseteq V
        BY DEF InsideOf
    <2> QED BY <1>7, <2>1, <2>2, FS_Subset
<1> HIDE DEF E
<1>9. x \in FirstSteps(E, p.src)
    BY <1>6, <1>8 DEF FirstSteps
<1>10. x \in Arrivals(E, FirstSteps(E, p.src))
    BY <1>8, <1>9, ArrivalsAreClosed
<1>11. x[1] = p.dst
    OBVIOUS
<1> HIDE DEF x
<1>12. OrderedBy(V, p.src, p.dst, s, e)
    BY <1>10, <1>11, OrderedByIs DEF E
<1> QED BY <1>12 DEF EnforcedBy, V, s, e

(* What a pair enforced is enforced by itself, or by the same pair with a   *)
(* later set.                                                               *)
StandsFor(z, q) ==
    \/ z = q
    \/ /\ z.src = q.src /\ z.dst = q.dst /\ z.end = q.end /\ q.start <= z.start
       /\ z.par1 = q.par1 /\ z.par2 = q.par2 /\ z.num = q.num
       /\ z.mayNotRun = q.mayNotRun /\ z.inner = q.inner

LEMMA EnforcedStays ==
    ASSUME NEW t, WellBuilt(t), NEW p, IsPlan(t, p), NEW S, NEW T,
           IsFiniteSet(S), IsFiniteSet(T), PairsOk(t, S), PairsOk(t, T),
           \A q \in S : \E z \in T : StandsFor(z, q), EnforcedBy(t, S, p)
    PROVE  EnforcedBy(t, T, p)
<1> DEFINE s == t.occ[p.a].end
           e == t.occ[p.b].start
           V == SeenEdges(t, S, p)
           W == SeenEdges(t, T, p)
<1>1. s \in Nat /\ e \in Nat
    BY PlanTimes
<1>2. IsFiniteSet(V) /\ IsFiniteSet(W) /\ AreEdges(V) /\ AreEdges(W)
    BY SeenEdgesAre
<1> HIDE DEF s, e
<1>3. ASSUME NEW v \in InsideOf(V, s, e) PROVE \E w \in W : Serves(w, v)
    <2>1. v \in V /\ v.end <= e
        BY DEF InsideOf
    <2>2. PICK q \in S : v = Edge(q) /\ SeenBy(t, p, q)
        BY <2>1 DEF SeenEdges
    <2>3. PICK z \in T : StandsFor(z, q)
        OBVIOUS
    <2>4. /\ q.start \in Nat /\ q.end \in Nat /\ q.start <= q.end
          /\ z.start \in Nat /\ z.end \in Nat /\ z.start <= z.end
        BY <2>3 DEF PairsOk, PairOk
    <2>5. /\ z.src = q.src /\ z.dst = q.dst /\ z.end = q.end /\ q.start <= z.start
          /\ z.par1 = q.par1 /\ z.par2 = q.par2 /\ z.num = q.num
          /\ z.mayNotRun = q.mayNotRun /\ z.inner = q.inner
        BY <2>3, <2>4 DEF StandsFor
    <2>6. q.end <= e
        BY <2>1, <2>2, EdgeIs
    <2>7. ~(z.start > e) /\ ~(z.end < s)
        BY <1>1, <2>2, <2>4, <2>5, <2>6 DEF SeenBy, s
    <2>8. SeenBy(t, p, z)
        BY <2>2, <2>5, <2>7 DEF SeenBy, SpeaksOf, s, e
    <2>9. Edge(z) \in W
        BY <2>8 DEF SeenEdges
    <2>10. Serves(Edge(z), v)
        BY <2>2, <2>5, EdgeIs DEF Serves
    <2> QED BY <2>9, <2>10
<1> HIDE DEF V, W
<1>4. ServeFor(W, InsideOf(V, s, e))
    BY <1>3 DEF ServeFor
<1>5. OrderedBy(V, p.src, p.dst, s, e)
    BY DEF EnforcedBy, V, s, e
<1>6. OrderedBy(W, p.src, p.dst, s, e)
    BY <1>1, <1>2, <1>4, <1>5, ServingOrders
<1> QED BY <1>6 DEF EnforcedBy, W, s, e

LEMMA ListedIsFinite ==
    ASSUME NEW s, Listed(s)
    PROVE  IsFiniteSet(ToSet(s))
<1> DEFINE n == Len(s)
           f == [i \in 1 .. n |-> s[i]]
<1>1. n \in Nat /\ DOMAIN s = 1 .. n
    BY ListLength
<1> HIDE DEF n
<1>2. IsFiniteSet(1 .. n)
    <2>1. 1 \in Int /\ n \in Int
        BY <1>1
    <2> QED BY <2>1, FS_Interval
<1>3. ToSet(s) = {f[i] : i \in 1 .. n}
    BY <1>1 DEF ToSet
<1>4. IsFiniteSet({f[i] : i \in 1 .. n})
    <2> HIDE DEF f
    <2> QED BY <1>2, ImageFinite
<1> QED BY <1>3, <1>4

(* A conflict is handled when everything chosen still stands and the plan   *)
(* is enforced.                                                             *)
Pairs      == ToSet(chosen) \cup ToSet(persistent)
StillStand == \A q \in Pairs : \E z \in Pairs' : StandsFor(z, q)

LEMMA PairsAre ==
    ASSUME NEW t, NEW c, Listed(c), PairsOk(t, ToSet(c)),
           NEW p, Listed(p), PairsOk(t, ToSet(p)), NEW S, S = ToSet(c) \cup ToSet(p)
    PROVE  IsFiniteSet(S) /\ PairsOk(t, S)
<1>1. IsFiniteSet(ToSet(c)) /\ IsFiniteSet(ToSet(p))
    BY ListedIsFinite
<1>2. IsFiniteSet(S)
    BY <1>1, FS_Union
<1>3. PairsOk(t, S)
    BY DEF PairsOk
<1> QED BY <1>2, <1>3

LEMMA MorePairsStand ==
    ASSUME Pairs \subseteq Pairs'
    PROVE  StillStand
BY DEF StillStand, StandsFor

LEMMA BarrierEnforcesPlan ==
    ASSUME Core, HandleBarrierConflict
    PROVE  StillStand /\ EnforcedBy(ir, Pairs', plan)
<1>1. next \in DOMAIN plans /\ IsPlan(ir, plan) /\ WellBuilt(ir) /\ plan.kind = "barrier"
    BY ContinueCounts DEF HandleBarrierConflict
<1> DEFINE q == BarrierBefore(plan.wait, plan.src, plan.useless)
           pipe == plan.src
<1>2. plan.src = plan.dst /\ plan.wait = plan.bar
    BY <1>1, PlanFacts
<1>3. StandsAt(ir, q, plan.bar, pipe)
    BY <1>2, BarrierBeforeIs
<1>4. chosen' = Append(chosen, q) /\ persistent' = persistent
    BY DEF HandleBarrierConflict
<1> HIDE DEF q
<1>5. ToSet(chosen') = ToSet(chosen) \cup {q}
    BY <1>4, Appended DEF Core
<1>6. Pairs' = Pairs \cup {q}
    BY <1>4, <1>5 DEF Pairs
<1>7. EnforcedBy(ir, Pairs', plan)
    <2> DEFINE S == Pairs'
               t == ir
               p == plan
    <2>1. q \in S /\ (pipe = All \/ (pipe = p.src /\ p.src = p.dst))
        BY <1>2, <1>6
    <2>2. WellBuilt(t) /\ IsPlan(t, p) /\ StandsAt(t, q, p.bar, pipe)
        BY <1>1, <1>3
    <2> HIDE DEF S, t, p, pipe
    <2>3. EnforcedBy(t, S, p)
        BY <2>1, <2>2, PlannedBarrier, BarrierEnforces
    <2> QED BY <2>3 DEF S, t, p
<1> QED BY <1>6, <1>7, MorePairsStand

(* The pair that is made first, and one that it can reuse, stand between    *)
(* the two accesses.                                                        *)
LEMMA MainIsBetween ==
    ASSUME IsProgram(prog), next \in DOMAIN plans, plan.kind = "setwait", plan.ok,
           NEW q, q = MainPair
    PROVE  /\ LiesBetween(ir, plan, q)
           /\ q.par1 # q.par2 => /\ q.par1 \in ir.occ[plan.a].up
                                 /\ q.par2 \in ir.occ[plan.b].up
           /\ ir.occ[plan.a].end \in Nat
<1>1. WellBuilt(ir) /\ IsPlan(ir, plan)
    BY DEF IsProgram, ir, plan, plans
<1>2. plan.src # plan.dst /\ AroundBoth(ir, plan.a, plan.b, plan.set, plan.wait)
    BY <1>1, SetWaitPlanFacts
<1>3. /\ q.src = plan.src /\ q.dst = plan.dst
      /\ q.par1 = ir.occ[plan.set].parent /\ q.par2 = ir.occ[plan.wait].parent
      /\ q.start = ir.occ[plan.set].end /\ q.end = ir.occ[plan.wait].start
    BY MainPairIs
<1>4. ~q.mayNotRun /\ q.num <= plan.num
    BY MainPairIsOk
<1>5. /\ \/ q.par1 \in ir.occ[plan.a].up /\ q.par2 \in ir.occ[plan.b].up
         \/ q.par1 = q.par2 /\ q.par1 \in ir.occ[plan.a].up \cup ir.occ[plan.b].up
      /\ ir.occ[plan.a].end <= q.start /\ q.end <= ir.occ[plan.b].start
    BY <1>2, <1>3 DEF AroundBoth
<1>6. SpeaksOf(ir, plan, q)
    BY <1>5 DEF SpeaksOf
<1>7. LiesBetween(ir, plan, q)
    BY <1>2, <1>3, <1>4, <1>5, <1>6 DEF LiesBetween
<1> QED BY <1>1, <1>5, <1>7, PlanTimes

LEMMA PairEnforcesPlan ==
    ASSUME Core, IsPlan(ir, plan), NEW S, IsFiniteSet(S), PairsOk(ir, S),
           NEW q \in S, LiesBetween(ir, plan, q)
    PROVE  EnforcedBy(ir, S, plan)
<1> DEFINE t == ir
           p == plan
<1>1. WellBuilt(t) /\ IsPlan(t, p) /\ PairsOk(t, S) /\ LiesBetween(t, p, q)
    BY DEF Core, IsProgram, ir
<1> HIDE DEF t, p
<1>2. EnforcedBy(t, S, p)
    BY <1>1, PairEnforces
<1> QED BY <1>2 DEF t, p

LEMMA ReuseEnforcesPlan ==
    ASSUME Core, NEW r, ReuseConflictPair(r)
    PROVE  StillStand /\ EnforcedBy(ir, Pairs', plan)
<1> DEFINE q == MainPair
           z == Extended(r, q)
<1>1. /\ r \in ToSet(chosen) /\ r.start < q.start /\ q.start <= r.end /\ q.start \in Nat
      /\ r.end <= q.end /\ q.end \in Nat /\ Channel(r) = Channel(q) /\ ~r.dontReuse
      /\ r.num <= q.num /\ InScopesOf(q, r) /\ PairOk(ir, r) /\ PairOk(ir, q)
      /\ q.num <= plan.num /\ next \in DOMAIN plans /\ IsPlan(ir, plan) /\ plan.ok
      /\ plan.kind = "setwait"
    BY ReusedPair
<1>2. /\ LiesBetween(ir, plan, q)
      /\ q.par1 # q.par2 => q.par1 \in ir.occ[plan.a].up /\ q.par2 \in ir.occ[plan.b].up
      /\ ir.occ[plan.a].end \in Nat
    <2>1. IsProgram(prog)
        BY DEF Core
    <2> HIDE DEF q
    <2>2. q = MainPair
        BY DEF q
    <2> QED BY <1>1, <2>1, <2>2, MainIsBetween
<1>3. /\ ToSet(chosen') \subseteq ToSet(chosen) \cup {z}
      /\ ToSet(chosen) \cup {z} \subseteq ToSet(chosen') \cup {r}
    BY ReuseChooses
<1>4. persistent' = persistent /\ Core' /\ ir' = ir
    BY ReuseKeepsCore DEF ReuseConflictPair, ir
<1> HIDE DEF q
<1>5. /\ PairOk(ir, z) /\ Channel(z) = Channel(r) /\ z.start = q.start /\ z.end = r.end
      /\ z.src = r.src /\ z.dst = r.dst
    BY <1>1, ExtendedIsOk
<1>6. DOMAIN r = Fields
    BY <1>1 DEF PairOk
<1>7. \A f \in Fields \ {"set", "start", "mirrorSet", "mirrorWait"} : z[f] = r[f]
    BY <1>6, ExtendedIs
<1>8. /\ z.par1 = r.par1 /\ z.par2 = r.par2 /\ z.num = r.num /\ z.mayNotRun = r.mayNotRun
      /\ z.inner = r.inner
    BY <1>7 DEF Fields
<1> HIDE DEF z
<1>9. r.start \in Nat /\ r.end \in Nat /\ r.num \in Nat /\ q.num \in Nat /\ ~r.mayNotRun
    BY <1>1 DEF PairOk
<1>10. plan.num \in Nat /\ ir.occ[plan.b].start \in Nat
    BY <1>1, PlanTimes DEF Core, IsProgram, ir
<1>11. StandsFor(z, r)
    BY <1>1, <1>5, <1>8, <1>9 DEF StandsFor
<1>12. z \in Pairs'
    <2>1. z # r
        BY <1>1, <1>5, <1>9
    <2> QED BY <1>3, <2>1 DEF Pairs
<1>13. StillStand
    <2>1. ASSUME NEW y \in Pairs, y # r PROVE y \in Pairs'
        BY <1>3, <1>4, <2>1 DEF Pairs
    <2>2. \A y : StandsFor(y, y)
        BY DEF StandsFor
    <2> QED BY <1>11, <1>12, <2>1, <2>2 DEF StillStand
<1>14. LiesBetween(ir, plan, z)
    <2>1. /\ q.src = plan.src /\ q.dst = plan.dst /\ plan.src # plan.dst
          /\ ir.occ[plan.a].end <= q.start /\ q.end <= ir.occ[plan.b].start
          /\ SpeaksOf(ir, plan, q)
        BY <1>2 DEF LiesBetween
    <2>2. z.src = plan.src /\ z.dst = plan.dst
        BY <1>1, <1>5, <2>1 DEF Channel
    <2>3. z.num <= plan.num /\ ~z.mayNotRun
        BY <1>1, <1>8, <1>9, <1>10
    <2>4. ir.occ[plan.a].end <= z.start /\ z.end <= ir.occ[plan.b].start
        BY <1>1, <1>5, <1>9, <1>10, <2>1
    <2>5. SpeaksOf(ir, plan, z)
        <3>1. \/ z.par1 = q.par1 /\ z.par2 = q.par1
              \/ z.par1 = q.par2 /\ z.par2 = q.par2
              \/ z.par1 = q.par1 /\ z.par2 = q.par2
            BY <1>1, <1>8 DEF InScopesOf
        <3> QED BY <1>2, <2>1, <3>1 DEF SpeaksOf
    <2> QED BY <2>1, <2>2, <2>3, <2>4, <2>5 DEF LiesBetween
<1>15. EnforcedBy(ir, Pairs', plan)
    <2> DEFINE S == Pairs'
    <2>1. IsFiniteSet(S) /\ PairsOk(ir, S)
        <3>1. /\ Listed(chosen') /\ PairsOk(ir, ToSet(chosen'))
              /\ Listed(persistent') /\ PairsOk(ir, ToSet(persistent'))
            BY <1>4 DEF Core
        <3> QED BY <3>1, PairsAre DEF Pairs
    <2>2. z \in S
        BY <1>12
    <2> HIDE DEF S
    <2>3. EnforcedBy(ir, S, plan)
        BY <1>1, <1>14, <2>1, <2>2, PairEnforcesPlan
    <2> QED BY <2>3 DEF S
<1> QED BY <1>13, <1>15

LEMMA AddingEnforcesPlan ==
    ASSUME Core, HandleSetWaitConflict, NEW main, main = MainPair,
           NEW pairs, pairs = <<main>> \o ExtraPairs(main), NEW n, n = NodeOf(main),
           AddsPairs(main, pairs, n)
    PROVE  StillStand /\ EnforcedBy(ir, Pairs', plan)
<1>1. /\ ir' = ir /\ IsProgram(prog) /\ next \in DOMAIN plans /\ IsPlan(ir, plan)
      /\ plan.kind = "setwait" /\ plan.ok /\ UNCHANGED persistent
    BY SetWaitContext
<1>2. PICK T : /\ ToSet(chosen') = ToSet(chosen) \cup T
               /\ \E q \in T : Like(q, main, n)
    <2> DEFINE S == chosen
               s == chosen'
    <2>1. s = S \o AddedPairs(pairs, n) /\ Listed(S)
        BY DEF AddsPairs, Core
    <2> HIDE DEF s, S
    <2>2. IsAdded(S, s, main, pairs, n)
        BY <1>1, <2>1, AddedAre
    <2>3. PICK T : /\ ToSet(s) = ToSet(S) \cup T
                   /\ \E q \in T : Like(q, main, n)
        BY <2>2 DEF IsAdded
    <2> QED BY <2>3 DEF s, S
<1>3. Pairs' = Pairs \cup T
    BY <1>1, <1>2 DEF Pairs
<1>4. PICK q \in T : Like(q, main, n)
    BY <1>2
<1>5. LiesBetween(ir, plan, main)
    BY <1>1, MainIsBetween
<1>6. /\ q.src = main.src /\ q.dst = main.dst /\ q.start = main.start /\ q.end = main.end
      /\ q.par1 = main.par1 /\ q.par2 = main.par2 /\ q.num = main.num
      /\ q.mayNotRun = main.mayNotRun
    BY <1>4 DEF Like, Fields
<1>7. LiesBetween(ir, plan, q)
    BY <1>5, <1>6 DEF LiesBetween, SpeaksOf
<1>8. EnforcedBy(ir, Pairs', plan)
    <2> DEFINE S == Pairs'
    <2>1. IsFiniteSet(S) /\ PairsOk(ir, S)
        <3>1. Core'
            BY AddingKeepsCore
        <3>2. /\ Listed(chosen') /\ PairsOk(ir, ToSet(chosen'))
              /\ Listed(persistent') /\ PairsOk(ir, ToSet(persistent'))
            BY <1>1, <3>1 DEF Core
        <3> QED BY <3>2, PairsAre DEF Pairs
    <2>2. q \in S
        BY <1>3
    <2> HIDE DEF S
    <2>3. EnforcedBy(ir, S, plan)
        BY <1>1, <1>7, <2>1, <2>2, PairEnforcesPlan
    <2> QED BY <2>3 DEF S
<1> QED BY <1>3, <1>8, MorePairsStand

LEMMA BarrierAllEnforcesPlan ==
    ASSUME Core, HandleSetWaitConflict, NEW main, main = MainPair, AddsBarrierAll(main)
    PROVE  StillStand /\ EnforcedBy(ir, Pairs', plan)
<1> DEFINE k == plan.bar
           x == ir.occ[k].op
           bs == BarrierAllBefore(x, main.useless)
<1>1. /\ IsPlan(ir, plan) /\ WellBuilt(ir) /\ UNCHANGED persistent
    BY SetWaitContext
<1>2. chosen' = chosen \o bs
    BY DEF AddsBarrierAll
<1>3. k \in DOMAIN ir.occ
    BY <1>1, PlanFacts, BarrierWaitOccIsGood
<1> HIDE DEF k, x
<1>4. /\ Listed(bs)
      /\ \A j \in DOMAIN ir.occ : ir.occ[j].op = x => \E q \in ToSet(bs) : StandsAt(ir, q, j, All)
    BY <1>1, BarrierAllAre
<1>5. PICK q \in ToSet(bs) : StandsAt(ir, q, k, All)
    BY <1>3, <1>4 DEF x
<1> HIDE DEF bs
<1>6. ToSet(chosen') = ToSet(chosen) \cup ToSet(bs)
    BY <1>2, <1>4, Concatenated DEF Core
<1>7. Pairs' = Pairs \cup ToSet(bs)
    BY <1>1, <1>6 DEF Pairs
<1>8. EnforcedBy(ir, Pairs', plan)
    <2> DEFINE S == Pairs'
               t == ir
               p == plan
               pipe == All
    <2>1. q \in S /\ (pipe = All \/ (pipe = p.src /\ p.src = p.dst))
        BY <1>5, <1>7
    <2>2. WellBuilt(t) /\ IsPlan(t, p) /\ StandsAt(t, q, p.bar, pipe)
        BY <1>1, <1>5 DEF k
    <2> HIDE DEF S, t, p, pipe
    <2>3. EnforcedBy(t, S, p)
        BY <2>1, <2>2, PlannedBarrier, BarrierEnforces
    <2> QED BY <2>3 DEF S, t, p
<1> QED BY <1>7, <1>8, MorePairsStand

LEMMA ConflictEnforcesPlan ==
    ASSUME Core, HandleConflict
    PROVE  StillStand /\ EnforcedBy(ir, Pairs', plan)
<1>1. ASSUME HandleSetWaitConflict PROVE StillStand /\ EnforcedBy(ir, Pairs', plan)
    <2> DEFINE main == MainPair
               pairs == <<main>> \o ExtraPairs(main)
               n == NodeOf(main)
    <2>1. AddsPairs(main, pairs, n) \/ AddsBarrierAll(main)
        BY <1>1, SetWaitCases
    <2> HIDE DEF main
    <2>2. main = MainPair
        BY DEF main
    <2>3. ASSUME AddsPairs(main, pairs, n) PROVE StillStand /\ EnforcedBy(ir, Pairs', plan)
        <3>1. pairs = <<main>> \o ExtraPairs(main) /\ n = NodeOf(main)
            OBVIOUS
        <3> HIDE DEF pairs, n
        <3> QED BY <1>1, <2>2, <2>3, <3>1, AddingEnforcesPlan
    <2>4. ASSUME AddsBarrierAll(main) PROVE StillStand /\ EnforcedBy(ir, Pairs', plan)
        BY <1>1, <2>2, <2>4, BarrierAllEnforcesPlan
    <2> QED BY <2>1, <2>3, <2>4
<1> QED BY <1>1, BarrierEnforcesPlan, ReuseEnforcesPlan DEF HandleConflict

(* The plans that a run is past are enforced, and it only ends past the last. *)
Passed ==
    /\ \A i \in 1 .. next - 1 : EnforcedBy(ir, Pairs, plans[i])
    /\ pc # "process" => next > Len(plans)

LEMMA ContinuesPassed ==
    ASSUME Core, Passed, ProcessingOrder, Continue, ir' = ir, plans' = plans,
           EnforcedBy(ir, Pairs', plan),
           \A i \in 1 .. next - 1 : EnforcedBy(ir, Pairs', plans[i])
    PROVE  Passed'
<1>1. next \in Nat /\ pc = "process" /\ pc' = pc /\ next' = next + 1
    BY DEF Core, CountersOk, ProcessingOrder, Continue
<1>2. ASSUME NEW i \in 1 .. next' - 1 PROVE EnforcedBy(ir, Pairs', plans[i])
    <2>1. CASE i = next
        BY <2>1 DEF plan
    <2>2. CASE i # next
        <3>1. i \in 1 .. next - 1
            BY <1>1, <2>2
        <3> QED BY <3>1
    <2> QED BY <2>1, <2>2
<1> QED BY <1>1, <1>2 DEF Passed

LEMMA ConflictKeepsPassed ==
    ASSUME Core, Passed, HandleConflict, ProcessingOrder, Core'
    PROVE  Passed'
<1>1. Continue /\ UNCHANGED <<prog, runNum, final>>
    <2>1. CASE HandleBarrierConflict
        BY <2>1 DEF HandleBarrierConflict
    <2>2. ASSUME NEW r, ReuseConflictPair(r)
          PROVE  Continue /\ UNCHANGED <<prog, runNum, final>>
        BY <2>2 DEF ReuseConflictPair
    <2>3. CASE HandleSetWaitConflict
        BY <2>3 DEF HandleSetWaitConflict
    <2> QED BY <2>1, <2>2, <2>3 DEF HandleConflict
<1>2. ir' = ir /\ plans' = plans
    BY <1>1 DEF ir, plans
<1>3. StillStand /\ EnforcedBy(ir, Pairs', plan)
    BY ConflictEnforcesPlan
<1> DEFINE S == Pairs
           T == Pairs'
<1>4. IsFiniteSet(S) /\ PairsOk(ir, S)
    <2>1. /\ Listed(chosen) /\ PairsOk(ir, ToSet(chosen))
          /\ Listed(persistent) /\ PairsOk(ir, ToSet(persistent))
        BY DEF Core
    <2> QED BY <2>1, PairsAre DEF Pairs
<1>5. IsFiniteSet(T) /\ PairsOk(ir, T)
    <2>1. /\ Listed(chosen') /\ PairsOk(ir, ToSet(chosen'))
          /\ Listed(persistent') /\ PairsOk(ir, ToSet(persistent'))
        BY <1>2 DEF Core
    <2> QED BY <2>1, PairsAre DEF Pairs
<1>6. ASSUME NEW i \in 1 .. next - 1 PROVE EnforcedBy(ir, T, plans[i])
    <2> DEFINE t == ir
               p == plans[i]
    <2>1. WellBuilt(t) /\ IsPlan(t, p)
        <3>1. i \in DOMAIN prog.plans
            <4>1. next \in 1 .. Len(prog.plans) + 1 /\ Listed(prog.plans)
                BY DEF Core, CountersOk, IsProgram
            <4>2. DOMAIN prog.plans = 1 .. Len(prog.plans) /\ Len(prog.plans) \in Nat
                BY <4>1, ListLength
            <4> QED BY <4>1, <4>2
        <3> QED BY <3>1 DEF Core, IsProgram, plans, ir
    <2>2. EnforcedBy(t, S, p)
        BY DEF Passed
    <2>3. \A q \in S : \E z \in T : StandsFor(z, q)
        BY <1>3 DEF StillStand
    <2>4. PairsOk(t, S) /\ PairsOk(t, T)
        BY <1>4, <1>5
    <2> HIDE DEF S, T, t, p
    <2>5. EnforcedBy(t, T, p)
        BY <1>4, <1>5, <2>1, <2>2, <2>3, <2>4, EnforcedStays
    <2> QED BY <2>5 DEF t, p
<1> QED BY <1>1, <1>2, <1>3, <1>6, ContinuesPassed

LEMMA StepKeepsPassed ==
    ASSUME Core, version = 1 => Passed, [NextSolver]_varsSolver, Core'
    PROVE  (version = 1 => Passed)'
<1>1. version' = version
    BY DEF NextSolver, varsSolver
<1> SUFFICES ASSUME version = 1, Passed PROVE Passed'
    BY <1>1
<1>2. CASE UNCHANGED vars
    <2>1. /\ ir' = ir /\ plans' = plans /\ pc' = pc /\ next' = next /\ Pairs' = Pairs
        BY <1>2 DEF vars, perRun, ir, plans, Pairs
    <2> QED BY <2>1 DEF Passed
<1>3. CASE SkipOrder
    <2>1. /\ ir' = ir /\ plans' = plans /\ Pairs' = Pairs
        BY <1>3 DEF SkipOrder, ir, plans, Pairs
    <2>2. EnforcedBy(ir, Pairs', plan)
        <3>1. Enforced(plan) <=> EnforcedBy(ir, Pairs, plan)
            BY EnforcedIs DEF Pairs
        <3> QED BY <1>3, <2>1, <3>1 DEF SkipOrder
    <2>3. \A i \in 1 .. next - 1 : EnforcedBy(ir, Pairs', plans[i])
        BY <2>1 DEF Passed
    <2>4. ProcessingOrder /\ Continue
        BY <1>3 DEF SkipOrder
    <2> QED BY <2>1, <2>2, <2>3, <2>4, ContinuesPassed
<1>4. CASE HandleConflict /\ ProcessingOrder
    BY <1>4, ConflictKeepsPassed
<1>5. CASE StartOver
    <2>1. next' = 1 /\ pc' = "process"
        BY <1>5 DEF StartOver, ConsiderOuter, ReuseToSaveIds, DisableMultiEventId, PickBarrierAll,
               Settle, BeginRun, NextRun, OuterSettled, RunEnded
    <2>2. 1 .. next' - 1 = {}
        BY <2>1
    <2> QED BY <2>1, <2>2 DEF Passed
<1>6. CASE Finish
    <2>1. /\ ir' = ir /\ plans' = plans /\ next' = next /\ Pairs' = Pairs /\ next > Len(plans)
        BY <1>6 DEF Finish, RunEnded, perRun, ir, plans, Pairs
    <2> QED BY <2>1 DEF Passed
<1>7. UNCHANGED vars \/ SkipOrder \/ (HandleConflict /\ ProcessingOrder) \/ StartOver \/ Finish
    BY DEF NextSolver, Next, ProcessOrder, varsSolver, varsV2
<1> QED BY <1>2, <1>3, <1>4, <1>5, <1>6, <1>7
-----------------------------------------------------------------------------
(***************************************************************************)
(* The kept graphs of the second version count the pairs of its lists.      *)
(***************************************************************************)
JoinOf(u, s, t) == u = s \o t

LEMMA Joined ==
    ASSUME NEW s, Listed(s), NEW t, Listed(t), NEW n, n = Len(s), NEW m, m = Len(t),
           NEW u, JoinOf(u, s, t)
    PROVE  /\ n \in Nat /\ m \in Nat /\ Listed(u) /\ Len(u) = n + m
           /\ \A i \in 1 .. n : u[i] = s[i]
           /\ \A i \in 1 .. m : u[n + i] = t[i]
<1> DEFINE T == ToSet(s) \cup ToSet(t)
<1>1. s \in Seq(T) /\ t \in Seq(T)
    <2> DEFINE R == ToSet(s)
               U == ToSet(t)
    <2>1. s \in Seq(R) /\ t \in Seq(U) /\ R \subseteq T /\ U \subseteq T
        BY DEF Listed
    <2> HIDE DEF R, U, T
    <2> QED BY <2>1
<1>2. Listed(u)
    BY Concatenated DEF JoinOf
<1>3. n \in Nat /\ m \in Nat
    BY ListLength
<1>4. /\ Len(u) = n + m
      /\ \A i \in 1 .. n + m : u[i] = IF i <= n THEN s[i] ELSE t[i - n]
    <2> HIDE DEF T
    <2> QED BY <1>1, ConcatProperties DEF JoinOf
<1>5. ASSUME NEW i \in 1 .. n PROVE u[i] = s[i]
    <2>1. i \in 1 .. n + m /\ i <= n
        BY <1>3
    <2> QED BY <1>4, <2>1
<1>6. ASSUME NEW i \in 1 .. m PROVE u[n + i] = t[i]
    <2>1. n + i \in 1 .. n + m /\ ~(n + i <= n) /\ (n + i) - n = i
        BY <1>3
    <2>2. u[n + i] = IF n + i <= n THEN s[n + i] ELSE t[(n + i) - n]
        BY <1>4, <2>1
    <2> QED BY <2>1, <2>2
<1> QED BY <1>2, <1>3, <1>4, <1>5, <1>6

IsBehind(k, s, t, i) == i \in 1 .. Len(t) /\ k = Len(s) + i

LEMMA JoinedAt ==
    ASSUME NEW s, Listed(s), NEW t, Listed(t), NEW u, JoinOf(u, s, t),
           NEW i, NEW k, IsBehind(k, s, t, i)
    PROVE  u[k] = t[i]
<1> DEFINE T == ToSet(s) \cup ToSet(t)
           n == Len(s)
           m == Len(t)
<1>1. s \in Seq(T) /\ t \in Seq(T)
    <2> DEFINE R == ToSet(s)
               U == ToSet(t)
    <2>1. s \in Seq(R) /\ t \in Seq(U) /\ R \subseteq T /\ U \subseteq T
        BY DEF Listed
    <2> HIDE DEF R, U, T
    <2> QED BY <2>1
<1>2. n \in Nat /\ m \in Nat
    BY ListLength
<1>3. \A x \in 1 .. n + m : u[x] = IF x <= n THEN s[x] ELSE t[x - n]
    <2> HIDE DEF T
    <2> QED BY <1>1, ConcatProperties DEF JoinOf
<1>5. i \in 1 .. m /\ k = n + i
    BY DEF IsBehind
<1>4. k \in 1 .. n + m /\ ~(k <= n) /\ k - n = i
    <2> HIDE DEF n, m
    <2> QED BY <1>2, <1>5
<1> QED BY <1>3, <1>4

LEMMA JoinedOne ==
    ASSUME NEW s, Listed(s), NEW e
    PROVE  Append(s, e) = s \o <<e>>
<1> DEFINE R == ToSet(s)
           T == R \cup {e}
<1>1. s \in Seq(R)
    BY DEF Listed
<1>2. s \in Seq(T) /\ e \in T
    <2> HIDE DEF R
    <2>1. R \subseteq T /\ e \in T
        OBVIOUS
    <2> HIDE DEF T
    <2> QED BY <1>1, <2>1
<1> HIDE DEF T
<1> QED BY <1>2, AppendIsConcat

(* What is left around a place that is removed.                             *)
LeftOf(u, s, n, k, f, l) ==
    /\ Listed(f) /\ Listed(l) /\ u = f \o l
    /\ Len(f) = n - 1 /\ Len(l) = k - n /\ k \in Nat /\ n \in 1 .. k
    /\ \A i \in 1 .. n - 1 : f[i] = s[i]
    /\ \A i \in 1 .. k - n : l[i] = s[n + i]

LEMMA RemovedIs ==
    ASSUME NEW s, Listed(s), NEW n \in DOMAIN s, NEW k, k = Len(s), NEW u, u = RemoveAt(s, n)
    PROVE  \E f, l : LeftOf(u, s, n, k, f, l)
<1> DEFINE R == ToSet(s)
           f == SubSeq(s, 1, n - 1)
           l == SubSeq(s, n + 1, k)
<1>1. k \in Nat /\ DOMAIN s = 1 .. k /\ n \in 1 .. k
    BY LenProperties DEF Listed
<1>2. \A i \in 1 .. k : s[i] \in R
    BY <1>1 DEF ToSet
<1>3. /\ f \in Seq(R) /\ Len(f) = n - 1
      /\ \A i \in 1 .. n - 1 : f[i] = s[i]
    <2>1. 1 \in Int /\ n - 1 \in Int /\ \A i \in 1 .. n - 1 : s[i] \in R
        BY <1>1, <1>2
    <2> HIDE DEF R
    <2>2. /\ Len(f) = (IF 1 <= n - 1 THEN n - 1 - 1 + 1 ELSE 0)
          /\ \A i \in 1 .. n - 1 - 1 + 1 : f[i] = s[1 + i - 1]
          /\ f \in Seq(R)
        BY <2>1, SubSeqProperties
    <2> QED BY <1>1, <2>2
<1>4. /\ l \in Seq(R) /\ Len(l) = k - n
      /\ \A i \in 1 .. k - n : l[i] = s[n + i]
    <2>1. n + 1 \in Int /\ k \in Int /\ \A i \in n + 1 .. k : s[i] \in R
        BY <1>1, <1>2
    <2> HIDE DEF R
    <2>2. /\ Len(l) = (IF n + 1 <= k THEN k - (n + 1) + 1 ELSE 0)
          /\ \A i \in 1 .. k - (n + 1) + 1 : l[i] = s[n + 1 + i - 1]
          /\ l \in Seq(R)
        BY <2>1, SubSeqProperties
    <2>3. k - (n + 1) + 1 = k - n
        BY <1>1
    <2>4. (IF n + 1 <= k THEN k - (n + 1) + 1 ELSE 0) = k - n
        BY <1>1
    <2> HIDE DEF l
    <2>5. ASSUME NEW i \in 1 .. k - n PROVE l[i] = s[n + i]
        <3>1. l[i] = s[n + 1 + i - 1]
            BY <2>2, <2>3
        <3>2. n + 1 + i - 1 = n + i
            BY <1>1
        <3> QED BY <3>1, <3>2
    <2> QED BY <2>2, <2>4, <2>5
<1>5. Listed(f) /\ Listed(l)
    <2> HIDE DEF f, l, R
    <2> QED BY <1>3, <1>4, SeqOfIts
<1>6. u = f \o l
    BY DEF RemoveAt
<1> HIDE DEF f, l
<1>7. LeftOf(u, s, n, k, f, l)
    BY <1>1, <1>3, <1>4, <1>5, <1>6 DEF LeftOf
<1> QED BY <1>7

ConcernsIn(t, q, key) ==
    LET A == Line(t.occ, key[1])
        B == Line(t.occ, key[2])
    IN  /\ ~q.mayNotRun
        /\ q.num <= key[3]
        /\ IF q.par1 = q.par2 THEN q.par1 \in A \cup B
           ELSE \/ q.par1 \in A /\ q.par2 \in B
                \/ q.par1 \in B /\ q.par2 \in A

Hit(t, q, key, e) == ConcernsIn(t, q, key) /\ Edge(q) = e

(* How often an edge of the graph of `key' is in a stretch of a list.       *)
HitsIn(t, s, key, e, lo, hi) == {i \in lo .. hi : Hit(t, s[i], key, e)}
Many(t, s, key, e, lo, hi)   == Cardinality(HitsIn(t, s, key, e, lo, hi))
Count(t, s, key, e)          == Many(t, s, key, e, 1, Len(s))

LEMMA ManyIsNat ==
    ASSUME NEW lo \in Int, NEW hi \in Int, NEW t, NEW s, NEW key, NEW e
    PROVE  /\ IsFiniteSet(HitsIn(t, s, key, e, lo, hi))
           /\ Many(t, s, key, e, lo, hi) \in Nat
<1>1. IsFiniteSet(lo .. hi)
    BY FS_Interval
<1>2. HitsIn(t, s, key, e, lo, hi) \subseteq lo .. hi
    BY DEF HitsIn
<1>3. IsFiniteSet(HitsIn(t, s, key, e, lo, hi))
    BY <1>1, <1>2, FS_Subset
<1> QED BY <1>3, FS_CardinalityType DEF Many

LEMMA ManySplit ==
    ASSUME NEW n \in Int, NEW m \in Int, NEW lo \in Int, lo <= m + 1, m <= n,
           NEW t, NEW s, NEW key, NEW e
    PROVE  Many(t, s, key, e, lo, n) = Many(t, s, key, e, lo, m) + Many(t, s, key, e, m + 1, n)
<1> DEFINE A == HitsIn(t, s, key, e, lo, m)
           B == HitsIn(t, s, key, e, m + 1, n)
<1>1. HitsIn(t, s, key, e, lo, n) = A \cup B /\ A \cap B = {}
    BY DEF HitsIn
<1>2. IsFiniteSet(A) /\ IsFiniteSet(B) /\ Cardinality(A) \in Nat /\ Cardinality(B) \in Nat
    <2>1. m + 1 \in Int
        OBVIOUS
    <2> QED BY <2>1, ManyIsNat, FS_CardinalityType
<1> HIDE DEF A, B
<1>3. Cardinality(A \cup B) = Cardinality(A) + Cardinality(B)
    <2>1. Cardinality(A \cup B) = Cardinality(A) + Cardinality(B) - Cardinality(A \cap B)
        BY <1>2, FS_Union
    <2> QED BY <1>1, <1>2, <2>1, FS_EmptySet
<1> QED BY <1>1, <1>3 DEF A, B, Many

(* What a stretch of s holds is what u begins with.                         *)
Shifted(s, m, u, k) == \A i \in 1 .. k : s[m + i] = u[i]
Agree(s, u, k)      == \A i \in 1 .. k : s[i] = u[i]

LEMMA ManyMoved ==
    ASSUME NEW k \in Nat, NEW m \in Nat, NEW s, NEW u, Shifted(s, m, u, k),
           NEW t, NEW key, NEW e
    PROVE  Many(t, s, key, e, m + 1, m + k) = Many(t, u, key, e, 1, k)
<1> DEFINE A == HitsIn(t, u, key, e, 1, k)
           B == HitsIn(t, s, key, e, m + 1, m + k)
           f == [i \in A |-> m + i]
<1>1. \A i \in A : i \in 1 .. k /\ Hit(t, u[i], key, e)
    BY DEF HitsIn
<1>2. ASSUME NEW i \in A PROVE m + i \in B
    <2>1. i \in 1 .. k /\ s[m + i] = u[i] /\ m + i \in m + 1 .. m + k
        BY <1>1 DEF Shifted
    <2>2. Hit(t, s[m + i], key, e)
        BY <1>1, <2>1
    <2> QED BY <2>1, <2>2 DEF HitsIn
<1>3. ASSUME NEW j \in B PROVE \E i \in A : j = m + i
    <2>1. j \in m + 1 .. m + k /\ Hit(t, s[j], key, e)
        BY DEF HitsIn
    <2> DEFINE i == j - m
    <2>2. i \in 1 .. k /\ j = m + i
        BY <2>1
    <2> HIDE DEF i
    <2>3. s[m + i] = u[i]
        BY <2>2 DEF Shifted
    <2>4. i \in A
        BY <2>1, <2>2, <2>3 DEF HitsIn
    <2> QED BY <2>2, <2>4
<1>4. IsFiniteSet(A)
    BY ManyIsNat
<1>5. \A i, j \in A : m + i = m + j => i = j
    BY <1>1
<1> HIDE DEF A, B
<1>6. f \in [A -> B] /\ \A i \in A : f[i] = m + i
    BY <1>2
<1> HIDE DEF f
<1>7. \A j \in B : \E i \in A : f[i] = j
    BY <1>3, <1>6
<1>8. \A i, j \in A : f[i] = f[j] => i = j
    BY <1>5, <1>6
<1>9. f \in Injection(A, B)
    BY <1>6, <1>8 DEF Injection, IsInjective
<1>10. f \in Surjection(A, B)
    BY <1>6, <1>7 DEF Surjection
<1>11. ExistsBijection(A, B)
    BY <1>9, <1>10 DEF ExistsBijection, Bijection
<1>12. Cardinality(B) = Cardinality(A)
    BY <1>4, <1>11, FS_Bijection
<1> QED BY <1>12 DEF A, B, Many

LEMMA ManyAgree ==
    ASSUME NEW k \in Nat, NEW s, NEW u, Agree(s, u, k), NEW t, NEW key, NEW e
    PROVE  Many(t, s, key, e, 1, k) = Many(t, u, key, e, 1, k)
<1>1. HitsIn(t, s, key, e, 1, k) = HitsIn(t, u, key, e, 1, k)
    BY DEF HitsIn, Agree
<1> QED BY <1>1 DEF Many

LEMMA CountJoined ==
    ASSUME NEW s, Listed(s), NEW r, Listed(r), NEW u, JoinOf(u, s, r), NEW t, NEW key, NEW e
    PROVE  Count(t, u, key, e) = Count(t, s, key, e) + Count(t, r, key, e)
<1> DEFINE n == Len(s)
           m == Len(r)
<1>1. n = Len(s) /\ m = Len(r)
    OBVIOUS
<1> HIDE DEF n, m
<1>2. /\ n \in Nat /\ m \in Nat /\ Len(u) = n + m
      /\ \A i \in 1 .. n : u[i] = s[i]
      /\ \A i \in 1 .. m : u[n + i] = r[i]
    BY <1>1, Joined
<1>3. Agree(u, s, n) /\ Shifted(u, n, r, m)
    BY <1>2 DEF Agree, Shifted
<1>4. Many(t, u, key, e, 1, n + m) = Many(t, u, key, e, 1, n) + Many(t, u, key, e, n + 1, n + m)
    <2>1. n + m \in Int /\ n \in Int /\ 1 \in Int /\ 1 <= n + 1 /\ n <= n + m
        BY <1>2
    <2> DEFINE nm == n + m
    <2> HIDE DEF nm
    <2>2. nm \in Int /\ n <= nm
        BY <2>1 DEF nm
    <2>3. Many(t, u, key, e, 1, nm) = Many(t, u, key, e, 1, n) + Many(t, u, key, e, n + 1, nm)
        BY <2>1, <2>2, ManySplit
    <2> QED BY <2>3 DEF nm
<1>5. Many(t, u, key, e, 1, n) = Many(t, s, key, e, 1, n)
    BY <1>2, <1>3, ManyAgree
<1>6. Many(t, u, key, e, n + 1, n + m) = Many(t, r, key, e, 1, m)
    BY <1>2, <1>3, ManyMoved
<1> QED BY <1>1, <1>2, <1>4, <1>5, <1>6 DEF Count

LEMMA CountOfOne ==
    ASSUME NEW q, NEW t, NEW key, NEW e
    PROVE  Count(t, <<q>>, key, e) = IF Hit(t, q, key, e) THEN 1 ELSE 0
<1> DEFINE A == HitsIn(t, <<q>>, key, e, 1, 1)
<1>1. \A i \in 1 .. 1 : <<q>>[i] = q /\ i = 1
    OBVIOUS
<1>2. A = IF Hit(t, q, key, e) THEN {1} ELSE {}
    BY <1>1 DEF HitsIn
<1>3. Cardinality(A) = IF Hit(t, q, key, e) THEN 1 ELSE 0
    BY <1>2, FS_Singleton, FS_EmptySet
<1>4. Len(<<q>>) = 1
    OBVIOUS
<1> QED BY <1>3, <1>4 DEF Count, Many

LEMMA CountRemoved ==
    ASSUME NEW s, Listed(s), NEW n \in DOMAIN s, NEW t, NEW key, NEW e
    PROVE  Count(t, s, key, e) = Count(t, RemoveAt(s, n), key, e) + Count(t, <<s[n]>>, key, e)
<1> DEFINE k == Len(s)
           rest == RemoveAt(s, n)
           one == <<s[n]>>
<1>1. k = Len(s) /\ rest = RemoveAt(s, n) /\ one = <<s[n]>>
    OBVIOUS
<1>2. Len(one) = 1 /\ one[1] = s[n]
    OBVIOUS
<1> HIDE DEF k, rest, one
<1>3. PICK f, l : LeftOf(rest, s, n, k, f, l)
    BY <1>1, RemovedIs
<1>4. /\ Len(f) = n - 1 /\ Len(l) = k - n /\ k \in Nat /\ n \in 1 .. k
    BY <1>3 DEF LeftOf
<1>5. Count(t, rest, key, e) = Count(t, f, key, e) + Count(t, l, key, e)
    <2>1. Listed(f) /\ Listed(l) /\ JoinOf(rest, f, l)
        BY <1>3 DEF LeftOf, JoinOf
    <2> QED BY <2>1, CountJoined
<1> DEFINE p == n - 1
           j == k - n
           o == 1
<1>6. /\ p \in Nat /\ j \in Nat /\ n \in Nat /\ o \in Nat
      /\ p + 1 = n /\ p + o = n /\ n + j = k /\ Len(f) = p /\ Len(l) = j /\ Len(one) = o
    BY <1>2, <1>4
<1>7. Agree(s, f, p) /\ Shifted(s, n, l, j) /\ Shifted(s, p, one, o)
    <2>1. Agree(s, f, p)
        BY <1>3 DEF Agree, LeftOf
    <2>2. Shifted(s, n, l, j)
        BY <1>3 DEF Shifted, LeftOf
    <2>3. \A i \in 1 .. o : i = 1
        OBVIOUS
    <2> HIDE DEF o
    <2>4. Shifted(s, p, one, o)
        <3> HIDE DEF p
        <3> QED BY <1>2, <1>6, <2>3 DEF Shifted
    <2> QED BY <2>1, <2>2, <2>4
<1> HIDE DEF p, j, o
<1> DEFINE a == Many(t, s, key, e, 1, p)
           b == Many(t, s, key, e, p + 1, n)
           c == Many(t, s, key, e, n + 1, k)
           an == Many(t, s, key, e, 1, n)
           ank == Many(t, s, key, e, 1, k)
<1>8. ank = an + c
    <2>1. k \in Int /\ n \in Int /\ 1 \in Int /\ 1 <= n + 1 /\ n <= k
        BY <1>4
    <2> QED BY <2>1, ManySplit
<1>9. an = a + b
    <2>1. n \in Int /\ p \in Int /\ 1 \in Int /\ 1 <= p + 1 /\ p <= n
        BY <1>6
    <2> QED BY <2>1, ManySplit
<1>10. a = Count(t, f, key, e)
    <2>1. a = Many(t, f, key, e, 1, p)
        BY <1>6, <1>7, ManyAgree
    <2> QED BY <1>6, <2>1 DEF Count
<1>11. c = Count(t, l, key, e)
    <2>1. Many(t, s, key, e, n + 1, n + j) = Many(t, l, key, e, 1, j)
        BY <1>6, <1>7, ManyMoved
    <2> QED BY <1>6, <2>1 DEF Count
<1>12. b = Count(t, one, key, e)
    <2>1. Many(t, s, key, e, p + 1, p + o) = Many(t, one, key, e, 1, o)
        BY <1>6, <1>7, ManyMoved
    <2> QED BY <1>6, <2>1 DEF Count
<1>13. a \in Nat /\ b \in Nat /\ c \in Nat
    <2>1. p \in Int /\ n \in Int /\ j \in Int
        BY <1>6
    <2>2. n + j \in Int /\ p + 1 \in Int /\ n + 1 \in Int
        BY <2>1
    <2>3. k \in Int
        BY <1>6, <2>2
    <2> QED BY <2>1, <2>2, <2>3, ManyIsNat
<1>14. Count(t, s, key, e) = ank
    BY <1>1 DEF Count
<1> HIDE DEF a, b, c, an, ank
<1>15. Count(t, s, key, e) = Count(t, rest, key, e) + Count(t, one, key, e)
    BY <1>5, <1>8, <1>9, <1>10, <1>11, <1>12, <1>13, <1>14
<1> QED BY <1>1, <1>15

LEMMA CountPositive ==
    ASSUME NEW s, Listed(s), NEW t, NEW key, NEW e
    PROVE  /\ Count(t, s, key, e) \in Nat
           /\ Count(t, s, key, e) > 0 <=> \E q \in ToSet(s) : Hit(t, q, key, e)
<1> DEFINE n == Len(s)
           A == HitsIn(t, s, key, e, 1, n)
<1>1. n \in Nat /\ \A q : q \in ToSet(s) <=> \E i \in 1 .. n : q = s[i]
    BY ListLength
<1> HIDE DEF n
<1>2. IsFiniteSet(A) /\ Cardinality(A) \in Nat
    BY <1>1, ManyIsNat DEF Many
<1>3. A # {} <=> \E q \in ToSet(s) : Hit(t, q, key, e)
    BY <1>1 DEF HitsIn
<1>4. Cardinality(A) = 0 <=> A = {}
    BY <1>2, FS_EmptySet
<1>5. Count(t, s, key, e) = Cardinality(A)
    BY DEF Count, Many, n
<1> HIDE DEF A
<1> QED BY <1>2, <1>3, <1>4, <1>5

LEMMA CountOfNone ==
    ASSUME NEW t, NEW key, NEW e
    PROVE  Count(t, <<>>, key, e) = 0
<1>1. HitsIn(t, <<>>, key, e, 1, 0) = {}
    BY DEF HitsIn
<1>2. Len(<<>>) = 0
    OBVIOUS
<1> QED BY <1>1, <1>2, FS_EmptySet DEF Count, Many

LEMMA ConcernsIs ==
    ASSUME NEW q, NEW key
    PROVE  Concerns(q, key) <=> ConcernsIn(ir, q, key)
BY DEF Concerns, ConcernsIn, Around, Line

LEMMA TimesIs ==
    ASSUME NEW list, NEW from, NEW key, NEW e, NEW n, n = Len(list)
    PROVE  Times(list, from, key, e) = Many(ir, list, key, e, from + 1, n)
<1>1. {i \in from + 1 .. Len(list) : Concerns(list[i], key) /\ Edge(list[i]) = e}
        = HitsIn(ir, list, key, e, from + 1, n)
    BY ConcernsIs DEF HitsIn, Hit
<1> QED BY <1>1 DEF Times, Many

(* How often an edge is in a kept graph.                                    *)
Held(g, e) == IF e \in DOMAIN g.edges THEN g.edges[e] ELSE 0

(* A kept graph has taken in what the lists begin with.                     *)
Tallies(t, g, key, ins, per, era) ==
    \A e : Held(g, e) = Many(t, ins, key, e, 1, g.ins) + Many(t, per, key, e, 1, g.per)
                        - Many(t, era, key, e, 1, g.era)

IsTallied(t, g, key, ins, per, era) ==
    /\ g.ins \in 0 .. Len(ins) /\ g.per \in 0 .. Len(per) /\ g.era \in 0 .. Len(era)
    /\ Tallies(t, g, key, ins, per, era)

AreTallied(t, gs, ins, per, era) ==
    \A key \in DOMAIN gs : IsTallied(t, gs[key], key, ins, per, era)

(* What was inserted is chosen or was erased.                               *)
Balanced(t, ch, ins, era) ==
    \A key, e : Count(t, ins, key, e) = Count(t, ch, key, e) + Count(t, era, key, e)

Logged ==
    /\ Listed(inserted) /\ Listed(erased)
    /\ Balanced(ir, chosen, inserted, erased)
    /\ AreTallied(ir, graphs, inserted, persistent, erased)

Begins(s, u) == Len(s) <= Len(u) /\ \A i \in 1 .. Len(s) : u[i] = s[i]

LEMMA BeginsMany ==
    ASSUME NEW s, NEW u, Begins(s, u), Listed(s), NEW n \in 0 .. Len(s),
           NEW t, NEW key, NEW e
    PROVE  Many(t, u, key, e, 1, n) = Many(t, s, key, e, 1, n)
<1>1. Len(s) \in Nat
    BY ListLength
<1>2. n \in Nat /\ \A i \in 1 .. n : i \in 1 .. Len(s)
    BY <1>1
<1>3. Agree(u, s, n)
    BY <1>2 DEF Agree, Begins
<1> QED BY <1>2, <1>3, ManyAgree

(* A graph stays as it was when the lists grow.                             *)
LEMMA StillTallied ==
    ASSUME NEW t, NEW gs, NEW ins, NEW ins2, NEW per, NEW era, NEW era2,
           Listed(ins), Listed(era), Listed(ins2), Listed(era2), Begins(ins, ins2), Begins(era, era2),
           AreTallied(t, gs, ins, per, era)
    PROVE  AreTallied(t, gs, ins2, per, era2)
<1> SUFFICES ASSUME NEW key \in DOMAIN gs, NEW g, g = gs[key]
             PROVE  IsTallied(t, g, key, ins2, per, era2)
    BY DEF AreTallied
<1>1. IsTallied(t, g, key, ins, per, era)
    BY DEF AreTallied
<1>2. /\ Len(ins) \in Nat /\ Len(era) \in Nat /\ Len(ins2) \in Nat /\ Len(era2) \in Nat
      /\ Len(ins) <= Len(ins2) /\ Len(era) <= Len(era2)
    BY ListLength DEF Begins
<1>3. g.ins \in 0 .. Len(ins) /\ g.per \in 0 .. Len(per) /\ g.era \in 0 .. Len(era)
    BY <1>1 DEF IsTallied
<1>4. g.ins \in 0 .. Len(ins2) /\ g.era \in 0 .. Len(era2)
    BY <1>2, <1>3
<1>5. ASSUME NEW e
      PROVE  Held(g, e) = Many(t, ins2, key, e, 1, g.ins) + Many(t, per, key, e, 1, g.per)
                          - Many(t, era2, key, e, 1, g.era)
    <2>1. Held(g, e) = Many(t, ins, key, e, 1, g.ins) + Many(t, per, key, e, 1, g.per)
                       - Many(t, era, key, e, 1, g.era)
        BY <1>1 DEF IsTallied, Tallies
    <2>2. Many(t, ins2, key, e, 1, g.ins) = Many(t, ins, key, e, 1, g.ins)
        BY <1>3, BeginsMany
    <2>3. Many(t, era2, key, e, 1, g.era) = Many(t, era, key, e, 1, g.era)
        BY <1>3, BeginsMany
    <2> QED BY <2>1, <2>2, <2>3
<1> QED BY <1>3, <1>4, <1>5 DEF IsTallied, Tallies

LEMMA BeginsJoined ==
    ASSUME NEW s, Listed(s), NEW r, Listed(r), NEW u, JoinOf(u, s, r)
    PROVE  Listed(u) /\ Begins(s, u) /\ Begins(s, s)
<1> DEFINE n == Len(s)
           m == Len(r)
<1>1. n = Len(s) /\ m = Len(r)
    OBVIOUS
<1> HIDE DEF n, m
<1>2. /\ n \in Nat /\ m \in Nat /\ Len(u) = n + m
      /\ \A i \in 1 .. n : u[i] = s[i]
      /\ \A i \in 1 .. m : u[n + i] = r[i]
    BY <1>1, Joined
<1>3. Listed(u)
    BY Concatenated DEF JoinOf
<1> QED BY <1>1, <1>2, <1>3 DEF Begins

(* getGraphSolverRef: a graph that is asked has the edges of the pairs that *)
(* stand now, whatever was erased in between.                               *)
LEMMA CaughtUp ==
    ASSUME Logged, Listed(persistent), Listed(chosen), NEW old, NEW key,
           IsTallied(ir, old, key, inserted, persistent, erased), NEW g, g = CatchUp(old, key)
    PROVE  /\ IsTallied(ir, g, key, inserted, persistent, erased)
           /\ \A e : e \in DOMAIN g.edges <=> \E q \in Pairs : Hit(ir, q, key, e)
<1> DEFINE i == Len(inserted)
           p == Len(persistent)
           r == Len(erased)
           C(e) == Held(old, e) + Times(inserted, old.ins, key, e)
                   + Times(persistent, old.per, key, e) - Times(erased, old.era, key, e)
           known == {Edge(q) : q \in ToSet(inserted) \cup ToSet(persistent)}
           all == DOMAIN old.edges \cup known
<1>1. /\ g.edges = [e \in {x \in all : C(x) > 0} |-> C(e)]
      /\ g.ins = i /\ g.per = p /\ g.era = r
    BY DEF CatchUp, Held
<1>2. /\ Listed(inserted) /\ Listed(erased) /\ i \in Nat /\ p \in Nat /\ r \in Nat
      /\ i = Len(inserted) /\ p = Len(persistent) /\ r = Len(erased)
    BY ListLength DEF Logged
<1>3. /\ old.ins \in 0 .. i /\ old.per \in 0 .. p /\ old.era \in 0 .. r
      /\ Tallies(ir, old, key, inserted, persistent, erased)
    BY DEF IsTallied
<1> HIDE DEF i, p, r, known
<1>4. ASSUME NEW list, NEW n \in Nat, n = Len(list), NEW from \in 0 .. n, NEW e
      PROVE  /\ Count(ir, list, key, e) = Many(ir, list, key, e, 1, from) + Times(list, from, key, e)
             /\ Many(ir, list, key, e, 1, from) \in Nat /\ Times(list, from, key, e) \in Nat
    <2>1. n \in Int /\ from \in Int /\ 1 \in Int /\ 1 <= from + 1 /\ from <= n /\ from + 1 \in Int
        OBVIOUS
    <2>2. Many(ir, list, key, e, 1, n)
            = Many(ir, list, key, e, 1, from) + Many(ir, list, key, e, from + 1, n)
        BY <2>1, ManySplit
    <2>3. Times(list, from, key, e) = Many(ir, list, key, e, from + 1, n)
        BY <1>4, TimesIs
    <2>4. Many(ir, list, key, e, 1, from) \in Nat /\ Many(ir, list, key, e, from + 1, n) \in Nat
        BY <2>1, ManyIsNat
    <2>5. Count(ir, list, key, e) = Many(ir, list, key, e, 1, n)
        BY <1>4 DEF Count
    <2> QED BY <2>2, <2>3, <2>4, <2>5
<1>5. ASSUME NEW e
      PROVE  /\ C(e) = Count(ir, inserted, key, e) + Count(ir, persistent, key, e)
                       - Count(ir, erased, key, e)
             /\ C(e) = Count(ir, chosen, key, e) + Count(ir, persistent, key, e)
             /\ Count(ir, chosen, key, e) \in Nat /\ Count(ir, persistent, key, e) \in Nat
             /\ Count(ir, inserted, key, e) \in Nat /\ Count(ir, erased, key, e) \in Nat
    <2> DEFINE ci == Count(ir, inserted, key, e)
               cp == Count(ir, persistent, key, e)
               cr == Count(ir, erased, key, e)
               cc == Count(ir, chosen, key, e)
               mi == Many(ir, inserted, key, e, 1, old.ins)
               mp == Many(ir, persistent, key, e, 1, old.per)
               mr == Many(ir, erased, key, e, 1, old.era)
               ti == Times(inserted, old.ins, key, e)
               tp == Times(persistent, old.per, key, e)
               tr == Times(erased, old.era, key, e)
               h == Held(old, e)
               c == C(e)
    <2>1. ci = mi + ti /\ mi \in Nat /\ ti \in Nat
        BY <1>2, <1>3, <1>4
    <2>2. cp = mp + tp /\ mp \in Nat /\ tp \in Nat
        BY <1>2, <1>3, <1>4
    <2>3. cr = mr + tr /\ mr \in Nat /\ tr \in Nat
        BY <1>2, <1>3, <1>4
    <2>4. h = mi + mp - mr
        BY <1>3 DEF Tallies
    <2>5. c = h + ti + tp - tr
        OBVIOUS
    <2>6. ci = cc + cr
        BY DEF Logged, Balanced
    <2>7. cc \in Nat
        BY CountPositive
    <2> HIDE DEF ci, cp, cr, cc, mi, mp, mr, ti, tp, tr, h, c
    <2>8. /\ c = ci + cp - cr /\ c = cc + cp
          /\ cc \in Nat /\ cp \in Nat /\ ci \in Nat /\ cr \in Nat
        BY <2>1, <2>2, <2>3, <2>4, <2>5, <2>6, <2>7
    <2> QED BY <2>8 DEF ci, cp, cr, cc, c
<1> HIDE DEF C
<1>6. ASSUME NEW e
      PROVE  /\ C(e) \in Nat
             /\ C(e) > 0 <=> \E q \in Pairs : Hit(ir, q, key, e)
    <2>1. /\ Count(ir, chosen, key, e) > 0 <=> \E q \in ToSet(chosen) : Hit(ir, q, key, e)
          /\ Count(ir, persistent, key, e) > 0 <=> \E q \in ToSet(persistent) : Hit(ir, q, key, e)
        BY CountPositive
    <2>2. C(e) > 0 <=> Count(ir, chosen, key, e) > 0 \/ Count(ir, persistent, key, e) > 0
        BY <1>5
    <2>3. C(e) \in Nat
        BY <1>5
    <2> QED BY <2>1, <2>2, <2>3 DEF Pairs
<1>7. ASSUME NEW e, C(e) > 0 PROVE e \in known
    <2>1. Count(ir, inserted, key, e) > 0 \/ Count(ir, persistent, key, e) > 0
        BY <1>5, <1>7
    <2>2. PICK q \in ToSet(inserted) \cup ToSet(persistent) : Hit(ir, q, key, e)
        BY <1>2, <2>1, CountPositive
    <2> QED BY <2>2 DEF Hit, known
<1>8. DOMAIN g.edges = {x \in all : C(x) > 0}
      /\ \A e \in {x \in all : C(x) > 0} : g.edges[e] = C(e)
    BY <1>1
<1>9. ASSUME NEW e
      PROVE  (e \in DOMAIN g.edges <=> C(e) > 0) /\ Held(g, e) = C(e)
    <2>1. e \in DOMAIN g.edges <=> C(e) > 0
        BY <1>7, <1>8
    <2>2. e \in DOMAIN g.edges => g.edges[e] = C(e)
        BY <1>8
    <2>3. C(e) \in Nat
        BY <1>6
    <2> HIDE DEF all
    <2> QED BY <2>1, <2>2, <2>3 DEF Held
<1>10. ASSUME NEW e
       PROVE  Held(g, e) = Many(ir, inserted, key, e, 1, g.ins)
                           + Many(ir, persistent, key, e, 1, g.per)
                           - Many(ir, erased, key, e, 1, g.era)
    <2>1. /\ Count(ir, inserted, key, e) = Many(ir, inserted, key, e, 1, g.ins)
          /\ Count(ir, persistent, key, e) = Many(ir, persistent, key, e, 1, g.per)
          /\ Count(ir, erased, key, e) = Many(ir, erased, key, e, 1, g.era)
        BY <1>1, <1>2 DEF Count
    <2>2. Held(g, e) = Count(ir, inserted, key, e) + Count(ir, persistent, key, e)
                       - Count(ir, erased, key, e)
        BY <1>5, <1>9
    <2> QED BY <2>1, <2>2
<1>11. g.ins \in 0 .. i /\ g.per \in 0 .. p /\ g.era \in 0 .. r
    BY <1>1, <1>2
<1>12. IsTallied(ir, g, key, inserted, persistent, erased)
    BY <1>2, <1>10, <1>11 DEF IsTallied, Tallies
<1> QED BY <1>6, <1>9, <1>12

LEMMA FreshIsTallied ==
    ASSUME NEW t, NEW key, NEW ins, Listed(ins), NEW per, Listed(per), NEW era, Listed(era)
    PROVE  IsTallied(t, NoEdges, key, ins, per, era)
<1>1. NoEdges.edges = <<>> /\ NoEdges.ins = 0 /\ NoEdges.per = 0 /\ NoEdges.era = 0
    BY DEF NoEdges
<1>2. Len(ins) \in Nat /\ Len(per) \in Nat /\ Len(era) \in Nat
    BY ListLength
<1>3. ASSUME NEW s, NEW e PROVE Many(t, s, key, e, 1, 0) = 0
    <2>1. HitsIn(t, s, key, e, 1, 0) = {}
        BY DEF HitsIn
    <2> QED BY <2>1, FS_EmptySet DEF Many
<1>4. \A e : Held(NoEdges, e) = 0
    BY <1>1 DEF Held
<1> HIDE DEF NoEdges
<1>5. Tallies(t, NoEdges, key, ins, per, era)
    BY <1>1, <1>3, <1>4 DEF Tallies
<1>6. /\ NoEdges.ins \in 0 .. Len(ins) /\ NoEdges.per \in 0 .. Len(per)
      /\ NoEdges.era \in 0 .. Len(era)
    BY <1>1, <1>2
<1> QED BY <1>5, <1>6 DEF IsTallied

LEMMA AskedIs ==
    ASSUME Logged, Listed(persistent), Listed(chosen), NEW gs,
           AreTallied(ir, gs, inserted, persistent, erased), NEW key, NEW after, after = Asked(gs, key)
    PROVE  /\ AreTallied(ir, after, inserted, persistent, erased)
           /\ key \in DOMAIN after
           /\ \A e : e \in DOMAIN after[key].edges <=> \E q \in Pairs : Hit(ir, q, key, e)
<1> DEFINE old == IF key \in DOMAIN gs THEN gs[key] ELSE NoEdges
           g == CatchUp(old, key)
<1>1. IsTallied(ir, old, key, inserted, persistent, erased)
    <2>1. CASE key \in DOMAIN gs
        BY <2>1 DEF AreTallied
    <2>2. CASE key \notin DOMAIN gs
        BY <2>2, FreshIsTallied DEF Logged
    <2> QED BY <2>1, <2>2
<1>2. after = Put(gs, key, g)
    BY DEF Asked
<1> HIDE DEF old
<1>3. /\ IsTallied(ir, g, key, inserted, persistent, erased)
      /\ \A e : e \in DOMAIN g.edges <=> \E q \in Pairs : Hit(ir, q, key, e)
    BY <1>1, CaughtUp
<1> HIDE DEF g
<1>4. /\ DOMAIN after = DOMAIN gs \cup {key} /\ after[key] = g
      /\ \A k \in DOMAIN gs : k # key => after[k] = gs[k]
    BY <1>2 DEF Put
<1>5. AreTallied(ir, after, inserted, persistent, erased)
    BY <1>3, <1>4 DEF AreTallied
<1> QED BY <1>3, <1>4, <1>5

(* What was added at the end of a list.                                     *)
LEMMA AddedAtEnd ==
    ASSUME NEW s, Listed(s), NEW r, Listed(r), NEW u, JoinOf(u, s, r)
    PROVE  SubSeq(u, Len(s) + 1, Len(u)) = r
<1> DEFINE n == Len(s)
           m == Len(r)
           k == Len(u)
           R == ToSet(r)
           v == SubSeq(u, n + 1, k)
<1>1. n = Len(s) /\ m = Len(r)
    OBVIOUS
<1>2. k = Len(u) /\ r \in Seq(R)
    BY DEF Listed
<1> HIDE DEF n, m, k
<1>3. /\ n \in Nat /\ m \in Nat /\ Len(u) = n + m
      /\ \A i \in 1 .. n : u[i] = s[i]
      /\ \A i \in 1 .. m : u[n + i] = r[i]
    BY <1>1, Joined
<1>4. \A i \in 1 .. m : r[i] \in R
    BY <1>1, <1>2, ListLength
<1> HIDE DEF R
<1>5. \A i \in n + 1 .. k : u[i] \in R
    <2> SUFFICES ASSUME NEW i \in n + 1 .. k PROVE u[i] \in R
        OBVIOUS
    <2> DEFINE j == i - n
    <2>1. j \in 1 .. m /\ i = n + j
        BY <1>2, <1>3
    <2> HIDE DEF j
    <2> QED BY <1>3, <1>4, <2>1
<1>6. /\ Len(v) = (IF n + 1 <= k THEN k - (n + 1) + 1 ELSE 0)
      /\ \A i \in 1 .. k - (n + 1) + 1 : v[i] = u[n + 1 + i - 1]
      /\ v \in Seq(R)
    <2>1. n + 1 \in Int /\ k \in Int
        BY <1>2, <1>3
    <2> QED BY <1>5, <2>1, SubSeqProperties
<1>7. k = n + m /\ k - (n + 1) + 1 = m
    BY <1>2, <1>3
<1>8. Len(v) = m
    <2>1. (IF n + 1 <= k THEN k - (n + 1) + 1 ELSE 0) = m
        BY <1>3, <1>7
    <2> HIDE DEF v
    <2> QED BY <1>6, <2>1
<1> HIDE DEF v
<1>9. ASSUME NEW i \in 1 .. m PROVE v[i] = r[i]
    <2>1. v[i] = u[n + 1 + i - 1]
        BY <1>6, <1>7
    <2>2. n + 1 + i - 1 = n + i
        BY <1>3
    <2> QED BY <1>3, <2>1, <2>2
<1>10. v = r
    BY <1>2, <1>6, <1>8, <1>9, <1>3, <1>1, SeqEqual
<1> QED BY <1>1, <1>2, <1>10 DEF v

LEMMA BalanceGrows ==
    ASSUME NEW t, NEW ch, Listed(ch), NEW ins, Listed(ins), NEW era, Listed(era),
           NEW x, Listed(x), NEW ch2, JoinOf(ch2, ch, x), NEW ins2, JoinOf(ins2, ins, x),
           Balanced(t, ch, ins, era)
    PROVE  Balanced(t, ch2, ins2, era)
<1> SUFFICES ASSUME NEW key, NEW e
             PROVE  Count(t, ins2, key, e) = Count(t, ch2, key, e) + Count(t, era, key, e)
    BY DEF Balanced
<1>1. /\ Count(t, ins2, key, e) = Count(t, ins, key, e) + Count(t, x, key, e)
      /\ Count(t, ch2, key, e) = Count(t, ch, key, e) + Count(t, x, key, e)
    BY CountJoined
<1>2. Count(t, ins, key, e) = Count(t, ch, key, e) + Count(t, era, key, e)
    BY DEF Balanced
<1>3. /\ Count(t, ins, key, e) \in Nat /\ Count(t, ch, key, e) \in Nat
      /\ Count(t, era, key, e) \in Nat /\ Count(t, x, key, e) \in Nat
    BY CountPositive
<1> QED BY <1>1, <1>2, <1>3

LEMMA BalanceReplaced ==
    ASSUME NEW t, NEW ch, Listed(ch), NEW ins, Listed(ins), NEW era, Listed(era),
           NEW n \in DOMAIN ch, NEW rest, rest = RemoveAt(ch, n), Listed(rest),
           NEW x, Listed(x), NEW y, y = <<ch[n]>>, Listed(y),
           NEW ch2, JoinOf(ch2, rest, x), NEW ins2, JoinOf(ins2, ins, x),
           NEW era2, JoinOf(era2, era, y),
           Balanced(t, ch, ins, era)
    PROVE  Balanced(t, ch2, ins2, era2)
<1> SUFFICES ASSUME NEW key, NEW e
             PROVE  Count(t, ins2, key, e) = Count(t, ch2, key, e) + Count(t, era2, key, e)
    BY DEF Balanced
<1>1. /\ Count(t, ins2, key, e) = Count(t, ins, key, e) + Count(t, x, key, e)
      /\ Count(t, ch2, key, e) = Count(t, rest, key, e) + Count(t, x, key, e)
      /\ Count(t, era2, key, e) = Count(t, era, key, e) + Count(t, y, key, e)
    BY CountJoined
<1>2. Count(t, ins, key, e) = Count(t, ch, key, e) + Count(t, era, key, e)
    BY DEF Balanced
<1>3. Count(t, ch, key, e) = Count(t, rest, key, e) + Count(t, y, key, e)
    BY CountRemoved
<1>4. /\ Count(t, ins, key, e) \in Nat /\ Count(t, ch, key, e) \in Nat
      /\ Count(t, era, key, e) \in Nat /\ Count(t, x, key, e) \in Nat
      /\ Count(t, rest, key, e) \in Nat /\ Count(t, y, key, e) \in Nat
    BY CountPositive
<1> QED BY <1>1, <1>2, <1>3, <1>4

LEMMA LastAppended ==
    ASSUME NEW s, Listed(s), NEW e
    PROVE  Last(Append(s, e)) = e
<1> DEFINE R == ToSet(s)
           T == R \cup {e}
<1>1. s \in Seq(R)
    BY DEF Listed
<1>2. s \in Seq(T) /\ e \in T
    <2> HIDE DEF R
    <2>1. R \subseteq T /\ e \in T
        OBVIOUS
    <2> HIDE DEF T
    <2> QED BY <1>1, <2>1
<1> HIDE DEF T
<1> QED BY <1>2 DEF Last

(* What a conflict adds to the chosen pairs without a reuse.                *)
LEMMA ConflictAdds ==
    ASSUME Core, HandleBarrierConflict \/ HandleSetWaitConflict
    PROVE  /\ ir' = ir /\ UNCHANGED persistent
           /\ \E x : Listed(x) /\ JoinOf(chosen', chosen, x)
<1>1. CASE HandleBarrierConflict
    <2>1. ir' = ir /\ UNCHANGED persistent
        BY <1>1 DEF HandleBarrierConflict, ir
    <2> DEFINE s == chosen
               b == BarrierBefore(plan.wait, plan.src, plan.useless)
    <2>2. chosen' = Append(s, b)
        BY <1>1 DEF HandleBarrierConflict
    <2>3. Listed(s)
        BY DEF Core
    <2> HIDE DEF s, b
    <2>4. Append(s, b) = s \o <<b>> /\ Listed(<<b>>)
        BY <2>3, JoinedOne, Singled
    <2>5. JoinOf(chosen', s, <<b>>)
        BY <2>2, <2>4 DEF JoinOf
    <2> QED BY <2>1, <2>4, <2>5 DEF s
<1>2. CASE HandleSetWaitConflict
    <2>1. /\ ir' = ir /\ IsProgram(prog) /\ next \in DOMAIN plans /\ WellBuilt(ir)
          /\ plan.kind = "setwait" /\ plan.ok /\ UNCHANGED persistent
        BY <1>2, SetWaitContext
    <2> DEFINE main == MainPair
               pairs == <<main>> \o ExtraPairs(main)
               n == NodeOf(main)
    <2>2. main = MainPair /\ pairs = <<main>> \o ExtraPairs(main)
        OBVIOUS
    <2>3. AddsPairs(main, pairs, n) \/ AddsBarrierAll(main)
        BY <1>2, SetWaitCases
    <2> HIDE DEF main, pairs, n
    <2>4. CASE AddsPairs(main, pairs, n)
        <3> DEFINE x == AddedPairs(pairs, n)
        <3>1. chosen' = chosen \o x
            BY <2>4 DEF AddsPairs
        <3>2. Listed(chosen)
            BY DEF Core
        <3>3. Listed(x)
            <4> DEFINE S == chosen
                       s == S \o x
            <4>1. Listed(S) /\ s = S \o AddedPairs(pairs, n)
                BY <3>2
            <4> HIDE DEF S, s
            <4>2. IsAdded(S, s, main, pairs, n)
                BY <2>1, <2>2, <4>1, AddedAre
            <4> QED BY <4>2 DEF IsAdded
        <3> HIDE DEF x
        <3> QED BY <2>1, <3>1, <3>3 DEF JoinOf
    <2>5. CASE AddsBarrierAll(main)
        <3> DEFINE x == BarrierAllBefore(ir.occ[plan.bar].op, main.useless)
        <3>1. chosen' = chosen \o x
            BY <2>5 DEF AddsBarrierAll
        <3>2. Listed(x)
            BY <2>1, BarrierAllAre
        <3> HIDE DEF x
        <3> QED BY <2>1, <3>1, <3>2 DEF JoinOf
    <2> QED BY <2>3, <2>4, <2>5
<1> QED BY <1>1, <1>2

LEMMA AddingKeepsLogged ==
    ASSUME Core, Logged, HandleBarrierConflict \/ HandleSetWaitConflict, InsertNew,
           AreTallied(ir, graphs', inserted, persistent, erased)
    PROVE  Logged'
<1>1. ir' = ir /\ persistent' = persistent
    BY ConflictAdds
<1>2. PICK x : Listed(x) /\ JoinOf(chosen', chosen, x)
    BY ConflictAdds
<1>3. /\ inserted' = inserted \o SubSeq(chosen', Len(chosen) + 1, Len(chosen'))
      /\ erased' = erased
    BY DEF InsertNew
<1>4. Listed(chosen) /\ Listed(inserted) /\ Listed(erased)
    BY DEF Core, Logged
<1> DEFINE ch == chosen
           ch2 == chosen'
           ins == inserted
           ins2 == inserted'
           era == erased
           gs == graphs'
           t == ir
           per == persistent
<1>5. /\ Listed(ch) /\ Listed(ins) /\ Listed(era) /\ JoinOf(ch2, ch, x)
      /\ ins2 = ins \o SubSeq(ch2, Len(ch) + 1, Len(ch2))
      /\ Balanced(t, ch, ins, era) /\ AreTallied(t, gs, ins, per, era)
    BY <1>2, <1>3, <1>4 DEF Logged
<1> HIDE DEF ch, ch2, ins, ins2, era, gs, t, per
<1>6. SubSeq(ch2, Len(ch) + 1, Len(ch2)) = x
    BY <1>2, <1>5, AddedAtEnd
<1>7. JoinOf(ins2, ins, x)
    BY <1>5, <1>6 DEF JoinOf
<1>8. Balanced(t, ch2, ins2, era)
    BY <1>2, <1>5, <1>7, BalanceGrows
<1>9. Listed(ins2) /\ Begins(ins, ins2)
    BY <1>2, <1>5, <1>7, BeginsJoined
<1>10. Begins(era, era)
    BY <1>5, ListLength DEF Begins
<1>11. AreTallied(t, gs, ins2, per, era)
    BY <1>5, <1>9, <1>10, StillTallied
<1> QED BY <1>1, <1>3, <1>5, <1>8, <1>9, <1>11 DEF Logged, ch, ch2, ins, ins2, era, gs, t, per

LEMMA ReusingKeepsLogged ==
    ASSUME Core, Logged, NEW r, ReuseOne(r),
           AreTallied(ir, graphs', inserted, persistent, erased)
    PROVE  Logged'
<1> DEFINE ch == chosen
           i == CHOOSE j \in DOMAIN ch : ch[j] = r
           rest == RemoveAt(ch, i)
           z == Extended(r, MainPair)
           x == <<z>>
           y == <<ch[i]>>
<1>1. ReuseConflictPair(r)
    BY DEF ReuseOne
<1>2. UNCHANGED <<prog, persistent>>
    BY <1>1 DEF ReuseConflictPair
<1>3. ir' = ir /\ persistent' = persistent
    BY <1>2 DEF ir
<1>4. /\ chosen' = Append(rest, z) /\ inserted' = Append(inserted, Last(chosen'))
      /\ erased' = Append(erased, r)
    BY <1>1 DEF ReuseConflictPair, ReuseOne
<1>5. Listed(ch) /\ Listed(inserted) /\ Listed(erased) /\ r \in ToSet(ch)
    BY <1>1, ReusedPair DEF Core, Logged
<1> HIDE DEF ch, z
<1>6. i \in DOMAIN ch /\ ch[i] = r
    <2>1. \E j \in DOMAIN ch : ch[j] = r
        BY <1>5 DEF ToSet
    <2> QED BY <2>1
<1> HIDE DEF i
<1>7. rest = RemoveAt(ch, i) /\ y = <<ch[i]>> /\ y = <<r>> /\ x = <<z>>
    BY <1>6
<1>8. Listed(rest)
    BY <1>5, <1>6, Removed
<1>9. Listed(x) /\ Listed(y)
    BY Singled
<1> HIDE DEF rest, x, y
<1> DEFINE ch2 == chosen'
           ins == inserted
           ins2 == inserted'
           era == erased
           era2 == erased'
           gs == graphs'
           t == ir
           per == persistent
<1>10. Last(ch2) = z
    BY <1>4, <1>8, LastAppended
<1>11. JoinOf(ch2, rest, x) /\ JoinOf(ins2, ins, x) /\ JoinOf(era2, era, y)
    <2>1. ch2 = rest \o x
        BY <1>4, <1>7, <1>8, JoinedOne
    <2>2. ins2 = Append(ins, z) /\ era2 = Append(era, r)
        BY <1>4, <1>10
    <2>3. Listed(ins) /\ Listed(era)
        BY <1>5
    <2> HIDE DEF ch2, ins2, ins, era2, era
    <2>4. ins2 = ins \o <<z>> /\ era2 = era \o <<r>>
        BY <2>2, <2>3, JoinedOne
    <2> QED BY <1>7, <2>1, <2>4 DEF JoinOf
<1>12. /\ Listed(ins) /\ Listed(era) /\ Balanced(t, ch, ins, era)
       /\ AreTallied(t, gs, ins, per, era)
    BY <1>5 DEF Logged, ch
<1> HIDE DEF ch2, ins, ins2, era, era2, gs, t, per
<1>13. Balanced(t, ch2, ins2, era2)
    BY <1>5, <1>6, <1>7, <1>8, <1>9, <1>11, <1>12, BalanceReplaced
<1>14. Listed(ins2) /\ Begins(ins, ins2) /\ Listed(era2) /\ Begins(era, era2)
    BY <1>9, <1>11, <1>12, BeginsJoined
<1>15. AreTallied(t, gs, ins2, per, era2)
    BY <1>12, <1>14, StillTallied
<1> QED BY <1>3, <1>13, <1>14, <1>15 DEF Logged, ch2, ins, ins2, era, era2, gs, t, per

LEMMA AskingPlan ==
    ASSUME Core, Logged
    PROVE  AreTallied(ir, AskedPlan, inserted, persistent, erased)
<1> DEFINE gs == AskedPlan
           key == KeyOf(plan.a, plan.b, plan.num)
           old == graphs
<1>1. gs = Asked(old, key) /\ AreTallied(ir, old, inserted, persistent, erased)
    BY DEF AskedPlan, Logged
<1>2. Listed(persistent) /\ Listed(chosen)
    BY DEF Core
<1> HIDE DEF gs, key, old
<1>3. AreTallied(ir, gs, inserted, persistent, erased)
    BY <1>1, <1>2, AskedIs
<1> QED BY <1>3 DEF gs

LEMMA SkippingKeepsLogged ==
    ASSUME Core, Logged, SkipEnforced
    PROVE  Logged'
<1>1. /\ UNCHANGED <<prog, persistent, chosen, inserted, erased>>
    BY DEF SkipEnforced, logs
<1>2. ir' = ir
    BY <1>1 DEF ir
<1>3. AreTallied(ir, AskedPlan, inserted, persistent, erased)
    BY AskingPlan
<1>4. AreTallied(ir, graphs', inserted, persistent, erased)
    <2>1. CASE part.queued
        <3> DEFINE before == AskedPlan
                   key == KeyOf(part.par1, part.par2, 1)
                   gs == Asked(before, key)
        <3>1. graphs' = gs
            BY <2>1 DEF SkipEnforced
        <3>2. gs = Asked(before, key) /\ AreTallied(ir, before, inserted, persistent, erased)
            BY <1>3
        <3>3. Listed(persistent) /\ Listed(chosen)
            BY DEF Core
        <3> HIDE DEF before, key, gs
        <3>4. AreTallied(ir, gs, inserted, persistent, erased)
            BY <3>2, <3>3, AskedIs
        <3> QED BY <3>1, <3>4
    <2>2. CASE ~part.queued
        <3>1. graphs' = AskedPlan
            BY <2>2 DEF SkipEnforced
        <3> QED BY <1>3, <3>1
    <2> QED BY <2>1, <2>2
<1> QED BY <1>1, <1>2, <1>4 DEF Logged

LEMMA HandlingKeepsLogged ==
    ASSUME Core, Logged, Handle
    PROVE  Logged'
<1>1. graphs' = AskedPlan
    BY DEF Handle
<1>2. AreTallied(ir, graphs', inserted, persistent, erased)
    BY <1>1, AskingPlan
<1>3. CASE (HandleBarrierConflict \/ HandleSetWaitConflict) /\ InsertNew
    BY <1>2, <1>3, AddingKeepsLogged
<1>4. CASE \E r \in ToSet(chosen) : ReuseOne(r)
    <2>1. PICK r \in ToSet(chosen) : ReuseOne(r)
        BY <1>4
    <2> QED BY <1>2, <2>1, ReusingKeepsLogged
<1> QED BY <1>3, <1>4 DEF Handle

LEMMA ResettingIsLogged ==
    ASSUME Listed(chosen'), ResetLists
    PROVE  Logged'
<1>1. inserted' = chosen' /\ erased' = <<>> /\ graphs' = <<>>
    BY DEF ResetLists
<1> DEFINE ch == chosen'
           ins == inserted'
           t == ir'
           per == persistent'
           era == erased'
           gs == graphs'
<1>2. Listed(ch) /\ ins = ch /\ era = <<>> /\ gs = <<>>
    BY <1>1
<1> HIDE DEF ch, ins, t, per, era, gs
<1>3. Listed(era)
    BY <1>2 DEF Listed, ToSet
<1>4. Balanced(t, ch, ins, era)
    <2> SUFFICES ASSUME NEW key, NEW e
                 PROVE  Count(t, ins, key, e) = Count(t, ch, key, e) + Count(t, era, key, e)
        BY DEF Balanced
    <2>1. Count(t, era, key, e) = 0 /\ Count(t, ch, key, e) \in Nat
        BY <1>2, CountOfNone, CountPositive
    <2> QED BY <1>2, <2>1
<1>5. AreTallied(t, gs, ins, per, era)
    BY <1>2 DEF AreTallied
<1> QED BY <1>2, <1>3, <1>4, <1>5 DEF Logged, ch, ins, t, per, era, gs

LEMMA BeginningIsLogged ==
    ASSUME Begin, NoLists
    PROVE  Logged
<1>1. chosen = <<>> /\ inserted = <<>> /\ erased = <<>> /\ graphs = <<>>
    BY DEF Begin, NoLists
<1>2. Listed(inserted) /\ Listed(erased)
    BY <1>1 DEF Listed, ToSet
<1>3. Balanced(ir, chosen, inserted, erased)
    <2> SUFFICES ASSUME NEW key, NEW e
                 PROVE  Count(ir, inserted, key, e) = Count(ir, chosen, key, e) + Count(ir, erased, key, e)
        BY DEF Balanced
    <2> QED BY <1>1, CountOfNone
<1>4. AreTallied(ir, graphs, inserted, persistent, erased)
    BY <1>1 DEF AreTallied
<1> QED BY <1>2, <1>3, <1>4 DEF Logged

LEMMA StepKeepsLogged ==
    ASSUME Core, Core', version = 2 => Logged, [NextSolver]_varsSolver
    PROVE  version' = 2 => Logged'
<1> SUFFICES ASSUME version' = 2 PROVE Logged'
    OBVIOUS
<1>1. CASE UNCHANGED varsSolver
    <2>1. version' = version /\ UNCHANGED <<prog, chosen, persistent, inserted, erased, graphs>>
        BY <1>1 DEF varsSolver, varsV2, vars, perRun, lists, logs
    <2>2. ir' = ir
        BY <2>1 DEF ir
    <2> QED BY <2>1, <2>2 DEF Logged
<1>2. CASE NextSolver
    <2>1. version = 2 /\ Logged /\ NextV2
        BY <1>2 DEF NextSolver
    <2>2. CASE SkipHandled
        <3>1. UNCHANGED <<prog, chosen, persistent, inserted, erased, graphs>>
            BY <2>2 DEF SkipHandled, lists, logs
        <3>2. ir' = ir
            BY <3>1 DEF ir
        <3> QED BY <2>1, <3>1, <3>2 DEF Logged
    <2>3. CASE SkipEnforced
        BY <2>1, <2>3, SkippingKeepsLogged
    <2>4. CASE Handle
        BY <2>1, <2>4, HandlingKeepsLogged
    <2>5. CASE StartOver /\ ResetLists
        <3>1. Listed(chosen')
            BY DEF Core
        <3> QED BY <2>5, <3>1, ResettingIsLogged
    <2>6. CASE Finish /\ UNCHANGED lists
        <3>1. UNCHANGED <<prog, chosen, persistent, inserted, erased, graphs>>
            BY <2>6 DEF Finish, perRun, lists, logs
        <3>2. ir' = ir
            BY <3>1 DEF ir
        <3> QED BY <2>1, <3>1, <3>2 DEF Logged
    <2> QED BY <2>1, <2>2, <2>3, <2>4, <2>5, <2>6 DEF NextV2
<1> QED BY <1>1, <1>2

(* getGraphSolverRef: every kept graph holds each edge as often as the      *)
(* parts of the three lists that it has taken in say.                       *)
THEOREM KeptGraphsTally == SpecSolver => [](version = 2 => Logged)
<1>1. InitSolver => (version = 2 => Logged)
    <2>1. InitSolver /\ version = 2 => Begin /\ NoLists
        BY DEF InitSolver, InitV2
    <2> QED BY <2>1, BeginningIsLogged
<1>2. Core /\ Core' /\ (version = 2 => Logged) /\ [NextSolver]_varsSolver
        => (version = 2 => Logged)'
    BY StepKeepsLogged
<1> QED BY <1>1, <1>2, CoreHolds, PTL DEF SpecSolver

(* The graph that is kept for the scopes of a plan tells as much about what *)
(* lies between its two accesses as a graph made for it.                    *)
LEMMA ConcernsWhatIsSeen ==
    ASSUME NEW t, WellBuilt(t), NEW p, IsPlan(t, p), NEW q, PairOk(t, q),
           t.occ[p.a].end <= q.start, q.end <= t.occ[p.b].start,
           NEW key, key = <<t.occ[p.a].parent, t.occ[p.b].parent, p.num>>
    PROVE  ConcernsIn(t, q, key) <=> SeenBy(t, p, q)
<1> DEFINE A == t.occ[p.a].up
           B == t.occ[p.b].up
           s == t.occ[p.a].end
           e == t.occ[p.b].start
<1>1. /\ IsTree(t.occ) /\ IsTimed(t.occ) /\ p.num \in Nat \ {0}
      /\ p.a \in DOMAIN t.occ /\ p.a # 1 /\ p.b \in DOMAIN t.occ /\ p.b # 1
      /\ s \in Nat /\ e \in Nat /\ s < e
    <2>1. IsOrder(t, p.a, p.b) /\ p.num \in Nat \ {0}
        BY PlanFacts
    <2>2. /\ p.a \in DOMAIN t.occ \ {1} /\ p.b \in DOMAIN t.occ \ {1}
          /\ s \in Nat /\ e \in Nat /\ s < e
        BY <2>1, OrderFacts
    <2> QED BY <2>1, <2>2, Built
<1>2. key[1] = t.occ[p.a].parent /\ key[2] = t.occ[p.b].parent /\ key[3] = p.num
    OBVIOUS
<1>3. Line(t.occ, key[1]) = A /\ Line(t.occ, key[2]) = B
    BY <1>1, <1>2, ParentFacts
<1>4. /\ q.start \in Nat /\ q.end \in Nat /\ q.start <= q.end
      /\ q.num \in Nat \ {0} /\ q.inner \in BOOLEAN /\ (~q.inner => q.num = 1)
      /\ ~q.mayNotRun => AlignedScopes(t, q.par1, q.par2)
    BY DEF PairOk
<1>5. s <= q.start /\ q.end <= e
    OBVIOUS
<1> HIDE DEF s, e
<1>6. ~(q.end < s) /\ ~(q.start > e)
    BY <1>1, <1>4, <1>5
<1>7. q.num <= p.num <=> ~(q.inner /\ p.num < q.num)
    <2>1. CASE q.inner
        <3>1. q.inner = TRUE
            BY <1>4, <2>1
        <3> QED BY <1>1, <1>4, <3>1
    <2>2. CASE ~q.inner
        <3>1. q.num = 1
            BY <1>4, <2>2
        <3>2. q.num <= p.num
            BY <1>1, <3>1
        <3> QED BY <2>2, <3>2
    <2> QED BY <2>1, <2>2
<1>8. ASSUME ~q.mayNotRun, q.par1 # q.par2 PROVE ~(q.par1 \in B /\ q.par2 \in A)
    <2> SUFFICES ASSUME q.par1 \in B, q.par2 \in A PROVE FALSE
        OBVIOUS
    <2> DEFINE x == t.occ[q.par1].end
               y == t.occ[q.par2].start
               sa == t.occ[p.a].start
               eb == t.occ[p.b].end
    <2>1. x < y
        BY <1>4, <1>8 DEF AlignedScopes
    <2>2. x \in Nat /\ eb \in Nat /\ eb <= x /\ e < eb
        <3>1. q.par1 \in Line(t.occ, p.b)
            BY DEF Line
        <3> QED BY <1>1, <3>1, TimeFacts DEF e
    <2>3. y \in Nat /\ sa \in Nat /\ y <= sa /\ sa < s
        <3>1. q.par2 \in Line(t.occ, p.a)
            BY DEF Line
        <3> QED BY <1>1, <3>1, TimeFacts DEF s
    <2> HIDE DEF x, y, sa, eb
    <2> QED BY <1>1, <2>1, <2>2, <2>3
<1>9. ConcernsIn(t, q, key) <=>
          /\ ~q.mayNotRun /\ q.num <= p.num
          /\ IF q.par1 = q.par2 THEN q.par1 \in A \cup B
             ELSE (q.par1 \in A /\ q.par2 \in B) \/ (q.par1 \in B /\ q.par2 \in A)
    BY <1>2, <1>3 DEF ConcernsIn
<1>10. SeenBy(t, p, q) <=>
          /\ IF q.par1 = q.par2 THEN q.par1 \in A \cup B ELSE q.par1 \in A /\ q.par2 \in B
          /\ ~q.mayNotRun /\ ~(q.inner /\ p.num < q.num)
    BY <1>6 DEF SeenBy, SpeaksOf, s, e
<1> HIDE DEF A, B
<1>11. CASE q.par1 = q.par2
    BY <1>7, <1>9, <1>10, <1>11
<1>12. CASE q.par1 # q.par2
    BY <1>7, <1>8, <1>9, <1>10, <1>12
<1> QED BY <1>11, <1>12

(* What is ordered depends on what lies inside alone.                       *)
OrderedIn(I, src, dst) ==
    LET E == I \ BarriersOf(I)
    IN  \/ \E q \in BarriersOf(I) : IsBarrierAll(q) \/ (q.src = src /\ src = dst)
        \/ \E x \in Arrivals(E, FirstSteps(E, src)) : x[1] = dst

LEMMA OrderedByIn ==
    ASSUME NEW V, NEW src, NEW dst, NEW s, NEW e
    PROVE  OrderedBy(V, src, dst, s, e) <=> OrderedIn(InsideOf(V, s, e), src, dst)
BY DEF OrderedBy, OrderedIn, InsideOf, BarriersOf, FirstSteps

LEMMA SameInside ==
    ASSUME NEW V, NEW W, NEW src, NEW dst, NEW s, NEW e, InsideOf(V, s, e) = InsideOf(W, s, e)
    PROVE  OrderedBy(V, src, dst, s, e) <=> OrderedBy(W, src, dst, s, e)
BY OrderedByIn

LEMMA SameAnswer ==
    ASSUME NEW t, WellBuilt(t), NEW p, IsPlan(t, p), NEW S, PairsOk(t, S),
           NEW key, key = <<t.occ[p.a].parent, t.occ[p.b].parent, p.num>>,
           NEW V, \A v : v \in V <=> \E q \in S : Hit(t, q, key, v)
    PROVE  OrderedBy(V, p.src, p.dst, t.occ[p.a].end, t.occ[p.b].start) <=> EnforcedBy(t, S, p)
<1> DEFINE s == t.occ[p.a].end
           e == t.occ[p.b].start
           W == SeenEdges(t, S, p)
<1>1. ASSUME NEW q \in S, s <= q.start, q.end <= e
      PROVE  ConcernsIn(t, q, key) <=> SeenBy(t, p, q)
    BY <1>1, ConcernsWhatIsSeen DEF PairsOk
<1> HIDE DEF s, e
<1>2. ASSUME NEW v \in InsideOf(V, s, e) PROVE v \in InsideOf(W, s, e)
    <2>1. v \in V /\ s <= v.start /\ v.end <= e
        BY DEF InsideOf
    <2>2. PICK q \in S : Hit(t, q, key, v)
        BY <2>1
    <2>3. v = Edge(q) /\ ConcernsIn(t, q, key)
        BY <2>2 DEF Hit
    <2>4. s <= q.start /\ q.end <= e
        BY <2>1, <2>3, EdgeIs
    <2>5. v \in W
        BY <1>1, <2>3, <2>4 DEF SeenEdges
    <2> QED BY <2>1, <2>5 DEF InsideOf
<1>3. ASSUME NEW v \in InsideOf(W, s, e) PROVE v \in InsideOf(V, s, e)
    <2>1. v \in W /\ s <= v.start /\ v.end <= e
        BY DEF InsideOf
    <2>2. PICK q \in S : v = Edge(q) /\ SeenBy(t, p, q)
        BY <2>1 DEF SeenEdges
    <2>3. s <= q.start /\ q.end <= e
        BY <2>1, <2>2, EdgeIs
    <2>4. Hit(t, q, key, v)
        BY <1>1, <2>2, <2>3 DEF Hit
    <2>5. v \in V
        BY <2>4
    <2> QED BY <2>1, <2>5 DEF InsideOf
<1> HIDE DEF W
<1>4. InsideOf(V, s, e) = InsideOf(W, s, e)
    BY <1>2, <1>3
<1>5. OrderedBy(V, p.src, p.dst, s, e) <=> OrderedBy(W, p.src, p.dst, s, e)
    BY <1>4, SameInside
<1> QED BY <1>5 DEF EnforcedBy, s, e, W

LEMMA AnswerIsEnforced ==
    ASSUME Core, Logged, Due
    PROVE  AnswerPlan <=> Enforced(plan)
<1>1. next \in DOMAIN plans /\ IsPlan(ir, plan) /\ WellBuilt(ir)
    <2>1. IsProgram(prog) /\ CountersOk(prog, pc, next, runNum, final)
        BY DEF Core
    <2>2. Len(prog.plans) \in Nat /\ DOMAIN prog.plans = 1 .. Len(prog.plans)
        BY <2>1, ListLength DEF IsProgram
    <2>3. next \in 1 .. Len(prog.plans)
        BY <2>1, <2>2 DEF CountersOk, Due, ProcessingOrder, plans
    <2> QED BY <2>1, <2>2, <2>3 DEF IsProgram, plans, plan, ir
<1> DEFINE key == KeyOf(plan.a, plan.b, plan.num)
           gs == AskedPlan
           V == DOMAIN gs[key].edges
           S == Pairs
           t == ir
           p == plan
<1>2. key = <<t.occ[p.a].parent, t.occ[p.b].parent, p.num>>
    BY DEF KeyOf
<1>3. gs = Asked(graphs, key) /\ AreTallied(ir, graphs, inserted, persistent, erased)
    BY DEF AskedPlan, Logged
<1>4. PairsOk(t, S) /\ Listed(persistent) /\ Listed(chosen)
    BY DEF Core, PairsOk, Pairs
<1>5. \A v : v \in V <=> \E q \in S : Hit(t, q, key, v)
    <2> DEFINE old == graphs
    <2>1. gs = Asked(old, key) /\ AreTallied(ir, old, inserted, persistent, erased)
        BY <1>3
    <2> HIDE DEF gs, key, old
    <2> QED BY <1>4, <2>1, AskedIs
<1>6. AnswerPlan <=> OrderedBy(V, p.src, p.dst, t.occ[p.a].end, t.occ[p.b].start)
    BY DEF AnswerPlan, Says
<1>7. Enforced(p) <=> EnforcedBy(t, S, p)
    BY EnforcedIs DEF Pairs
<1>8. WellBuilt(t) /\ IsPlan(t, p)
    BY <1>1
<1> HIDE DEF V, S, key, t, p, gs
<1>9. OrderedBy(V, p.src, p.dst, t.occ[p.a].end, t.occ[p.b].start) <=> EnforcedBy(t, S, p)
    BY <1>2, <1>4, <1>5, <1>8, SameAnswer
<1>10. AnswerPlan <=> Enforced(p)
    BY <1>6, <1>7, <1>9
<1> QED BY <1>10 DEF p

(* checkGraphConflict of the second version: the kept graph of the scopes   *)
(* of a conflict gives the answer that a graph made afresh of the pairs     *)
(* that stand now would give, whatever was reused, merged or made           *)
(* persistent since it was last asked.                                      *)
THEOREM KeptGraphsAnswer == SpecSolver => []AnswersAfresh
<1>1. Core /\ (version = 2 => Logged) => AnswersAfresh
    BY AnswerIsEnforced DEF AnswersAfresh
<1> QED BY <1>1, CoreHolds, KeptGraphsTally, PTL
-----------------------------------------------------------------------------
(***************************************************************************)
(* The groups of the second version.  What stands around two parts orders   *)
(* all that is left of the group.                                           *)
(***************************************************************************)

(* A place that is not inside part k, which holds the access a, and ends no *)
(* earlier than a ends no earlier than k ...                                *)
LEMMA EndsBehindPart ==
    ASSUME NEW t, IsTree(t), IsTimed(t), NEW a \in DOMAIN t, NEW k \in Line(t, a),
           NEW s \in DOMAIN t, k \notin t[s].up, t[a].end <= t[s].end
    PROVE  t[k].end <= t[s].end
<1>1. k \in DOMAIN t /\ k \in Nat /\ s \in Nat
    BY TreeFacts
<1>2. /\ t[k].start \in Nat /\ t[k].end \in Nat /\ t[s].start \in Nat /\ t[s].end \in Nat
      /\ t[a].start \in Nat /\ t[a].end \in Nat
      /\ t[k].start <= t[a].start /\ t[a].start < t[a].end /\ t[s].start < t[s].end
    BY <1>1, TimeFacts
<1>3. CASE s \in Line(t, k)
    BY <1>1, <1>3, TimeFacts
<1>4. CASE s \notin Line(t, k)
    <2>1. Apart(t, s, k) /\ Apart(t, k, s)
        BY <1>4 DEF Apart, Line
    <2>2. CASE k < s
        <3>1. t[k].end < t[s].start
            BY <1>1, <2>1, <2>2, ApartInTime
        <3> QED BY <1>2, <3>1
    <2>3. CASE s < k
        <3>1. t[s].end < t[k].start
            BY <1>1, <2>1, <2>3, ApartInTime
        <3> QED BY <1>2, <3>1
    <2> QED BY <1>1, <2>1, <2>2, <2>3 DEF Apart
<1> QED BY <1>3, <1>4

(* ... and if it starts no earlier than a ends, it starts behind k.         *)
LEMMA StartsBehindPart ==
    ASSUME NEW t, IsTree(t), IsTimed(t), NEW a \in DOMAIN t, NEW k \in Line(t, a),
           NEW s \in DOMAIN t, k \notin t[s].up, t[a].end <= t[s].start
    PROVE  t[k].end <= t[s].start
<1>1. k \in DOMAIN t /\ k \in Nat /\ s \in Nat
    BY TreeFacts
<1>2. /\ t[k].start \in Nat /\ t[k].end \in Nat /\ t[s].start \in Nat /\ t[s].end \in Nat
      /\ t[a].start \in Nat /\ t[a].end \in Nat
      /\ t[k].start <= t[a].start /\ t[a].start < t[a].end /\ t[s].start < t[s].end
    BY <1>1, TimeFacts
<1>3. CASE s \in Line(t, k)
    <2>1. t[s].start <= t[k].start
        BY <1>1, <1>3, TimeFacts
    <2> QED BY <1>2, <2>1
<1>4. CASE s \notin Line(t, k)
    <2>1. Apart(t, s, k) /\ Apart(t, k, s)
        BY <1>4 DEF Apart, Line
    <2>2. CASE k < s
        <3>1. t[k].end < t[s].start
            BY <1>1, <2>1, <2>2, ApartInTime
        <3> QED BY <1>2, <3>1
    <2>3. CASE s < k
        <3>1. t[s].end < t[k].start
            BY <1>1, <2>1, <2>3, ApartInTime
        <3> QED BY <1>2, <3>1
    <2> QED BY <1>1, <2>1, <2>2, <2>3 DEF Apart
<1> QED BY <1>3, <1>4

(* What is not inside the part of b and starts no later than b starts no    *)
(* later than the part.                                                     *)
LEMMA StartsBeforePart ==
    ASSUME NEW t, IsTree(t), IsTimed(t), NEW b \in DOMAIN t, NEW k \in Line(t, b),
           NEW w \in DOMAIN t, k \notin t[w].up, t[w].start <= t[b].start
    PROVE  t[w].start <= t[k].start
<1>1. k \in DOMAIN t /\ k \in Nat /\ w \in Nat
    BY TreeFacts
<1>2. /\ t[k].start \in Nat /\ t[k].end \in Nat /\ t[w].start \in Nat /\ t[w].end \in Nat
      /\ t[b].start \in Nat /\ t[b].end \in Nat
      /\ t[b].end <= t[k].end /\ t[b].start < t[b].end /\ t[w].start < t[w].end
    BY <1>1, TimeFacts
<1>3. CASE w \in Line(t, k)
    BY <1>1, <1>3, TimeFacts
<1>4. CASE w \notin Line(t, k)
    <2>1. Apart(t, w, k) /\ Apart(t, k, w)
        BY <1>4 DEF Apart, Line
    <2>2. CASE k < w
        <3>1. t[k].end < t[w].start
            BY <1>1, <2>1, <2>2, ApartInTime
        <3> QED BY <1>2, <3>1
    <2>3. CASE w < k
        <3>1. t[w].end < t[k].start
            BY <1>1, <2>1, <2>3, ApartInTime
        <3> QED BY <1>2, <3>1
    <2> QED BY <1>1, <2>1, <2>2, <2>3 DEF Apart
<1> QED BY <1>3, <1>4

(* The scope of what is not inside the part, and around a, is around it.    *)
LEMMA AroundPart ==
    ASSUME NEW t, IsTree(t), NEW a \in DOMAIN t, NEW k \in Line(t, a),
           NEW s \in DOMAIN t, s # 1, k \notin t[s].up, t[s].parent \in t[a].up
    PROVE  t[s].parent \in t[k].up
<1> DEFINE x == t[s].parent
<1>1. x \in t[s].up /\ t[s].up = Line(t, x)
    BY ParentFacts
<1>2. x \in Line(t, a) /\ x \in Nat /\ k \in Nat
    BY TreeFacts DEF Line
<1>3. x # k
    BY <1>1
<1>4. ~(k < x)
    BY <1>1, <1>2, TreeFacts DEF Line
<1>5. x < k
    BY <1>2, <1>3, <1>4
<1> QED BY <1>2, <1>5, TreeFacts

(* The operations of the two parts are not inside one another, unless one   *)
(* is the scope of the other.                                               *)
LEMMA PartsAreApart ==
    ASSUME NEW t, WellBuilt(t), NEW o, o.a \in DOMAIN t.occ, o.b \in DOMAIN t.occ, AreParts(t, o),
           NEW u, u = t.occ[o.par1].op, NEW v, v = t.occ[o.par2].op
    PROVE  /\ v \notin t.op[u].up
           /\ u \in t.op[v].up => IsScopeAndChild(t, o)
           /\ u \in DOMAIN t.op /\ v \in DOMAIN t.op /\ u # 1 /\ v # 1
           /\ IsScopeAndChild(t, o) => t.op[v].parent = u
<1>1. IsTree(t.occ) /\ IsTree(t.op)
    BY Built
<1>2. /\ o.par1 \in DOMAIN t.occ /\ o.par1 # 1 /\ o.par2 \in DOMAIN t.occ /\ o.par2 # 1
    <2>1. o.par1 \in Line(t.occ, o.a) /\ o.par2 \in Line(t.occ, o.b) /\ o.par1 # 1 /\ o.par2 # 1
        BY DEF AreParts, Line
    <2> QED BY <1>1, <2>1, TreeFacts
<1>3. u \in DOMAIN t.op /\ v \in DOMAIN t.op /\ u # 1 /\ v # 1
    BY <1>2, OccFacts, OpFacts
<1>4. t.op[v].parent = u \/ t.op[u].parent = t.op[v].parent
    BY DEF AreParts, IsScopeAndChild, ScopeOp
<1>5. IsScopeAndChild(t, o) <=> t.op[v].parent = u
    BY DEF IsScopeAndChild, ScopeOp
<1>6. /\ u \in Nat /\ v \in Nat
      /\ t.op[u].parent < u /\ t.op[v].parent < v
      /\ t.op[u].parent \in Nat /\ t.op[v].parent \in Nat
      /\ \A z \in t.op[u].up : z <= t.op[u].parent
      /\ \A z \in t.op[v].up : z <= t.op[v].parent
    <2> DEFINE p == t.op
    <2>1. IsTree(p) /\ u \in DOMAIN p /\ v \in DOMAIN p /\ u # 1 /\ v # 1
        BY <1>1, <1>3
    <2> HIDE DEF p
    <2>2. /\ u \in Nat /\ p[u].parent < u /\ p[u].parent \in Nat
          /\ \A z \in p[u].up : z <= p[u].parent
        BY <2>1, ParentFacts, TreeFacts
    <2>3. /\ v \in Nat /\ p[v].parent < v /\ p[v].parent \in Nat
          /\ \A z \in p[v].up : z <= p[v].parent
        BY <2>1, ParentFacts, TreeFacts
    <2> QED BY <2>2, <2>3, Zenon DEF p
<1> DEFINE pu == t.op[u].parent
           pv == t.op[v].parent
<1>7. v \notin t.op[u].up
    <2> SUFFICES ASSUME v \in t.op[u].up PROVE FALSE
        OBVIOUS
    <2>1. /\ v <= pu /\ pu < u /\ pv < v /\ (pv = u \/ pu = pv)
          /\ pu \in Nat /\ pv \in Nat /\ u \in Nat /\ v \in Nat
        BY <1>4, <1>6
    <2> HIDE DEF pu, pv
    <2> QED BY <2>1
<1>8. ASSUME u \in t.op[v].up PROVE t.op[v].parent = u
    <2>1. /\ u <= pv /\ pu < u /\ (pv = u \/ pu = pv)
          /\ pu \in Nat /\ pv \in Nat /\ u \in Nat
        BY <1>4, <1>6, <1>8
    <2> HIDE DEF pu, pv
    <2>2. pv = u
        BY <2>1
    <2> QED BY <2>2 DEF pv
<1> QED BY <1>3, <1>5, <1>7, <1>8

IsOutside(t, o, k) == o.par1 \notin t.occ[k].up /\ o.par2 \notin t.occ[k].up

(* A barrier outside of both parts that stops one order stops the others.   *)
LEMMA BarrierOrdersParts ==
    ASSUME NEW t, WellBuilt(t), NEW o, IsOrder(t, o.a, o.b), AreParts(t, o),
           NEW k, k # 1, StopsBetween(t, o, k), IsOutside(t, o, k),
           NEW r, IsOrder(t, r.a, r.b), IsFurther(t, o, r)
    PROVE  StopsBetween(t, r, k)
<1> DEFINE T == t.occ
           a == o.a
           b == o.b
           k1 == o.par1
           k2 == o.par2
<1>1. /\ IsTree(T) /\ IsTimed(T) /\ a \in DOMAIN T /\ b \in DOMAIN T
      /\ r.a \in DOMAIN T /\ r.b \in DOMAIN T
    BY Built, OrderFacts
<1>2. k1 \in Line(T, a) /\ k2 \in Line(T, b)
    BY DEF AreParts, Line
<1>3. /\ k \in DOMAIN T /\ T[k].parent \in T[a].up \cup T[b].up
      /\ T[a].end <= T[k].start /\ T[k].start <= T[b].start
    BY DEF StopsBetween
<1>4. k1 \notin T[k].up /\ k2 \notin T[k].up
    BY DEF IsOutside
<1>5. /\ T[k1].up \subseteq T[r.a].up /\ T[k2].up \subseteq T[r.b].up
      /\ T[r.a].end <= T[k1].end /\ T[k2].start <= T[r.b].start
    BY DEF IsFurther
<1>6. /\ k1 \in DOMAIN T /\ k2 \in DOMAIN T
    BY <1>1, <1>2, TreeFacts
<1> HIDE DEF T, a, b, k1, k2
<1>7. /\ T[k].start \in Nat /\ T[k1].end \in Nat /\ T[k2].start \in Nat
      /\ T[r.a].end \in Nat /\ T[r.b].start \in Nat
    BY <1>1, <1>3, <1>6, TimeFacts
<1>8. T[k1].end <= T[k].start
    BY <1>1, <1>2, <1>3, <1>4, StartsBehindPart
<1>9. T[k].start <= T[k2].start
    BY <1>1, <1>2, <1>3, <1>4, StartsBeforePart
<1>10. T[k].parent \in T[r.a].up \cup T[r.b].up
    <2>1. CASE T[k].parent \in T[a].up
        <3>1. T[k].parent \in T[k1].up
            BY <1>1, <1>2, <1>3, <1>4, <2>1, AroundPart
        <3> QED BY <1>5, <3>1
    <2>2. CASE T[k].parent \in T[b].up
        <3>1. T[k].parent \in T[k2].up
            BY <1>1, <1>2, <1>3, <1>4, <2>2, AroundPart
        <3> QED BY <1>5, <3>1
    <2> QED BY <1>3, <2>1, <2>2
<1>11. T[r.a].end <= T[k].start /\ T[k].start <= T[r.b].start
    BY <1>5, <1>7, <1>8, <1>9
<1> QED BY <1>3, <1>10, <1>11 DEF StopsBetween, T

(* A set and a wait order r when they stand between its two accesses.       *)
StandBetween(t, r, s, w) ==
    /\ t.occ[r.a].end <= t.occ[s].end /\ t.occ[w].start <= t.occ[r.b].start
    /\ \/ t.occ[s].parent \in t.occ[r.a].up /\ t.occ[w].parent \in t.occ[r.b].up
       \/ /\ t.occ[s].parent = t.occ[w].parent
          /\ t.occ[s].parent \in t.occ[r.a].up \cup t.occ[r.b].up

LEMMA BothOutside ==
    ASSUME NEW t, WellBuilt(t), NEW o, IsOrder(t, o.a, o.b), AreParts(t, o),
           NEW s, NEW w, AroundBoth(t, o.a, o.b, s, w),
           IsOutside(t, o, s), IsOutside(t, o, w),
           NEW r, IsOrder(t, r.a, r.b), IsFurther(t, o, r)
    PROVE  StandBetween(t, r, s, w)
<1> DEFINE T == t.occ
           a == o.a
           b == o.b
           k1 == o.par1
           k2 == o.par2
<1>1. /\ IsTree(T) /\ IsTimed(T) /\ a \in DOMAIN T /\ b \in DOMAIN T
      /\ r.a \in DOMAIN T /\ r.b \in DOMAIN T
    BY Built, OrderFacts
<1>2. k1 \in Line(T, a) /\ k2 \in Line(T, b)
    BY DEF AreParts, Line
<1>3. /\ s \in DOMAIN T /\ s # 1 /\ w \in DOMAIN T /\ w # 1
      /\ \/ T[s].parent \in T[a].up /\ T[w].parent \in T[b].up
         \/ T[s].parent = T[w].parent /\ T[s].parent \in T[a].up \cup T[b].up
      /\ T[a].end <= T[s].end /\ T[w].start <= T[b].start
    BY DEF AroundBoth
<1>4. k1 \notin T[s].up /\ k2 \notin T[s].up /\ k1 \notin T[w].up /\ k2 \notin T[w].up
    BY DEF IsOutside
<1>5. /\ T[k1].up \subseteq T[r.a].up /\ T[k2].up \subseteq T[r.b].up
      /\ T[r.a].end <= T[k1].end /\ T[k2].start <= T[r.b].start
    BY DEF IsFurther
<1>6. /\ k1 \in DOMAIN T /\ k2 \in DOMAIN T
    BY <1>1, <1>2, TreeFacts
<1> HIDE DEF T, a, b, k1, k2
<1>7. /\ T[s].end \in Nat /\ T[w].start \in Nat /\ T[k1].end \in Nat /\ T[k2].start \in Nat
      /\ T[r.a].end \in Nat /\ T[r.b].start \in Nat
    BY <1>1, <1>3, <1>6, TimeFacts
<1>8. T[k1].end <= T[s].end
    BY <1>1, <1>2, <1>3, <1>4, EndsBehindPart
<1>9. T[w].start <= T[k2].start
    BY <1>1, <1>2, <1>3, <1>4, StartsBeforePart
<1>10. T[s].parent \in T[a].up => T[s].parent \in T[k1].up
    BY <1>1, <1>2, <1>3, <1>4, AroundPart
<1>11. T[w].parent \in T[b].up => T[w].parent \in T[k2].up
    BY <1>1, <1>2, <1>3, <1>4, AroundPart
<1>12. T[r.a].end <= T[s].end /\ T[w].start <= T[r.b].start
    BY <1>5, <1>7, <1>8, <1>9
<1> QED BY <1>3, <1>5, <1>10, <1>11, <1>12 DEF StandBetween, T

(* A set outside of both parts comes with a wait outside of both, since the *)
(* two are in the same scope of the function.                               *)
LEMMA OuterSet ==
    ASSUME NEW t, WellBuilt(t), NEW o, IsOrder(t, o.a, o.b), AreParts(t, o),
           NEW s, NEW w, AroundBoth(t, o.a, o.b, s, w), t.occ[s].end <= t.occ[w].start,
           t.occ[t.occ[s].parent].op = t.occ[t.occ[w].parent].op, IsOutside(t, o, s)
    PROVE  IsOutside(t, o, w)
<1> DEFINE T == t.occ
           a == o.a
           b == o.b
           k1 == o.par1
           k2 == o.par2
           x == T[s].parent
           y == T[w].parent
           u == T[k1].op
           v == T[k2].op
<1>1. IsTree(T) /\ IsTimed(T) /\ IsTree(t.op) /\ a \in DOMAIN T /\ b \in DOMAIN T
    BY Built, OrderFacts
<1>2. k1 \in Line(T, a) /\ k2 \in Line(T, b)
    BY DEF AreParts, Line
<1>3. /\ s \in DOMAIN T /\ s # 1 /\ w \in DOMAIN T /\ w # 1
      /\ (x \in T[a].up /\ y \in T[b].up) \/ x = y
      /\ T[a].end <= T[s].end /\ T[s].end <= T[w].start
    BY DEF AroundBoth
<1>4. k1 \notin T[s].up /\ k2 \notin T[s].up /\ T[x].op = T[y].op
    BY DEF IsOutside
<1>5. v \notin t.op[u].up /\ u \in DOMAIN t.op
    BY <1>1, PartsAreApart
<1>6. /\ k1 \in DOMAIN T /\ k2 \in DOMAIN T
    BY <1>1, <1>2, TreeFacts
<1>7. T[s].up = Line(T, x) /\ T[w].up = Line(T, y)
    BY <1>1, <1>3, ParentFacts
<1>8. ASSUME k1 \in T[w].up PROVE FALSE
    <2>1. T[k1].end <= T[s].end
        BY <1>1, <1>2, <1>3, <1>4, EndsBehindPart
    <2>2. k1 \in Line(T, w)
        BY <1>8 DEF Line
    <2>3. T[w].end <= T[k1].end /\ T[w].start < T[w].end
        BY <1>1, <1>3, <2>2, TimeFacts
    <2>4. /\ T[w].start \in Nat /\ T[w].end \in Nat /\ T[s].end \in Nat /\ T[k1].end \in Nat
        BY <1>1, <1>3, <1>6, TimeFacts
    <2> QED BY <1>3, <2>1, <2>3, <2>4
<1>9. ASSUME k2 \in T[w].up PROVE FALSE
    <2>1. x # y
        BY <1>4, <1>7, <1>9
    <2>2. x \in T[k1].up
        <3>1. T[s].parent \in T[a].up
            BY <1>3, <2>1
        <3> HIDE DEF T, a, k1
        <3> QED BY <1>1, <1>2, <1>3, <1>4, <3>1, AroundPart
    <2>3. T[x].op \in t.op[u].up
        BY <1>6, <2>2, OpAround
    <2>4. v \in Line(t.op, T[y].op)
        <3>1. k2 = y \/ k2 \in T[y].up
            BY <1>7, <1>9 DEF Line
        <3>2. y \in DOMAIN T
            BY <1>1, <1>3, ParentFacts
        <3>3. k2 \in T[y].up => T[k2].op \in t.op[T[y].op].up
            BY <3>2, OpAround
        <3>4. v = T[y].op \/ v \in t.op[T[y].op].up
            <4>1. CASE k2 = y
                <5> HIDE DEF y
                <5> QED BY <4>1
            <4>2. CASE k2 \in T[y].up
                BY <3>3, <4>2
            <4> QED BY <3>1, <4>1, <4>2
        <3> QED BY <3>4 DEF Line
    <2>5. v = T[x].op \/ v \in t.op[T[x].op].up
        BY <1>4, <2>4 DEF Line
    <2>6. v \in t.op[u].up
        <3> DEFINE z == T[x].op
        <3>1. z \in t.op[u].up /\ (v = z \/ v \in t.op[z].up)
            BY <2>3, <2>5
        <3> HIDE DEF z, u, v
        <3>2. t.op[z].up \subseteq t.op[u].up
            BY <1>1, <1>5, <3>1, TreeFacts
        <3> QED BY <3>1, <3>2
    <2> QED BY <1>5, <2>6
<1> QED BY <1>8, <1>9 DEF IsOutside

(* A set inside of a part, with a wait outside of both, is in the part that *)
(* is the scope of the other: it is a child of it.                          *)
LEMMA InnerSet ==
    ASSUME NEW t, WellBuilt(t), NEW o, IsOrder(t, o.a, o.b), AreParts(t, o),
           NEW s, NEW w, AroundBoth(t, o.a, o.b, s, w), t.occ[s].end <= t.occ[w].start,
           t.occ[t.occ[s].parent].op = t.occ[t.occ[w].parent].op,
           ~IsOutside(t, o, s), IsOutside(t, o, w),
           NEW r, IsOrder(t, r.a, r.b), IsFurther(t, o, r)
    PROVE  StandBetween(t, r, s, w)
<1> DEFINE T == t.occ
           a == o.a
           b == o.b
           k1 == o.par1
           k2 == o.par2
           x == T[s].parent
           y == T[w].parent
           u == T[k1].op
           v == T[k2].op
           c == Toward(T, k1, a)
<1>1. /\ IsTree(T) /\ IsTimed(T) /\ IsTree(t.op) /\ a \in DOMAIN T /\ b \in DOMAIN T
      /\ r.a \in DOMAIN T /\ r.b \in DOMAIN T
    BY Built, OrderFacts
<1>2. k1 \in Line(T, a) /\ k2 \in Line(T, b)
    BY DEF AreParts, Line
<1>3. /\ s \in DOMAIN T /\ s # 1 /\ w \in DOMAIN T /\ w # 1
      /\ (x \in T[a].up /\ y \in T[b].up) \/ x = y
      /\ T[a].end <= T[s].end /\ T[s].end <= T[w].start /\ T[w].start <= T[b].start
    BY DEF AroundBoth
<1>4. k1 \notin T[w].up /\ k2 \notin T[w].up /\ T[x].op = T[y].op
    BY DEF IsOutside
<1>5. /\ u \in t.op[v].up => IsScopeAndChild(t, o) /\ t.op[v].parent = u
      /\ u \in DOMAIN t.op /\ v \in DOMAIN t.op /\ v # 1
    BY <1>1, PartsAreApart
<1>6. /\ k1 \in DOMAIN T /\ k2 \in DOMAIN T
    BY <1>1, <1>2, TreeFacts
<1>7. T[s].up = Line(T, x) /\ T[w].up = Line(T, y) /\ x \in DOMAIN T /\ y \in DOMAIN T
    BY <1>1, <1>3, ParentFacts
<1>8. T[w].start <= T[k2].start
    <2> HIDE DEF T, b, k2
    <2> QED BY <1>1, <1>2, <1>3, <1>4, StartsBeforePart
<1>9. ASSUME k2 \in T[s].up PROVE FALSE
    <2>1. k2 \in Line(T, s)
        BY <1>9 DEF Line
    <2>2. T[k2].start <= T[s].start /\ T[s].start < T[s].end
        BY <1>1, <1>3, <2>1, TimeFacts
    <2>3. /\ T[w].start \in Nat /\ T[s].start \in Nat /\ T[s].end \in Nat /\ T[k2].start \in Nat
        BY <1>1, <1>3, <1>6, TimeFacts
    <2>4. T[w].start <= T[s].start
        BY <1>8, <2>2, <2>3
    <2> QED BY <1>3, <2>2, <2>3, <2>4
<1>10. k1 \in T[s].up
    BY <1>9 DEF IsOutside
<1>11. x # y /\ x \in T[a].up /\ y \in T[b].up
    BY <1>3, <1>4, <1>7, <1>10
<1>12. y \in T[k2].up
    <2>1. T[w].parent \in T[b].up
        BY <1>11
    <2> HIDE DEF T, b, k2
    <2> QED BY <1>1, <1>2, <1>3, <1>4, <2>1, AroundPart
<1>13. T[x].op \in t.op[v].up
    <2>1. T[y].op \in t.op[v].up
        BY <1>6, <1>12, OpAround
    <2> QED BY <1>4, <2>1
<1>14. k1 = x \/ (k1 \in T[x].up /\ u \in t.op[T[x].op].up)
    <2>1. k1 = x \/ k1 \in T[x].up
        BY <1>7, <1>10 DEF Line
    <2>2. k1 \in T[x].up => u \in t.op[T[x].op].up
        BY <1>7, OpAround
    <2> QED BY <2>1, <2>2
<1>15. u \in t.op[v].up
    <2> DEFINE p == t.op
               z == T[x].op
    <2>1. IsTree(p) /\ v \in DOMAIN p /\ z \in p[v].up
        BY <1>1, <1>5, <1>13
    <2>2. u = z \/ u \in p[z].up
        BY <1>14
    <2> HIDE DEF p, z, u, v
    <2>3. p[z].up \subseteq p[v].up
        BY <2>1, TreeFacts
    <2>4. u \in p[v].up
        BY <2>1, <2>2, <2>3
    <2> QED BY <2>4 DEF p
<1>16. k1 = x
    <2> SUFFICES ASSUME u \in t.op[T[x].op].up PROVE FALSE
        BY <1>14
    <2> DEFINE z == T[x].op
    <2>1. z <= t.op[v].parent
        BY <1>1, <1>5, <1>13, ParentFacts
    <2>3. z \in DOMAIN t.op
        BY <1>7, OccFacts
    <2>5. t.op[v].parent = u /\ u \in t.op[z].up
        BY <1>5, <1>15
    <2> HIDE DEF z, u
    <2>4. z \in Nat /\ u \in Nat /\ u < z
        <3> DEFINE p == t.op
        <3>3. IsTree(p) /\ z \in DOMAIN p /\ u \in Line(p, z) /\ u \in p[z].up
            BY <1>1, <2>3, <2>5 DEF Line
        <3> HIDE DEF p
        <3>1. z \in Nat /\ u \in Nat /\ u <= z /\ z \notin p[z].up
            BY <3>3, TreeFacts
        <3>2. u # z
            BY <3>1, <3>3
        <3> QED BY <3>1, <3>2
    <2>6. z <= u
        BY <2>1, <2>5
    <2> QED BY <2>4, <2>6
<1>17. /\ c \in Line(T, a) /\ c \in DOMAIN T /\ k1 < c
    <2>1. k1 \in T[a].up
        BY <1>11, <1>16
    <2> QED BY <1>1, <2>1, TowardIs
<1>18. T[c].end <= T[s].end
    <2>1. c \notin T[s].up
        <3>1. T[s].up = Line(T, k1)
            BY <1>7, <1>16
        <3>2. \A z \in Line(T, k1) : z <= k1 /\ z \in Nat
            BY <1>1, <1>6, TreeFacts
        <3>3. k1 \in Nat /\ c \in Nat
            BY <1>1, <1>6, <1>17, TreeFacts
        <3> QED BY <1>17, <3>1, <3>2, <3>3
    <2> HIDE DEF T, a, c
    <2> QED BY <1>1, <1>3, <1>17, <2>1, EndsBehindPart
<1>19. /\ T[k2].up \subseteq T[r.b].up /\ T[k2].start <= T[r.b].start
       /\ k1 \in T[r.a].up /\ T[r.a].end <= T[c].end
    BY <1>5, <1>15 DEF IsFurther
<1>20. /\ T[s].end \in Nat /\ T[w].start \in Nat /\ T[c].end \in Nat /\ T[k2].start \in Nat
       /\ T[r.a].end \in Nat /\ T[r.b].start \in Nat
    BY <1>1, <1>3, <1>6, <1>17, TimeFacts
<1>21. T[r.a].end <= T[s].end /\ T[w].start <= T[r.b].start
    <2> HIDE DEF T, c, k2
    <2> QED BY <1>8, <1>18, <1>19, <1>20
<1> QED BY <1>12, <1>16, <1>19, <1>21 DEF StandBetween

(* The branches of two conditions that stand side by side hold nothing of   *)
(* one another.                                                             *)
BranchesApart(t, a, b, x, y) ==
    /\ a \in DOMAIN t.occ /\ a # 1 /\ b \in DOMAIN t.occ /\ b # 1
    /\ x = TrueBranchOf(t, a) /\ y = TrueBranchOf(t, b) /\ x # Top /\ y # Top
    /\ t.occ[x].op # t.occ[y].op
    /\ t.op[t.occ[x].op].parent = t.op[t.occ[y].op].parent

LEMMA SiblingScopes ==
    ASSUME NEW t, WellBuilt(t), NEW a, NEW b, NEW x, NEW y, BranchesApart(t, a, b, x, y)
    PROVE  t.op[t.occ[a].op].parent \notin t.op[t.occ[b].op].up
<1> DEFINE X == t.occ[x].op
           Y == t.occ[y].op
           B == t.occ[x + 1].op
           C == t.occ[y + 1].op
           Z == t.op[Y].parent
<1> USE DEF BranchesApart
<1>1. IsTree(t.occ) /\ IsTree(t.op)
    BY Built
<1>2. /\ x \in t.occ[a].up /\ KindOf(t, x) = "if" /\ t.occ[a].parent = x + 1
      /\ x + 1 \in t.occ[a].up /\ t.occ[x + 1].parent = x
    BY TrueBranchIs
<1>3. /\ y \in t.occ[b].up /\ KindOf(t, y) = "if" /\ t.occ[b].parent = y + 1
      /\ y + 1 \in t.occ[b].up /\ t.occ[y + 1].parent = y
    BY TrueBranchIs
<1>4. /\ x \in DOMAIN t.occ /\ x + 1 \in DOMAIN t.occ
      /\ y \in DOMAIN t.occ /\ y + 1 \in DOMAIN t.occ
    BY <1>1, <1>2, <1>3, TreeFacts DEF Line
<1>5. x # 1 /\ y # 1 /\ x + 1 # 1 /\ y + 1 # 1
    <2>1. KindOf(t, 1) = "function"
        BY DEF WellBuilt
    <2>2. x \in Nat \ {0} /\ y \in Nat \ {0}
        BY <1>1, <1>4, TreeFacts
    <2> QED BY <1>2, <1>3, <2>1, <2>2
<1>6. /\ t.op[t.occ[a].op].parent = B /\ t.op[t.occ[b].op].parent = C
      /\ t.op[B].parent = X /\ t.op[C].parent = Y
    BY <1>2, <1>3, <1>4, <1>5, OpParent
<1>7. /\ X \in DOMAIN t.op /\ Y \in DOMAIN t.op /\ B \in DOMAIN t.op /\ C \in DOMAIN t.op
      /\ X # 1 /\ Y # 1 /\ B # 1 /\ C # 1
      /\ t.occ[b].op \in DOMAIN t.op /\ t.occ[b].op # 1
    BY <1>4, <1>5, OccFacts, OpFacts
<1> HIDE DEF X, Y, B, C
<1>8. /\ t.op[t.occ[b].op].up = Line(t.op, C) /\ t.op[C].up = Line(t.op, Y)
      /\ t.op[Y].up = Line(t.op, Z)
    BY <1>1, <1>6, <1>7, ParentFacts
<1>9. X # Y /\ t.op[X].parent = Z
    BY DEF X, Y
<1>10. /\ X \in Nat /\ B \in Nat /\ Z \in Nat /\ Z < X /\ X < B
    BY <1>1, <1>6, <1>7, <1>9, ParentFacts, TreeFacts
<1>11. B # C
    BY <1>6, <1>9
<1>12. B # Y
    BY <1>6, <1>9, <1>10
<1>13. B \notin Line(t.op, Z)
    <2>1. Z \in DOMAIN t.op
        BY <1>1, <1>7, ParentFacts
    <2> HIDE DEF Z
    <2>2. \A z \in Line(t.op, Z) : z <= Z
        BY <1>1, <2>1, TreeFacts
    <2>3. ~(B <= Z)
        BY <1>10
    <2> QED BY <2>2, <2>3
<1>14. B \notin t.op[t.occ[b].op].up
    <2> HIDE DEF Z, BranchesApart
    <2>1. B \notin t.op[Y].up
        BY <1>8, <1>13
    <2>2. B \notin t.op[C].up
        BY <1>8, <1>12, <2>1 DEF Line
    <2> QED BY <1>8, <1>11, <2>2 DEF Line
<1> QED BY <1>6, <1>14

(* So of two accesses whose sync stays in such branches, neither is outside *)
(* of both parts.                                                           *)
LEMMA InsideParts ==
    ASSUME NEW t, WellBuilt(t), NEW o, IsOrder(t, o.a, o.b), AreParts(t, o),
           InSiblingIfs(t, o.a, o.b)
    PROVE  ~IsOutside(t, o, o.a) /\ ~IsOutside(t, o, o.b)
<1> DEFINE T == t.occ
           a == o.a
           b == o.b
           k1 == o.par1
           k2 == o.par2
           u == T[k1].op
           v == T[k2].op
           x == TrueBranchOf(t, a)
           y == TrueBranchOf(t, b)
<1>1. /\ IsTree(T) /\ IsTree(t.op) /\ a \in DOMAIN T /\ a # 1 /\ b \in DOMAIN T /\ b # 1
      /\ ~IsScope(t.op, T[a].op)
    BY Built, OrderFacts, AccessFacts DEF IsOrder, IsLeaf
<1>2. k1 \in Line(T, a) /\ k2 \in Line(T, b)
    BY DEF AreParts, Line
<1>3. /\ x # Top /\ y # Top /\ T[x].op # T[y].op
      /\ t.op[T[x].op].parent = t.op[T[y].op].parent
    BY DEF InSiblingIfs
<1>4. /\ t.op[T[a].op].parent \notin t.op[T[b].op].up
      /\ t.op[T[b].op].parent \notin t.op[T[a].op].up
    <2>1. BranchesApart(t, a, b, x, y) /\ BranchesApart(t, b, a, y, x)
        BY <1>1, <1>3 DEF BranchesApart
    <2>2. t.op[t.occ[a].op].parent \notin t.op[t.occ[b].op].up
        BY <2>1, SiblingScopes
    <2>3. t.op[t.occ[b].op].parent \notin t.op[t.occ[a].op].up
        BY <2>1, SiblingScopes
    <2> QED BY <2>2, <2>3
<1>5. /\ u \in DOMAIN t.op /\ v \in DOMAIN t.op /\ u # 1 /\ v # 1
    BY <1>1, PartsAreApart
<1>6. t.op[v].parent = u \/ t.op[u].parent = t.op[v].parent
    BY DEF AreParts, IsScopeAndChild, ScopeOp
<1>7. t.op[u].parent \in t.op[u].up /\ t.op[v].parent \in t.op[v].up
    BY <1>1, <1>5, ParentFacts
<1> DEFINE ua == T[a].op
           vb == T[b].op
<1>8. /\ k1 = a => u = ua
      /\ k1 # a => u \in t.op[ua].up
      /\ k2 = b => v = vb
      /\ k2 # b => v \in t.op[vb].up
      /\ ua \in DOMAIN t.op /\ vb \in DOMAIN t.op
    BY <1>1, <1>2, OccFacts DEF Line
<1>9. ASSUME ua \in t.op[vb].up PROVE FALSE
    <2>1. PICK z \in T[b].up : T[z].op = ua
        <3> HIDE DEF ua, b
        <3> QED BY <1>1, <1>9, OpBelow
    <2>2. IsScope(t.op, T[z].op)
        BY <1>1, <2>1, OccFacts
    <2> QED BY <1>1, <2>1, <2>2
<1> DEFINE pu == t.op[u].parent
           pv == t.op[v].parent
<1>12. /\ pv = u \/ pu = pv
       /\ pu \in t.op[u].up /\ pv \in t.op[v].up
       /\ t.op[ua].parent \notin t.op[vb].up /\ t.op[vb].parent \notin t.op[ua].up
       /\ u = ua => pu = t.op[ua].parent
       /\ v = vb => pv = t.op[vb].parent
    <2>1. /\ t.op[ua].parent \notin t.op[vb].up /\ t.op[vb].parent \notin t.op[ua].up
        BY <1>4
    <2> HIDE DEF u, v, ua, vb
    <2> QED BY <1>6, <1>7, <2>1
<1> HIDE DEF u, v, ua, vb, pu, pv
<1>13. u = ua \/ u \in t.op[ua].up
    BY <1>8
<1>14. v = vb \/ v \in t.op[vb].up
    BY <1>8
<1>15. t.op[u].up \subseteq t.op[ua].up
    BY <1>1, <1>8, <1>13, TreeFacts
<1>16. t.op[v].up \subseteq t.op[vb].up
    BY <1>1, <1>8, <1>14, TreeFacts
<1>10. ASSUME k1 = a PROVE FALSE
    <2>1. u = ua /\ pu = t.op[ua].parent
        BY <1>8, <1>10, <1>12
    <2>2. pv \in t.op[vb].up
        BY <1>12, <1>16
    <2>3. CASE pv = u
        BY <1>9, <2>1, <2>2, <2>3
    <2>4. CASE pu = pv
        BY <1>12, <2>1, <2>2, <2>4
    <2> QED BY <1>12, <2>3, <2>4
<1>11. ASSUME k2 = b PROVE FALSE
    <2>1. v = vb /\ pv = t.op[vb].parent
        BY <1>8, <1>11, <1>12
    <2>2. CASE pv = u
        <3>1. u \in t.op[ua].up
            BY <1>8, <1>10
        <3> QED BY <1>12, <2>1, <2>2, <3>1
    <2>3. CASE pu = pv
        BY <1>12, <1>15, <2>1, <2>3
    <2> QED BY <1>12, <2>2, <2>3
<1> QED BY <1>2, <1>10, <1>11 DEF IsOutside, Line

(* A new pair of which an end is outside of both parts orders all that is   *)
(* left of the group.                                                       *)
LEMMA PairOrdersParts ==
    ASSUME NEW t, WellBuilt(t), NEW o, IsOrder(t, o.a, o.b), AreParts(t, o),
           NEW p, IsPlan(t, p), p.a = o.a, p.b = o.b, p.kind = "setwait", p.ok,
           IsOutside(t, o, p.set) \/ IsOutside(t, o, p.wait),
           NEW r, IsOrder(t, r.a, r.b), IsFurther(t, o, r)
    PROVE  StandBetween(t, r, p.set, p.wait)
<1>1. /\ AroundBoth(t, o.a, o.b, p.set, p.wait)
      /\ p.inside => p.set = o.a /\ p.wait = o.b /\ InSiblingIfs(t, o.a, o.b)
      /\ PlacementAsserts(t, p, t.occ[p.set].op < t.occ[p.wait].op)
    BY SetWaitPlanFacts
<1>2. /\ t.occ[t.occ[p.set].parent].op = t.occ[t.occ[p.wait].parent].op \/ p.inside
      /\ t.occ[p.set].end <= t.occ[p.wait].start
    BY <1>1 DEF PlacementAsserts
<1>3. ~p.inside
    BY <1>1, InsideParts
<1>4. CASE IsOutside(t, o, p.set)
    BY <1>1, <1>2, <1>3, <1>4, OuterSet, BothOutside
<1>5. CASE ~IsOutside(t, o, p.set)
    BY <1>1, <1>2, <1>3, <1>5, InnerSet
<1> QED BY <1>4, <1>5

(* If what stands orders the two parts, it orders all that is left of the   *)
(* group.                                                                   *)
LEMMA PartsOrderRest ==
    ASSUME NEW t, WellBuilt(t), NEW o, IsOrder(t, o.a, o.b), AreParts(t, o),
           NEW r, IsPlan(t, r), IsFurther(t, o, r), NEW S, IsFiniteSet(S), PairsOk(t, S),
           NEW key, key = <<t.occ[o.par1].parent, t.occ[o.par2].parent, 1>>,
           NEW V, \A v : v \in V <=> \E q \in S : Hit(t, q, key, v),
           OrderedBy(V, r.src, r.dst, t.occ[o.par1].end, t.occ[o.par2].start)
    PROVE  EnforcedBy(t, S, r)
<1> DEFINE T == t.occ
           k1 == o.par1
           k2 == o.par2
           s == T[k1].end
           e == T[k2].start
           I == InsideOf(V, s, e)
           W == SeenEdges(t, S, r)
           ra == T[r.a].end
           rb == T[r.b].start
<1>1. /\ IsTree(T) /\ IsTimed(T) /\ o.a \in DOMAIN T /\ o.b \in DOMAIN T
    BY Built, OrderFacts
<1>2. /\ k1 \in DOMAIN T /\ k2 \in DOMAIN T /\ k1 # 1 /\ k2 # 1
    <2>1. k1 \in Line(T, o.a) /\ k2 \in Line(T, o.b) /\ k1 # 1 /\ k2 # 1
        BY DEF AreParts, Line
    <2> QED BY <1>1, <2>1, TreeFacts
<1>3. /\ T[k1].up \subseteq T[r.a].up /\ T[k2].up \subseteq T[r.b].up
      /\ ra <= s /\ e <= rb
    BY DEF IsFurther
<1>4. /\ ra \in Nat /\ rb \in Nat /\ r.num \in Nat \ {0}
    BY PlanTimes, PlanFacts
<1>5. /\ s \in Nat /\ e \in Nat /\ T[k1].start \in Nat /\ T[k1].start < s
      /\ T[k2].end \in Nat /\ e < T[k2].end
    BY <1>1, <1>2, TimeFacts
<1>6. key[1] = T[k1].parent /\ key[2] = T[k2].parent /\ key[3] = 1
    OBVIOUS
<1>7. Line(T, key[1]) = T[k1].up /\ Line(T, key[2]) = T[k2].up
    BY <1>1, <1>2, <1>6, ParentFacts
<1> HIDE DEF s, e, ra, rb, I, W
<1>8. ASSUME NEW v \in I PROVE v \in W /\ ra <= v.start /\ v.end <= rb
    <2>1. v \in V /\ s <= v.start /\ v.end <= e
        BY DEF InsideOf, I
    <2>2. PICK q \in S : Hit(t, q, key, v)
        BY <2>1
    <2>3. v = Edge(q) /\ ConcernsIn(t, q, key) /\ PairOk(t, q)
        BY <2>2 DEF Hit, PairsOk
    <2>4. /\ v.start = q.start /\ v.end = q.end
        BY <2>3, EdgeIs
    <2>5. /\ q.start \in Nat /\ q.end \in Nat /\ q.start <= q.end /\ q.num \in Nat \ {0}
          /\ q.par1 # q.par2 /\ ~q.mayNotRun => AlignedScopes(t, q.par1, q.par2)
        BY <2>3 DEF PairOk
    <2>6. s <= q.start /\ q.end <= e
        BY <2>1, <2>4
    <2>7. ra <= q.start /\ q.end <= rb /\ ~(q.end < ra) /\ ~(q.start > rb)
        BY <1>3, <1>4, <1>5, <2>5, <2>6
    <2>8. /\ ~q.mayNotRun /\ q.num <= 1
          /\ IF q.par1 = q.par2 THEN q.par1 \in T[k1].up \cup T[k2].up
             ELSE \/ q.par1 \in T[k1].up /\ q.par2 \in T[k2].up
                  \/ q.par1 \in T[k2].up /\ q.par2 \in T[k1].up
        BY <1>6, <1>7, <2>3 DEF ConcernsIn
    <2>9. ~(r.num < q.num)
        BY <1>4, <2>5, <2>8
    <2>10. ASSUME q.par1 # q.par2, q.par1 \in T[k2].up, q.par2 \in T[k1].up PROVE FALSE
        <3> DEFINE x == T[q.par1].end
                   y == T[q.par2].start
                   u == T[k1].start
                   w == T[k2].end
        <3>1. x < y
            BY <2>5, <2>8, <2>10 DEF AlignedScopes
        <3>2. x \in Nat /\ w <= x
            <4>1. q.par1 \in Line(T, k2)
                BY <2>10 DEF Line
            <4> QED BY <1>1, <1>2, <4>1, TimeFacts
        <3>3. y \in Nat /\ y <= u
            <4>1. q.par2 \in Line(T, k1)
                BY <2>10 DEF Line
            <4> QED BY <1>1, <1>2, <4>1, TimeFacts
        <3>4. /\ u \in Nat /\ u < s /\ s \in Nat /\ e \in Nat /\ w \in Nat /\ e < w
              /\ q.start \in Nat /\ q.end \in Nat /\ s <= q.start /\ q.start <= q.end /\ q.end <= e
            BY <1>5, <2>5, <2>6
        <3> HIDE DEF x, y, u, w
        <3> QED BY <3>1, <3>2, <3>3, <3>4
    <2>11. SpeaksOf(t, r, q)
        <3>1. CASE q.par1 = q.par2
            BY <1>3, <2>8, <3>1 DEF SpeaksOf
        <3>2. CASE q.par1 # q.par2
            BY <1>3, <2>8, <2>10, <3>2 DEF SpeaksOf
        <3> QED BY <3>1, <3>2
    <2>12. SeenBy(t, r, q)
        BY <2>7, <2>8, <2>9, <2>11 DEF SeenBy, ra, rb
    <2>13. v \in W
        BY <2>3, <2>12 DEF SeenEdges, W
    <2> QED BY <2>4, <2>7, <2>13
<1>9. IsFiniteSet(W) /\ AreEdges(W)
    BY SeenEdgesAre DEF W
<1>10. IsFiniteSet(I) /\ AreEdges(I)
    <2>1. I \subseteq W
        BY <1>8
    <2> QED BY <1>9, <2>1, FS_Subset DEF AreEdges
<1>11. OrderedBy(I, r.src, r.dst, ra, rb)
    <2>1. OrderedIn(I, r.src, r.dst)
        BY OrderedByIn DEF I, s, e
    <2>2. InsideOf(I, ra, rb) = I
        BY <1>8 DEF InsideOf
    <2> QED BY <2>1, <2>2, OrderedByIn
<1>12. ServeFor(W, InsideOf(I, ra, rb))
    <2>1. \A v \in InsideOf(I, ra, rb) : v \in W /\ v.start \in Nat
        BY <1>8, <1>10 DEF InsideOf, AreEdges
    <2> QED BY <2>1 DEF ServeFor, Serves
<1>13. OrderedBy(W, r.src, r.dst, ra, rb)
    BY <1>4, <1>9, <1>10, <1>11, <1>12, ServingOrders
<1> QED BY <1>13 DEF EnforcedBy, W, ra, rb
-----------------------------------------------------------------------------
(***************************************************************************)
(* The plans of the second version are in the order of their groups.        *)
(***************************************************************************)
(* Of two members of s the earlier comes first in a pair of Q.              *)
ComesBefore(x, y, Q) == <<x, y>> \in Q

Sorted(s, Q) == \A i, j \in DOMAIN s : i < j => ComesBefore(s[i], s[j], Q)

Precede(s, u, Q) == \A x \in ToSet(s), y \in ToSet(u) : ComesBefore(x, y, Q)

LEMMA SortedJoined ==
    ASSUME NEW Q, NEW s, Listed(s), NEW u, Listed(u), Sorted(s, Q), Sorted(u, Q),
           Precede(s, u, Q), NEW z, JoinOf(z, s, u)
    PROVE  Listed(z) /\ Sorted(z, Q) /\ \A x \in ToSet(z) : x \in ToSet(s) \cup ToSet(u)
<1> DEFINE n == Len(s)
           m == Len(u)
<1>11. n = Len(s) /\ m = Len(u)
    OBVIOUS
<1> HIDE DEF n, m
<1>12. Listed(z)
    BY Joined
<1>1. /\ n \in Nat /\ m \in Nat /\ Len(z) = n + m
      /\ \A i \in 1 .. n : z[i] = s[i]
      /\ \A i \in 1 .. m : z[n + i] = u[i]
    <2>1. n \in Nat /\ m \in Nat /\ Len(z) = n + m
        BY <1>11, Joined
    <2>2. \A i \in 1 .. n : z[i] = s[i]
        BY <1>11, Joined
    <2>3. ASSUME NEW i \in 1 .. m PROVE z[n + i] = u[i]
        <3> DEFINE k == n + i
        <3>1. IsBehind(k, s, u, i)
            BY <1>11 DEF IsBehind
        <3> HIDE DEF k
        <3>2. z[k] = u[i]
            BY <3>1, JoinedAt
        <3> QED BY <3>2 DEF k
    <2> QED BY <2>1, <2>2, <2>3
<1>2. DOMAIN z = 1 .. n + m /\ DOMAIN s = 1 .. n /\ DOMAIN u = 1 .. m
    BY <1>1, <1>11, <1>12, ListLength
<1>3. /\ \A i \in 1 .. n : s[i] \in ToSet(s)
      /\ \A i \in 1 .. m : u[i] \in ToSet(u)
    BY <1>2 DEF ToSet
<1>4. ASSUME NEW i \in 1 .. n + m
      PROVE  \/ i \in 1 .. n /\ z[i] = s[i]
             \/ i - n \in 1 .. m /\ z[i] = u[i - n] /\ ~(i <= n)
    <2>1. CASE i <= n
        BY <1>1, <2>1
    <2>2. CASE ~(i <= n)
        <3>1. i - n \in 1 .. m /\ n + (i - n) = i
            BY <1>1, <2>2
        <3> QED BY <1>1, <2>2, <3>1
    <2> QED BY <2>1, <2>2
<1>5. ASSUME NEW i \in 1 .. n + m, NEW j \in 1 .. n + m, i < j
      PROVE  ComesBefore(z[i], z[j], Q)
    <2>1. CASE j <= n
        <3>1. i \in 1 .. n /\ j \in 1 .. n
            BY <1>1, <1>5, <2>1
        <3> QED BY <1>1, <1>2, <1>5, <3>1 DEF Sorted
    <2>2. CASE i <= n /\ ~(j <= n)
        <3>1. z[i] \in ToSet(s) /\ z[j] \in ToSet(u)
            BY <1>3, <1>4, <2>2
        <3> QED BY <3>1 DEF Precede
    <2>3. CASE ~(i <= n)
        <3>1. ~(j <= n) /\ i - n < j - n
            BY <1>1, <1>5, <2>3
        <3>2. i - n \in 1 .. m /\ j - n \in 1 .. m /\ z[i] = u[i - n] /\ z[j] = u[j - n]
            BY <1>4, <2>3, <3>1
        <3> QED BY <1>2, <3>1, <3>2 DEF Sorted
    <2> QED BY <2>1, <2>2, <2>3
<1>6. Sorted(z, Q)
    BY <1>2, <1>5 DEF Sorted
<1>7. \A x \in ToSet(z) : x \in ToSet(s) \cup ToSet(u)
    <2> SUFFICES ASSUME NEW i \in 1 .. n + m PROVE z[i] \in ToSet(s) \cup ToSet(u)
        BY <1>2 DEF ToSet
    <2> QED BY <1>3, <1>4
<1> QED BY <1>6, <1>7, <1>12

LEMMA FlattenedSorted ==
    ASSUME NEW Q, NEW seqs, NEW n \in Nat, seqs = [i \in 1 .. n |-> seqs[i]],
           \A i \in 1 .. n : Listed(seqs[i]) /\ Sorted(seqs[i], Q),
           \A i, j \in 1 .. n : i < j => Precede(seqs[i], seqs[j], Q)
    PROVE  Sorted(FlattenSeq(seqs), Q)
<1>1. Listed(seqs) /\ Len(seqs) = n /\ DOMAIN seqs = 1 .. n
    BY FunctionIsListed
<1>2. CASE n = 0
    <2>1. FlattenSeq(seqs) = seqs
        BY <1>1, <1>2 DEF FlattenSeq
    <2> QED BY <1>1, <1>2, <2>1 DEF Sorted
<1>3. CASE n # 0
    <2> DEFINE f == CHOOSE h : IsFlat(h, seqs, n)
               P == {m \in Nat : m \in 1 .. n =>
                        /\ Listed(f[m]) /\ Sorted(f[m], Q)
                        /\ \A x \in ToSet(f[m]) : \E i \in 1 .. m : x \in ToSet(seqs[i])}
    <2>1. IsFlat(f, seqs, n)
        BY FlatExists
    <2>2. FlattenSeq(seqs) = f[n]
        BY <1>1, <1>3 DEF FlattenSeq, IsFlat
    <2> HIDE DEF f
    <2>3. \A m \in 1 .. n : f[m] = IF m = 1 THEN seqs[m] ELSE f[m - 1] \o seqs[m]
        BY <2>1 DEF IsFlat
    <2>4. 0 \in P
        OBVIOUS
    <2>5. ASSUME NEW m \in Nat, m \in P PROVE m + 1 \in P
        <3>1. m + 1 \in Nat
            OBVIOUS
        <3> SUFFICES ASSUME m + 1 \in 1 .. n
                     PROVE  /\ Listed(f[m + 1]) /\ Sorted(f[m + 1], Q)
                            /\ \A x \in ToSet(f[m + 1]) :
                                  \E i \in 1 .. m + 1 : x \in ToSet(seqs[i])
            BY <3>1
        <3>2. CASE m = 0
            <4>1. f[1] = seqs[1] /\ 1 \in 1 .. n /\ m + 1 = 1 /\ 1 \in 1 .. 1
                BY <2>3, <3>2
            <4> QED BY <4>1
        <3>3. CASE m # 0
            <4>1. m \in 1 .. n /\ m + 1 # 1 /\ (m + 1) - 1 = m
                BY <3>3
            <4> DEFINE s == f[m]
                       t == seqs[m + 1]
                       z == f[m + 1]
            <4>2. JoinOf(z, s, t) /\ Listed(t) /\ Sorted(t, Q)
                BY <2>3, <4>1 DEF JoinOf
            <4>3. /\ Listed(s) /\ Sorted(s, Q)
                  /\ \A x \in ToSet(s) : \E i \in 1 .. m : x \in ToSet(seqs[i])
                BY <2>5, <4>1
            <4>4. \A i \in 1 .. m : i \in 1 .. n /\ i < m + 1 /\ i \in 1 .. m + 1
                BY <4>1
            <4>5. Precede(s, t, Q)
                <5>1. ASSUME NEW x \in ToSet(s), NEW y \in ToSet(t) PROVE ComesBefore(x, y, Q)
                    <6>1. PICK i \in 1 .. m : x \in ToSet(seqs[i])
                        BY <4>3
                    <6>2. Precede(seqs[i], t, Q)
                        BY <4>4
                    <6> QED BY <6>1, <6>2 DEF Precede
                <5> HIDE DEF s, t
                <5> QED BY <5>1 DEF Precede
            <4> HIDE DEF s, t, z
            <4>6. Listed(z) /\ Sorted(z, Q) /\ \A x \in ToSet(z) : x \in ToSet(s) \cup ToSet(t)
                BY <4>2, <4>3, <4>5, SortedJoined
            <4>7. m + 1 \in 1 .. m + 1
                OBVIOUS
            <4>8. ASSUME NEW x \in ToSet(z) PROVE \E i \in 1 .. m + 1 : x \in ToSet(seqs[i])
                <5>1. CASE x \in ToSet(s)
                    <6>1. PICK i \in 1 .. m : x \in ToSet(seqs[i])
                        BY <4>3, <5>1
                    <6> QED BY <4>4, <6>1
                <5>2. CASE x \in ToSet(t)
                    BY <4>7, <5>2 DEF t
                <5> QED BY <4>6, <5>1, <5>2
            <4>9. Listed(f[m + 1]) /\ Sorted(f[m + 1], Q)
                BY <4>6 DEF z
            <4>10. \A x \in ToSet(f[m + 1]) : \E i \in 1 .. m + 1 : x \in ToSet(seqs[i])
                BY <4>8 DEF z
            <4> QED BY <4>9, <4>10
        <3> QED BY <3>2, <3>3
    <2>6. Nat \subseteq P
        <3> HIDE DEF P
        <3> QED BY <2>4, <2>5, Upwards
    <2>7. n \in P /\ n \in 1 .. n
        <3> HIDE DEF P
        <3> QED BY <1>3, <2>6
    <2> QED BY <2>2, <2>7
<1> QED BY <1>2, <1>3

(* What of T may stand behind an order of T.                                *)
Followers(t, T) ==
    {z \in T \X T : z[1].group = z[2].group /\ z[1].queued => IsFurther(t, z[1], z[2])}

LEMMA FollowersAre ==
    ASSUME NEW t, NEW T, NEW x, NEW y
    PROVE  ComesBefore(x, y, Followers(t, T)) <=>
              x \in T /\ y \in T /\ (x.group = y.group /\ x.queued => IsFurther(t, x, y))
<1> DEFINE z == <<x, y>>
<1>1. z[1] = x /\ z[2] = y /\ (z \in T \X T <=> x \in T /\ y \in T)
    OBVIOUS
<1>2. z \in Followers(t, T) <=>
         z \in T \X T /\ (z[1].group = z[2].group /\ z[1].queued => IsFurther(t, z[1], z[2]))
    BY DEF Followers
<1> QED BY <1>1, <1>2 DEF ComesBefore

LEMMA GroupOrderIs ==
    ASSUME NEW g, NEW o, NEW x, x = GroupOrder(g, o)
    PROVE  /\ x.a = o.a /\ x.b = o.b /\ x.queued = o.queued /\ x.group = g
           /\ x.par1 = o.par1 /\ x.par2 = o.par2
BY DEF GroupOrder

LEMMA GroupOrderParts ==
    ASSUME NEW t, NEW g, NEW o, NEW x, x = GroupOrder(g, o), AreParts(t, o)
    PROVE  AreParts(t, x)
BY GroupOrderIs DEF AreParts, IsScopeAndChild

LEMMA GroupOrderFurther ==
    ASSUME NEW t, NEW g, NEW o, NEW x, x = GroupOrder(g, o),
           NEW l, NEW y, y.a = l.a, y.b = l.b, IsFurther(t, o, l)
    PROVE  IsFurther(t, x, y)
BY GroupOrderIs DEF IsFurther, IsScopeAndChild

LEMMA GroupedOrdersFollow ==
    ASSUME NEW t, NEW groups, Listed(groups),
           \A g \in DOMAIN groups : OrdersOfAccesses(t, groups[g]) /\ IsGroup(t, groups[g])
    PROVE  /\ \E T : Sorted(GroupedOrders(groups), Followers(t, T))
           /\ \A o \in ToSet(GroupedOrders(groups)) : o.queued => AreParts(t, o)
           /\ \A g \in DOMAIN groups : \A l \in ToSet(groups[g]) :
                 GroupOrder(g, l) \in ToSet(GroupedOrders(groups))
<1> DEFINE m == Len(groups)
           T == UNION {{GroupOrder(g, o) : o \in ToSet(groups[g])} : g \in DOMAIN groups}
           In(g) == [i \in DOMAIN groups[g] |-> GroupOrder(g, groups[g][i])]
           seqs == [g \in DOMAIN groups |-> In(g)]
           Q == Followers(t, T)
<1>1. m \in Nat /\ DOMAIN groups = 1 .. m
    BY ListLength
<1>2. GroupedOrders(groups) = FlattenSeq(seqs)
    BY DEF GroupedOrders, GroupOrder
<1> HIDE DEF m, Q
<1>3. ASSUME NEW g \in 1 .. m
      PROVE  /\ Listed(seqs[g]) /\ ToSet(seqs[g]) \subseteq T /\ Sorted(seqs[g], Q)
             /\ \A l \in ToSet(groups[g]) : GroupOrder(g, l) \in ToSet(seqs[g])
             /\ \A x \in ToSet(seqs[g]) : x.group = g
    <2> DEFINE os == groups[g]
               s == [i \in DOMAIN os |-> GroupOrder(g, os[i])]
               n == Len(os)
    <2>1. seqs[g] = s
        BY <1>1
    <2>2. \A o \in ToSet(os) : GroupOrder(g, o) \in T
        BY <1>1
    <2>3. n \in Nat /\ DOMAIN os = 1 .. n
        BY <1>1, AccessOrders
    <2>4. \A i \in 1 .. n : os[i].queued =>
              \A j \in i + 1 .. n : IsFurther(t, os[i], os[j])
        BY <1>1, <2>3 DEF IsGroup
    <2> HIDE DEF os, T, n
    <2>5. s = [i \in 1 .. n |-> s[i]] /\ \A i \in 1 .. n : s[i] = GroupOrder(g, os[i])
        BY <2>3
    <2> HIDE DEF s
    <2>6. Listed(s) /\ DOMAIN s = 1 .. n
        BY <2>3, <2>5, FunctionIsListed
    <2>7. \A i \in 1 .. n : s[i] \in T /\ os[i] \in ToSet(os)
        BY <2>2, <2>3, <2>5 DEF ToSet
    <2>8. ToSet(s) \subseteq T
        BY <2>6, <2>7 DEF ToSet
    <2>9. ASSUME NEW i \in 1 .. n, NEW j \in 1 .. n, i < j PROVE ComesBefore(s[i], s[j], Q)
        <3> DEFINE x == s[i]
                   y == s[j]
                   o == os[i]
                   l == os[j]
        <3>1. x = GroupOrder(g, o) /\ y = GroupOrder(g, l) /\ x \in T /\ y \in T
            BY <2>5, <2>7
        <3>2. o.queued => IsFurther(t, o, l)
            <4>1. j \in i + 1 .. n
                BY <2>3, <2>9
            <4> QED BY <2>4, <4>1
        <3> HIDE DEF x, y, o, l
        <3>3. y.a = l.a /\ y.b = l.b
            BY <3>1, GroupOrderIs
        <3>4. x.queued = o.queued
            BY <3>1, GroupOrderIs
        <3>5. x.queued => IsFurther(t, x, y)
            BY <3>1, <3>2, <3>3, <3>4, GroupOrderFurther
        <3>6. ComesBefore(x, y, Q)
            BY <3>1, <3>5, FollowersAre DEF Q
        <3> QED BY <3>6 DEF x, y
    <2>10. Sorted(s, Q)
        BY <2>6, <2>9 DEF Sorted
    <2>11. \A l \in ToSet(os) : GroupOrder(g, l) \in ToSet(s)
        BY <2>3, <2>5, <2>6 DEF ToSet
    <2>12. \A x \in ToSet(s) : x.group = g
        <3> SUFFICES ASSUME NEW i \in 1 .. n PROVE s[i].group = g
            BY <2>6 DEF ToSet
        <3> QED BY <2>5 DEF GroupOrder
    <2> QED BY <2>1, <2>6, <2>8, <2>10, <2>11, <2>12 DEF os
<1>4. seqs = [g \in 1 .. m |-> seqs[g]]
    BY <1>1
<1>5. ASSUME NEW z \in T PROVE z.queued => AreParts(t, z)
    <2>1. PICK g \in DOMAIN groups : \E o \in ToSet(groups[g]) : z = GroupOrder(g, o)
        OBVIOUS
    <2>2. PICK i \in DOMAIN groups[g] : z = GroupOrder(g, groups[g][i])
        BY <2>1 DEF ToSet
    <2> DEFINE o == groups[g][i]
    <2>3. o.queued => AreParts(t, o)
        BY <2>1, <2>2 DEF IsGroup
    <2>4. z = GroupOrder(g, o)
        BY <2>2
    <2> HIDE DEF o
    <2>5. z.queued = o.queued
        BY <2>4, GroupOrderIs
    <2> QED BY <2>3, <2>4, <2>5, GroupOrderParts
<1> HIDE DEF seqs, T
<1>6. /\ Listed(FlattenSeq(seqs)) /\ ToSet(FlattenSeq(seqs)) \subseteq T
      /\ \A g \in 1 .. m : ToSet(seqs[g]) \subseteq ToSet(FlattenSeq(seqs))
    BY <1>1, <1>3, <1>4, FlatOf
<1>7. ASSUME NEW g \in 1 .. m, NEW h \in 1 .. m, g < h PROVE Precede(seqs[g], seqs[h], Q)
    <2> SUFFICES ASSUME NEW x \in ToSet(seqs[g]), NEW y \in ToSet(seqs[h])
                 PROVE  ComesBefore(x, y, Q)
        BY DEF Precede
    <2>1. x \in T /\ y \in T /\ x.group = g /\ y.group = h /\ g # h
        BY <1>1, <1>3, <1>7
    <2> QED BY <2>1, FollowersAre DEF Q
<1>8. Sorted(FlattenSeq(seqs), Q)
    BY <1>1, <1>3, <1>4, <1>7, FlattenedSorted
<1>9. \A g \in DOMAIN groups : \A l \in ToSet(groups[g]) :
          GroupOrder(g, l) \in ToSet(FlattenSeq(seqs))
    BY <1>1, <1>3, <1>6
<1>10. \A o \in ToSet(FlattenSeq(seqs)) : o.queued => AreParts(t, o)
    BY <1>5, <1>6
<1> QED BY <1>2, <1>8, <1>9, <1>10 DEF Q

LEMMA PlanOfOrder ==
    ASSUME NEW t, NEW o, NEW p, p = Plan(t, o)
    PROVE  /\ p.a = o.a /\ p.b = o.b /\ p.order = o
           /\ p.src = PipeOf(t, o.a) /\ p.dst = PipeOf(t, o.b) /\ p.num = EventIdNum(t, o.a, o.b)
<1> DEFINE num == EventIdNum(t, o.a, o.b)
           sw  == SetWaitOcc(t, o.a, o.b, num)
<1>1. CASE PipeOf(t, o.a) = PipeOf(t, o.b)
    <2>1. p = BarrierPlan(t, o, BarrierWaitOcc(t, o.a, o.b), num)
        BY <1>1 DEF Plan, ConflictPlan
    <2> QED BY <2>1 DEF BarrierPlan
<1>2. CASE PipeOf(t, o.a) # PipeOf(t, o.b)
    <2>1. p = SetWaitPlanAt(t, o, sw, num)
        BY <1>2 DEF Plan, ConflictPlan
    <2> HIDE DEF sw
    <2> QED BY <2>1 DEF SetWaitPlanAt, SetWaitPlan, Judged
<1> QED BY <1>1, <1>2

(* What a group leaves behind a plan, and what else may stand behind it.    *)
LeadsGroup(t, p) ==
    p.order.a = p.a /\ p.order.b = p.b /\ (p.order.queued => AreParts(t, p.order))

Behind(t, p, r) ==
    p.order.group = r.order.group /\ p.order.queued => IsFurther(t, p.order, r)

InGroups(t, ps) ==
    /\ \A i \in DOMAIN ps : LeadsGroup(t, ps[i])
    /\ \A i, j \in DOMAIN ps : i < j => Behind(t, ps[i], ps[j])

PlanFollowers(t, T) == {z \in T \X T : Behind(t, z[1], z[2])}

LEMMA PlanFollowersAre ==
    ASSUME NEW t, NEW T, NEW x, NEW y
    PROVE  ComesBefore(x, y, PlanFollowers(t, T)) <=> x \in T /\ y \in T /\ Behind(t, x, y)
<1> DEFINE z == <<x, y>>
<1>1. z[1] = x /\ z[2] = y /\ (z \in T \X T <=> x \in T /\ y \in T)
    OBVIOUS
<1>2. z \in PlanFollowers(t, T) <=> z \in T \X T /\ Behind(t, z[1], z[2])
    BY DEF PlanFollowers
<1> QED BY <1>1, <1>2 DEF ComesBefore

LEMMA NeededPlansFollow ==
    ASSUME NEW t, WellBuilt(t), NEW orders, AreOrders(t, orders), NEW T,
           Sorted(orders, Followers(t, T)), \A o \in ToSet(orders) : o.queued => AreParts(t, o)
    PROVE  /\ InGroups(t, NeededPlans(t, orders))
           /\ \A o \in ToSet(orders) :
                 NeedsSync(t, o) => Plan(t, o) \in ToSet(NeededPlans(t, orders))
<1> DEFINE m == Len(orders)
           U == {Plan(t, o) : o \in {o \in ToSet(orders) : NeedsSync(t, o)}}
           seqs == [i \in DOMAIN orders |->
                       IF NeedsSync(t, orders[i]) THEN <<Plan(t, orders[i])>> ELSE <<>>]
           Q == PlanFollowers(t, U)
           all == NeededPlans(t, orders)
<1>1. m \in Nat /\ DOMAIN orders = 1 .. m /\ \A i \in 1 .. m : orders[i] \in ToSet(orders)
    BY ListLength DEF AreOrders
<1> HIDE DEF m, Q
<1>2. all = FlattenSeq(seqs)
    BY DEF NeededPlans
<1>3. ASSUME NEW i \in 1 .. m
      PROVE  /\ Listed(seqs[i]) /\ ToSet(seqs[i]) \subseteq U /\ Sorted(seqs[i], Q)
             /\ \A x \in ToSet(seqs[i]) : x = Plan(t, orders[i])
             /\ NeedsSync(t, orders[i]) => Plan(t, orders[i]) \in ToSet(seqs[i])
    <2> DEFINE s == seqs[i]
               e == Plan(t, orders[i])
    <2>1. s = IF NeedsSync(t, orders[i]) THEN <<e>> ELSE <<>>
        BY <1>1
    <2>2. NeedsSync(t, orders[i]) => e \in U
        BY <1>1
    <2> HIDE DEF s, e, U
    <2>3. Listed(s) /\ ToSet(s) \subseteq U /\ \A x \in ToSet(s) : x = e
        BY <2>1, <2>2, Singled
    <2>4. NeedsSync(t, orders[i]) => e \in ToSet(s)
        BY <2>1, Singled
    <2>5. Sorted(s, Q)
        <3>1. CASE NeedsSync(t, orders[i])
            <4>1. s = <<e>>
                BY <2>1, <3>1
            <4>2. DOMAIN s = {1}
                BY <4>1
            <4> QED BY <4>2 DEF Sorted
        <3>2. CASE ~NeedsSync(t, orders[i])
            <4>1. s = <<>>
                BY <2>1, <3>2
            <4> QED BY <4>1 DEF Sorted
        <3> QED BY <3>1, <3>2
    <2> QED BY <2>3, <2>4, <2>5 DEF s, e
<1>4. seqs = [i \in 1 .. m |-> seqs[i]]
    BY <1>1
<1>5. ASSUME NEW p \in U PROVE LeadsGroup(t, p)
    <2>1. PICK o \in ToSet(orders) : p = Plan(t, o)
        OBVIOUS
    <2>2. p.a = o.a /\ p.b = o.b /\ p.order = o
        BY <2>1, PlanOfOrder
    <2>3. o.queued => AreParts(t, o)
        OBVIOUS
    <2> QED BY <2>2, <2>3 DEF LeadsGroup
<1> HIDE DEF seqs, U, all
<1>6. ASSUME NEW i \in 1 .. m, NEW j \in 1 .. m, i < j PROVE Precede(seqs[i], seqs[j], Q)
    <2> SUFFICES ASSUME NEW x \in ToSet(seqs[i]), NEW y \in ToSet(seqs[j])
                 PROVE  ComesBefore(x, y, Q)
        BY DEF Precede
    <2> DEFINE o == orders[i]
               l == orders[j]
    <2>1. x \in U /\ y \in U /\ x = Plan(t, o) /\ y = Plan(t, l)
        BY <1>3
    <2>2. ComesBefore(o, l, Followers(t, T))
        BY <1>1, <1>6 DEF Sorted
    <2> HIDE DEF o, l
    <2>3. o.group = l.group /\ o.queued => IsFurther(t, o, l)
        BY <2>2, FollowersAre
    <2>4. x.order = o /\ y.order = l /\ y.a = l.a /\ y.b = l.b
        BY <2>1, PlanOfOrder
    <2>5. IsFurther(t, o, l) => IsFurther(t, o, y)
        BY <2>4 DEF IsFurther
    <2>6. Behind(t, x, y)
        BY <2>3, <2>4, <2>5 DEF Behind
    <2> QED BY <2>1, <2>6, PlanFollowersAre DEF Q
<1>7. /\ Listed(all) /\ ToSet(all) \subseteq U
      /\ \A i \in 1 .. m : ToSet(seqs[i]) \subseteq ToSet(all)
    BY <1>1, <1>2, <1>3, <1>4, FlatOf
<1>8. Sorted(all, Q)
    BY <1>1, <1>2, <1>3, <1>4, <1>6, FlattenedSorted
<1>9. \A i \in DOMAIN all : LeadsGroup(t, all[i])
    BY <1>5, <1>7 DEF ToSet
<1>10. \A i, j \in DOMAIN all : i < j => Behind(t, all[i], all[j])
    BY <1>8, PlanFollowersAre DEF Sorted, Q
<1>11. ASSUME NEW o \in ToSet(orders), NeedsSync(t, o) PROVE Plan(t, o) \in ToSet(all)
    <2>1. PICK i \in 1 .. m : o = orders[i]
        BY <1>1 DEF ToSet
    <2> QED BY <1>3, <1>7, <1>11, <2>1
<1> QED BY <1>9, <1>10, <1>11 DEF InGroups, all

LEMMA PlanComesFrom ==
    ASSUME NEW t, NEW orders, AreOrders(t, orders), NEW p \in ToSet(NeededPlans(t, orders))
    PROVE  \E o \in ToSet(orders) : NeedsSync(t, o) /\ p = Plan(t, o)
<1> DEFINE m == Len(orders)
           U == {Plan(t, o) : o \in {o \in ToSet(orders) : NeedsSync(t, o)}}
           seqs == [i \in DOMAIN orders |->
                       IF NeedsSync(t, orders[i]) THEN <<Plan(t, orders[i])>> ELSE <<>>]
<1>1. m \in Nat /\ DOMAIN orders = 1 .. m /\ \A i \in 1 .. m : orders[i] \in ToSet(orders)
    BY ListLength DEF AreOrders
<1> HIDE DEF m
<1>2. NeededPlans(t, orders) = FlattenSeq(seqs)
    BY DEF NeededPlans
<1>3. ASSUME NEW i \in 1 .. m
      PROVE  Listed(seqs[i]) /\ ToSet(seqs[i]) \subseteq U
    <2> DEFINE s == seqs[i]
               e == Plan(t, orders[i])
    <2>1. s = IF NeedsSync(t, orders[i]) THEN <<e>> ELSE <<>>
        BY <1>1
    <2>2. NeedsSync(t, orders[i]) => e \in U
        BY <1>1
    <2> HIDE DEF s, e, U
    <2>3. Listed(s) /\ ToSet(s) \subseteq U
        BY <2>1, <2>2, Singled
    <2> QED BY <2>3 DEF s
<1>4. seqs = [i \in 1 .. m |-> seqs[i]]
    BY <1>1
<1>5. p \in U
    <2> HIDE DEF seqs, U
    <2> QED BY <1>1, <1>2, <1>3, <1>4, FlatOf
<1> QED BY <1>5

(* The plans of the second version, and that they hold those of the first.  *)
LEMMA SecondVersionPlans ==
    ASSUME NEW f \in Functions, NEW ps, ps = SolvableV2(f).plans
    PROVE  /\ InGroups(f.ir, ps)
           /\ \A p \in ToSet(NeededPlans(f.ir, f.orders)) : \E r \in ToSet(ps) :
                 r.a = p.a /\ r.b = p.b /\ r.src = p.src /\ r.dst = p.dst /\ r.num = p.num
<1> DEFINE t == f.ir
           groups == f.groups
           orders == GroupedOrders(groups)
           all == NeededPlans(t, f.orders)
<1>1. /\ WellBuilt(t) /\ OrdersOfAccesses(t, f.orders) /\ Listed(groups)
      /\ \A g \in DOMAIN groups : OrdersOfAccesses(t, groups[g])
    BY FunctionsAssumption DEF Listed
<1>2. /\ \A g \in DOMAIN groups : IsGroup(t, groups[g])
      /\ AreGrouped(f)
    BY GroupsAssumption
<1>3. ps = NeededPlans(t, orders)
    BY DEF SolvableV2
<1>4. AreOrders(t, orders)
    BY <1>1, GroupedOrdersAre
<1>5. /\ \E T : Sorted(orders, Followers(t, T))
      /\ \A o \in ToSet(orders) : o.queued => AreParts(t, o)
      /\ \A g \in DOMAIN groups : \A l \in ToSet(groups[g]) : GroupOrder(g, l) \in ToSet(orders)
    <2> HIDE DEF t, groups
    <2> QED BY <1>1, <1>2, GroupedOrdersFollow
<1> HIDE DEF orders
<1>6. /\ InGroups(t, ps)
      /\ \A o \in ToSet(orders) : NeedsSync(t, o) => Plan(t, o) \in ToSet(ps)
    <2>1. PICK T : Sorted(orders, Followers(t, T))
        BY <1>5
    <2> HIDE DEF t
    <2> QED BY <1>1, <1>3, <1>4, <1>5, <2>1, NeededPlansFollow
<1>7. ASSUME NEW p \in ToSet(all)
      PROVE  \E r \in ToSet(ps) :
                r.a = p.a /\ r.b = p.b /\ r.src = p.src /\ r.dst = p.dst /\ r.num = p.num
    <2>1. PICK o \in ToSet(f.orders) : NeedsSync(t, o) /\ p = Plan(t, o)
        BY <1>1, AccessOrders, PlanComesFrom
    <2>2. PICK g \in DOMAIN groups : \E l \in ToSet(groups[g]) : l.a = o.a /\ l.b = o.b
        BY <1>2, <2>1 DEF AreGrouped
    <2>3. PICK l \in ToSet(groups[g]) : l.a = o.a /\ l.b = o.b
        BY <2>2
    <2> DEFINE x == GroupOrder(g, l)
               r == Plan(t, x)
    <2>4. x.a = o.a /\ x.b = o.b /\ x \in ToSet(orders)
        BY <1>5, <2>3 DEF GroupOrder
    <2>5. r = Plan(t, x)
        OBVIOUS
    <2> HIDE DEF x, t, r
    <2>6. NeedsSync(t, x)
        BY <2>1, <2>4 DEF NeedsSync
    <2>7. r \in ToSet(ps)
        BY <1>6, <2>4, <2>5, <2>6
    <2>8. /\ r.a = x.a /\ r.b = x.b
          /\ r.src = PipeOf(t, x.a) /\ r.dst = PipeOf(t, x.b) /\ r.num = EventIdNum(t, x.a, x.b)
        BY <2>5, PlanOfOrder
    <2>9. /\ p.a = o.a /\ p.b = o.b
          /\ p.src = PipeOf(t, o.a) /\ p.dst = PipeOf(t, o.b) /\ p.num = EventIdNum(t, o.a, o.b)
        BY <2>1, PlanOfOrder
    <2> QED BY <2>4, <2>7, <2>8, <2>9
<1> QED BY <1>6, <1>7
-----------------------------------------------------------------------------
(***************************************************************************)
(* What the second version passes over is enforced.                         *)
(***************************************************************************)
(* Plan r is left of the group when plan p comes up, on the same two pipes. *)
IsLeft(t, p, r) ==
    /\ IsPlan(t, r) /\ IsFurther(t, p.order, r) /\ r.src = p.src /\ r.dst = p.dst
    /\ IsPlan(t, p) /\ AreParts(t, p.order) /\ p.order.a = p.a /\ p.order.b = p.b

LEMMA BarrierOrdersRest ==
    ASSUME NEW t, WellBuilt(t), NEW p, NEW r, IsLeft(t, p, r), p.src = p.dst,
           NEW S, NEW q \in S, NEW k, k # 1, StopsBetween(t, p, k), IsOutside(t, p.order, k),
           StandsAt(t, q, k, p.src)
    PROVE  EnforcedBy(t, S, r)
<1> DEFINE o == p.order
           pipe == p.src
<1>1. IsPlan(t, p) /\ IsPlan(t, r) /\ AreParts(t, o) /\ IsFurther(t, o, r)
    BY DEF IsLeft
<1>2. o.a = p.a /\ o.b = p.b
    BY DEF IsLeft
<1>3. pipe = r.src /\ r.src = r.dst /\ StandsAt(t, q, k, pipe)
    BY DEF IsLeft
<1>4. IsOutside(t, o, k)
    OBVIOUS
<1> HIDE DEF o, pipe
<1>5. IsOrder(t, o.a, o.b) /\ IsOrder(t, r.a, r.b)
    BY <1>1, <1>2, PlanFacts
<1>6. StopsBetween(t, o, k)
    BY <1>2 DEF StopsBetween
<1>7. StopsBetween(t, r, k)
    BY <1>1, <1>4, <1>5, <1>6, BarrierOrdersParts
<1> QED BY <1>1, <1>3, <1>7, BarrierEnforces

(* Pair q goes from the plan's set to its wait.                             *)
IsPairOf(t, p, q) ==
    /\ q.src = p.src /\ q.dst = p.dst /\ p.src # p.dst /\ ~q.mayNotRun /\ q.num <= 1
    /\ q.par1 = t.occ[p.set].parent /\ q.par2 = t.occ[p.wait].parent
    /\ q.start = t.occ[p.set].end /\ q.end = t.occ[p.wait].start

LEMMA PairOrdersRest ==
    ASSUME NEW t, WellBuilt(t), NEW p, NEW r, IsLeft(t, p, r), p.kind = "setwait", p.ok,
           NEW S, IsFiniteSet(S), PairsOk(t, S), NEW q \in S, IsPairOf(t, p, q),
           IsOutside(t, p.order, p.set) \/ IsOutside(t, p.order, p.wait)
    PROVE  EnforcedBy(t, S, r)
<1> DEFINE o == p.order
           set == p.set
           wait == p.wait
<1>1. IsPlan(t, p) /\ IsPlan(t, r) /\ AreParts(t, o) /\ IsFurther(t, o, r)
    BY DEF IsLeft
<1>2. p.a = o.a /\ p.b = o.b
    BY DEF IsLeft
<1>3. IsOutside(t, o, p.set) \/ IsOutside(t, o, p.wait)
    OBVIOUS
<1>4. r.src = p.src /\ r.dst = p.dst
    BY DEF IsLeft
<1> HIDE DEF o
<1>5. IsOrder(t, o.a, o.b) /\ IsOrder(t, r.a, r.b) /\ r.num \in Nat \ {0}
    BY <1>1, <1>2, PlanFacts
<1>6. StandBetween(t, r, p.set, p.wait)
    BY <1>1, <1>2, <1>3, <1>5, PairOrdersParts
<1>7. /\ t.occ[r.a].end <= q.start /\ q.end <= t.occ[r.b].start
      /\ \/ q.par1 \in t.occ[r.a].up /\ q.par2 \in t.occ[r.b].up
         \/ q.par1 = q.par2 /\ q.par1 \in t.occ[r.a].up \cup t.occ[r.b].up
    BY <1>6 DEF StandBetween, IsPairOf
<1>8. SpeaksOf(t, r, q)
    BY <1>7 DEF SpeaksOf
<1>9. q.num <= r.num
    <2>1. q.num \in Nat /\ q.num <= 1
        BY DEF PairsOk, PairOk, IsPairOf
    <2> QED BY <1>5, <2>1
<1>10. LiesBetween(t, r, q)
    BY <1>4, <1>7, <1>8, <1>9 DEF LiesBetween, IsPairOf
<1> QED BY <1>1, <1>10, PairEnforces

LEMMA JoinedBehind ==
    ASSUME NEW a, NEW b, Listed(b), NEW z, z = <<a>> \o b
    PROVE  Listed(z) /\ Len(z) \in Nat /\ Len(z) >= 1 /\ z[1] = a
<1> DEFINE one == <<a>>
           n == Len(one)
           m == Len(b)
<1>1. Listed(one) /\ one[1] = a /\ n = 1
    BY Singled
<1>2. JoinOf(z, one, b) /\ n = Len(one) /\ m = Len(b)
    BY DEF JoinOf
<1> HIDE DEF one, n, m
<1>3. Listed(z)
    BY <1>1, <1>2, Joined
<1>4. /\ n \in Nat /\ m \in Nat /\ Len(z) = n + m
      /\ \A i \in 1 .. n : z[i] = one[i]
      /\ \A i \in 1 .. m : z[n + i] = b[i]
    BY <1>1, <1>2, Joined
<1> QED BY <1>1, <1>3, <1>4

(* The first of the pairs that handleSetWaitConflict adds is the one it     *)
(* made first.                                                              *)
LEMMA AddedFirst ==
    ASSUME IsProgram(prog), next \in DOMAIN plans, plan.kind = "setwait", plan.ok,
           NEW main, main = MainPair, NEW pairs, pairs = <<main>> \o ExtraPairs(main), NEW n,
           NEW new, new = AddedPairs(pairs, n)
    PROVE  Listed(new) /\ Like(new[1], main, n) /\ new[1] \in ToSet(new)
<1> DEFINE extras == ExtraPairs(main)
           kept == Kept(pairs, n)
           a == WithMirrors(kept[1])
           b == Tail(kept)
<1>1. PairOk(ir, main)
    BY MainPairIsOk
<1>2. Listed(extras) /\ \A q \in ToSet(extras) : PairOk(ir, q)
    BY ExtraPairsAre
<1>3. DOMAIN main = Fields /\ \A q \in ToSet(extras) : DOMAIN q = Fields
    BY <1>1, <1>2 DEF PairOk
<1>4. pairs = <<main>> \o extras
    OBVIOUS
<1>5. new = <<a>> \o b
    BY DEF AddedPairs
<1> HIDE DEF extras
<1>6. Like(a, main, n) /\ Listed(b)
    <2>1. kept = Kept(pairs, n)
        OBVIOUS
    <2> HIDE DEF kept
    <2>2. AreKept(kept, pairs, main, extras, n)
        BY <1>2, <1>3, <1>4, <2>1, KeptAreLike
    <2> QED BY <2>2 DEF AreKept, kept
<1> HIDE DEF a, b
<1>9. Listed(new) /\ Len(new) \in Nat /\ Len(new) >= 1 /\ new[1] = a
    BY <1>5, <1>6, JoinedBehind
<1>10. new[1] \in ToSet(new)
    <2>1. DOMAIN new = 1 .. Len(new)
        BY <1>9, ListLength
    <2>2. 1 \in DOMAIN new
        BY <1>9, <2>1
    <2> QED BY <2>2 DEF ToSet
<1> QED BY <1>6, <1>9, <1>10

(* A barrier over all pipes never orders the parts.                         *)
LEMMA BarrierAllFirst ==
    ASSUME WellBuilt(ir), NEW x, NEW useless, NEW bs, bs = BarrierAllBefore(x, useless),
           NEW k \in DOMAIN ir.occ, ir.occ[k].op = x
    PROVE  IsBarrierAll(bs[1])
<1> DEFINE ks == Occurrences(x)
<1>1. Listed(ks) /\ k \in ToSet(ks)
    BY OccurrencesAre
<1>2. bs = [i \in DOMAIN ks |-> BarrierBefore(ks[i], All, useless \/ i > 1)]
    BY DEF BarrierAllBefore
<1> HIDE DEF ks
<1>3. 1 \in DOMAIN ks
    <2>1. Len(ks) \in Nat /\ DOMAIN ks = 1 .. Len(ks)
        BY <1>1, ListLength
    <2>2. PICK i \in DOMAIN ks : k = ks[i]
        BY <1>1 DEF ToSet
    <2> QED BY <2>1, <2>2
<1> DEFINE q == BarrierBefore(ks[1], All, useless \/ 1 > 1)
<1>4. bs[1] = q
    BY <1>2, <1>3
<1>5. StandsAt(ir, q, ks[1], All)
    BY BarrierBeforeIs
<1> HIDE DEF q
<1>6. q.src = All /\ IsBarrier(q)
    BY <1>5 DEF StandsAt
<1> QED BY <1>4, <1>6 DEF IsBarrierAll

(* The pair that handleBarrierConflict or handleSetWaitConflict returns.    *)
New == SubSeq(chosen', Len(chosen) + 1, Len(chosen'))

LEMMA NewAre ==
    ASSUME Listed(chosen), NEW new, Listed(new), chosen' = chosen \o new
    PROVE  New = new
<1> DEFINE s == chosen
           u == chosen'
<1>1. JoinOf(u, s, new) /\ Listed(s)
    BY DEF JoinOf
<1> HIDE DEF s, u
<1>2. SubSeq(u, Len(s) + 1, Len(u)) = new
    BY <1>1, AddedAtEnd
<1> QED BY <1>2 DEF New, s, u

LEMMA OutsideIs ==
    ASSUME NEW k
    PROVE  Outside(k) <=> IsOutside(ir, plan.order, k)
BY DEF Outside, IsOutside, part

LEMMA NewBarrierOrdersRest ==
    ASSUME Core, HandleBarrierConflict, OrdersParts(New[1]), NEW r, IsLeft(ir, plan, r)
    PROVE  EnforcedBy(ir, Pairs', r)
<1>1. next \in DOMAIN plans /\ IsPlan(ir, plan) /\ WellBuilt(ir) /\ plan.kind = "barrier"
    BY ContinueCounts DEF HandleBarrierConflict
<1> DEFINE k == plan.bar
           pipe == plan.src
           q == BarrierBefore(plan.wait, pipe, plan.useless)
<1>2. plan.src = plan.dst /\ plan.wait = k /\ IsOrder(ir, plan.a, plan.b)
      /\ k = BarrierWaitOcc(ir, plan.a, plan.b)
    BY <1>1, PlanFacts
<1>3. StandsAt(ir, q, k, pipe)
    BY <1>2, BarrierBeforeIs
<1>4. chosen' = Append(chosen, q) /\ persistent' = persistent
    BY DEF HandleBarrierConflict
<1>5. k # 1
    BY <1>1, <1>2, BarrierWaitOccIsGood
<1> HIDE DEF q, k
<1>6. Pairs' = Pairs \cup {q}
    BY <1>4, Appended DEF Core, Pairs
<1>7. New[1] = q
    <2> DEFINE new == <<q>>
    <2>1. Listed(new) /\ new[1] = q /\ Listed(chosen) /\ chosen' = chosen \o new
        BY <1>4, Singled, JoinedOne DEF Core
    <2> HIDE DEF new
    <2>2. New = new
        BY <2>1, NewAre
    <2> QED BY <2>1, <2>2
<1>8. IsOutside(ir, plan.order, k)
    BY <1>3, <1>7, OutsideIs DEF OrdersParts, StandsAt
<1> DEFINE S == Pairs'
           t == ir
           p == plan
<1>9. /\ q \in S /\ WellBuilt(t) /\ IsLeft(t, p, r) /\ p.src = p.dst
      /\ StopsBetween(t, p, k) /\ IsOutside(t, p.order, k) /\ StandsAt(t, q, k, p.src)
    BY <1>1, <1>2, <1>3, <1>6, <1>8, PlannedBarrier DEF k
<1> HIDE DEF S, t, p
<1>10. EnforcedBy(t, S, r)
    BY <1>5, <1>9, BarrierOrdersRest
<1> QED BY <1>10 DEF S, t

LEMMA NewPairOrdersRest ==
    ASSUME Core, Core', HandleSetWaitConflict, NEW main, main = MainPair,
           NEW pairs, pairs = <<main>> \o ExtraPairs(main), NEW n,
           AddsPairs(main, pairs, n), OrdersParts(New[1]), NEW r, IsLeft(ir, plan, r)
    PROVE  EnforcedBy(ir, Pairs', r)
<1> DEFINE new == AddedPairs(pairs, n)
           q == new[1]
<1>1. /\ ir' = ir /\ IsProgram(prog) /\ next \in DOMAIN plans /\ IsPlan(ir, plan) /\ WellBuilt(ir)
      /\ plan.kind = "setwait" /\ plan.ok /\ UNCHANGED persistent
    BY SetWaitContext
<1>2. chosen' = chosen \o new
    BY DEF AddsPairs
<1>3. new = AddedPairs(pairs, n)
    OBVIOUS
<1> HIDE DEF new
<1>4. Listed(new) /\ Like(q, main, n) /\ q \in ToSet(new)
    BY <1>1, <1>3, AddedFirst
<1>5. New[1] = q
    <2>1. Listed(chosen)
        BY DEF Core
    <2>2. New = new
        BY <1>2, <1>4, <2>1, NewAre
    <2> QED BY <2>2
<1>6. Pairs' = Pairs \cup ToSet(new)
    <2>1. ToSet(chosen') = ToSet(chosen) \cup ToSet(new)
        BY <1>2, <1>4, Concatenated DEF Core
    <2> QED BY <1>1, <2>1 DEF Pairs
<1> HIDE DEF q
<1>7. /\ main.src = plan.src /\ main.dst = plan.dst /\ ~main.mayNotRun
      /\ main.par1 = ir.occ[plan.set].parent /\ main.par2 = ir.occ[plan.wait].parent
      /\ main.start = ir.occ[plan.set].end /\ main.end = ir.occ[plan.wait].start
      /\ main.set = plan.set /\ main.wait = plan.wait
    BY MainPairIs
<1>8. /\ q.src = main.src /\ q.dst = main.dst /\ q.mayNotRun = main.mayNotRun
      /\ q.par1 = main.par1 /\ q.par2 = main.par2
      /\ q.start = main.start /\ q.end = main.end
      /\ q.set = main.set /\ q.wait = main.wait
    BY <1>4 DEF Like, Fields
<1>9. plan.src # plan.dst
    BY <1>1, SetWaitPlanFacts
<1>10. ~IsBarrier(q)
    BY <1>7, <1>8, <1>9 DEF IsBarrier
<1>11. q.num <= 1 /\ (Outside(plan.set) \/ Outside(plan.wait))
    BY <1>5, <1>7, <1>8, <1>10 DEF OrdersParts
<1>12. IsPairOf(ir, plan, q)
    BY <1>7, <1>8, <1>9, <1>11 DEF IsPairOf
<1>13. IsFiniteSet(Pairs') /\ PairsOk(ir, Pairs')
    <2>1. /\ Listed(chosen') /\ PairsOk(ir, ToSet(chosen'))
          /\ Listed(persistent') /\ PairsOk(ir, ToSet(persistent'))
        BY <1>1 DEF Core
    <2> DEFINE S == Pairs'
    <2>2. S = ToSet(chosen') \cup ToSet(persistent')
        BY DEF Pairs
    <2> HIDE DEF S
    <2>3. IsFiniteSet(S) /\ PairsOk(ir, S)
        BY <2>1, <2>2, PairsAre
    <2> QED BY <2>3 DEF S
<1> DEFINE S == Pairs'
           t == ir
           p == plan
<1>14. /\ q \in S /\ WellBuilt(t) /\ IsLeft(t, p, r) /\ p.kind = "setwait" /\ p.ok
       /\ IsFiniteSet(S) /\ PairsOk(t, S) /\ IsPairOf(t, p, q)
       /\ IsOutside(t, p.order, p.set) \/ IsOutside(t, p.order, p.wait)
    BY <1>1, <1>4, <1>6, <1>11, <1>12, <1>13, OutsideIs
<1> HIDE DEF S, t, p
<1>15. EnforcedBy(t, S, r)
    BY <1>14, PairOrdersRest
<1> QED BY <1>15 DEF S, t

LEMMA BarrierAllOrdersNone ==
    ASSUME Core, HandleSetWaitConflict, NEW main, AddsBarrierAll(main)
    PROVE  ~OrdersParts(New[1])
<1> DEFINE k == plan.bar
           x == ir.occ[k].op
           bs == BarrierAllBefore(x, main.useless)
<1>1. IsPlan(ir, plan) /\ WellBuilt(ir)
    BY SetWaitContext
<1>2. chosen' = chosen \o bs
    BY DEF AddsBarrierAll
<1>3. k \in DOMAIN ir.occ /\ bs = BarrierAllBefore(x, main.useless) /\ ir.occ[k].op = x
    BY <1>1, PlanFacts, BarrierWaitOccIsGood
<1> HIDE DEF k, x, bs
<1>4. Listed(bs)
    BY <1>1, <1>3, BarrierAllAre
<1>5. IsBarrierAll(bs[1])
    BY <1>1, <1>3, BarrierAllFirst
<1>6. New = bs
    <2>1. Listed(chosen)
        BY DEF Core
    <2> QED BY <1>2, <1>4, <2>1, NewAre
<1> QED BY <1>5, <1>6 DEF OrdersParts, IsBarrierAll

LEMMA NewOrdersRest ==
    ASSUME Core, Core', HandleBarrierConflict \/ HandleSetWaitConflict, OrdersParts(New[1]),
           NEW r, IsLeft(ir, plan, r)
    PROVE  EnforcedBy(ir, Pairs', r)
<1>1. ASSUME HandleSetWaitConflict PROVE EnforcedBy(ir, Pairs', r)
    <2> DEFINE main == MainPair
               pairs == <<main>> \o ExtraPairs(main)
               n == NodeOf(main)
    <2>1. AddsPairs(main, pairs, n) \/ AddsBarrierAll(main)
        BY <1>1, SetWaitCases
    <2> HIDE DEF main
    <2>2. main = MainPair
        BY DEF main
    <2>3. ~AddsBarrierAll(main)
        BY <1>1, BarrierAllOrdersNone
    <2>4. pairs = <<main>> \o ExtraPairs(main) /\ AddsPairs(main, pairs, n)
        BY <2>1, <2>3
    <2> HIDE DEF pairs, n
    <2> QED BY <1>1, <2>2, <2>4, NewPairOrdersRest
<1> QED BY <1>1, NewBarrierOrdersRest

(* What the second version takes as ordered and has yet to pass over, is.   *)
PartOf(p)  == <<p.order.group, p.src, p.dst>>
Grouped    == prog \in {SolvableV2(f) : f \in Functions}
PassedOver ==
    \A i \in next .. Len(plans) : PartOf(plans[i]) \in handled => EnforcedBy(ir, Pairs, plans[i])

LEMMA PlansAre ==
    ASSUME Core
    PROVE  /\ next \in Nat /\ Len(plans) \in Nat /\ DOMAIN plans = 1 .. Len(plans)
           /\ next \in 1 .. Len(plans) + 1 /\ WellBuilt(ir)
           /\ \A i \in DOMAIN plans : IsPlan(ir, plans[i])
<1>1. IsProgram(prog) /\ CountersOk(prog, pc, next, runNum, final)
    BY DEF Core
<1>2. Len(prog.plans) \in Nat /\ DOMAIN prog.plans = 1 .. Len(prog.plans)
    BY <1>1, ListLength DEF IsProgram
<1>3. next \in 1 .. Len(prog.plans) + 1 /\ next \in Nat
    BY <1>1, <1>2 DEF CountersOk
<1> QED BY <1>1, <1>2, <1>3 DEF IsProgram, plans, ir

LEMMA GroupedPlans ==
    ASSUME Grouped
    PROVE  InGroups(ir, plans)
<1>1. PICK f \in Functions : prog = SolvableV2(f)
    BY DEF Grouped
<1>2. ir = f.ir /\ plans = SolvableV2(f).plans
    BY <1>1 DEF ir, plans, SolvableV2
<1> QED BY <1>2, SecondVersionPlans

LEMMA RestOfGroup ==
    ASSUME Core, Grouped, next <= Len(plans), part.queued, NEW i \in next + 1 .. Len(plans),
           PartOf(plans[i]) = Part
    PROVE  IsLeft(ir, plan, plans[i])
<1> DEFINE t == ir
           ps == plans
           r == ps[i]
           p == ps[next]
<1>1. next \in DOMAIN ps /\ i \in DOMAIN ps /\ next < i
    BY PlansAre
<1>2. IsPlan(t, p) /\ IsPlan(t, r) /\ WellBuilt(t)
    BY <1>1, PlansAre
<1>3. InGroups(t, ps)
    BY GroupedPlans
<1>4. p.order.queued /\ r.order.group = p.order.group /\ r.src = p.src /\ r.dst = p.dst
    BY DEF PartOf, Part, part, plan
<1> HIDE DEF t, ps
<1>5. LeadsGroup(t, p) /\ Behind(t, p, r)
    BY <1>1, <1>3 DEF InGroups
<1> HIDE DEF p, r
<1>6. IsLeft(t, p, r)
    BY <1>2, <1>4, <1>5 DEF IsLeft, LeadsGroup, Behind
<1> QED BY <1>6 DEF t, p, r, ps, plan

(* What was enforced before a conflict was handled, still is.               *)
LEMMA EnforcedRemains ==
    ASSUME Core, Core', StillStand, ir' = ir, plans' = plans, NEW i \in DOMAIN plans,
           EnforcedBy(ir, Pairs, plans[i])
    PROVE  EnforcedBy(ir, Pairs', plans[i])
<1> DEFINE S == Pairs
           T == Pairs'
           t == ir
           p == plans[i]
<1>1. IsFiniteSet(S) /\ PairsOk(t, S)
    <2>1. /\ Listed(chosen) /\ PairsOk(ir, ToSet(chosen))
          /\ Listed(persistent) /\ PairsOk(ir, ToSet(persistent))
        BY DEF Core
    <2> QED BY <2>1, PairsAre DEF Pairs
<1>2. IsFiniteSet(T) /\ PairsOk(t, T)
    <2>1. /\ Listed(chosen') /\ PairsOk(ir, ToSet(chosen'))
          /\ Listed(persistent') /\ PairsOk(ir, ToSet(persistent'))
        BY DEF Core
    <2> QED BY <2>1, PairsAre DEF Pairs
<1>3. WellBuilt(t) /\ IsPlan(t, p)
    BY PlansAre
<1>4. EnforcedBy(t, S, p) /\ \A q \in S : \E z \in T : StandsFor(z, q)
    BY DEF StillStand
<1> HIDE DEF S, T, t, p
<1>5. EnforcedBy(t, T, p)
    BY <1>1, <1>2, <1>3, <1>4, EnforcedStays
<1> QED BY <1>5 DEF t, T, p

(* Passed and PassedOver after a conflict was looked at, given what the     *)
(* step did to the pairs and to handledCorePipePairs.                       *)
LEMMA LookedAt ==
    ASSUME Core, PassedOver, ProcessingOrder, Continue, ir' = ir, plans' = plans,
           NEW H, handled' \subseteq handled \cup H,
           \A i \in DOMAIN plans : EnforcedBy(ir, Pairs, plans[i]) => EnforcedBy(ir, Pairs', plans[i]),
           \A i \in next + 1 .. Len(plans) :
               PartOf(plans[i]) \in H => EnforcedBy(ir, Pairs', plans[i])
    PROVE  PassedOver'
<1>1. /\ next \in Nat /\ Len(plans) \in Nat /\ DOMAIN plans = 1 .. Len(plans)
      /\ next \in 1 .. Len(plans) + 1
    BY PlansAre
<1>2. next' = next + 1
    BY DEF Continue
<1> SUFFICES ASSUME NEW i \in next + 1 .. Len(plans), PartOf(plans[i]) \in handled'
             PROVE  EnforcedBy(ir, Pairs', plans[i])
    BY <1>2 DEF PassedOver
<1>3. CASE PartOf(plans[i]) \in H
    BY <1>3
<1>4. CASE PartOf(plans[i]) \in handled
    <2>1. i \in DOMAIN plans /\ i \in next .. Len(plans)
        BY <1>1
    <2>2. EnforcedBy(ir, Pairs, plans[i])
        BY <1>4, <2>1 DEF PassedOver
    <2> QED BY <2>1, <2>2
<1> QED BY <1>3, <1>4

(* checkGraphConflict of the two parts answers for the rest of the group.   *)
LEMMA SaidOfRest ==
    ASSUME Core, Logged, Grouped, Due, part.queued,
           Says(Asked(AskedPlan, KeyOf(part.par1, part.par2, 1)), part.par1, part.par2, 1),
           NEW i \in next + 1 .. Len(plans), PartOf(plans[i]) = Part
    PROVE  EnforcedBy(ir, Pairs, plans[i])
<1> DEFINE before == AskedPlan
           key == KeyOf(part.par1, part.par2, 1)
           gs == Asked(before, key)
           V == DOMAIN gs[key].edges
           S == Pairs
           t == ir
           o == part
           r == plans[i]
<1>1. IsLeft(t, plan, r)
    BY RestOfGroup DEF Due, ProcessingOrder
<1>2. /\ WellBuilt(t) /\ IsOrder(t, o.a, o.b) /\ AreParts(t, o) /\ IsPlan(t, r)
      /\ IsFurther(t, o, r)
    <2>1. WellBuilt(t)
        BY PlansAre
    <2>2. IsPlan(t, plan) /\ plan.order.a = plan.a /\ plan.order.b = plan.b
        BY <1>1 DEF IsLeft
    <2>3. IsOrder(t, plan.a, plan.b)
        BY <2>1, <2>2, PlanFacts
    <2> QED BY <1>1, <2>1, <2>2, <2>3 DEF IsLeft, part
<1>3. r.src = plan.src /\ r.dst = plan.dst
    BY <1>1 DEF IsLeft
<1>4. key = <<t.occ[o.par1].parent, t.occ[o.par2].parent, 1>>
    BY DEF KeyOf
<1>5. IsFiniteSet(S) /\ PairsOk(t, S)
    <2>1. /\ Listed(chosen) /\ PairsOk(ir, ToSet(chosen))
          /\ Listed(persistent) /\ PairsOk(ir, ToSet(persistent))
        BY DEF Core
    <2> QED BY <2>1, PairsAre DEF Pairs
<1>6. gs = Asked(before, key) /\ AreTallied(ir, before, inserted, persistent, erased)
      /\ Listed(persistent) /\ Listed(chosen)
    BY AskingPlan DEF Core
<1>7. OrderedBy(V, plan.src, plan.dst, t.occ[o.par1].end, t.occ[o.par2].start)
    BY DEF Says
<1>8. V = DOMAIN gs[key].edges /\ S = Pairs /\ t = ir
    OBVIOUS
<1> HIDE DEF before, key, gs, V, S, t, o, r
<1>9. \A v : v \in V <=> \E q \in S : Hit(t, q, key, v)
    BY <1>6, <1>8, AskedIs
<1>10. OrderedBy(V, r.src, r.dst, t.occ[o.par1].end, t.occ[o.par2].start)
    BY <1>3, <1>7
<1>11. EnforcedBy(t, S, r)
    BY <1>2, <1>4, <1>5, <1>9, <1>10, PartsOrderRest
<1> QED BY <1>8, <1>11 DEF r

LEMMA SkippingHandled ==
    ASSUME Core, Passed, PassedOver, SkipHandled
    PROVE  Passed' /\ PassedOver'
<1>1. /\ ProcessingOrder /\ Continue /\ Part \in handled /\ handled' = handled
      /\ ir' = ir /\ plans' = plans /\ Pairs' = Pairs /\ pc' = pc
    BY DEF SkipHandled, Continue, lists, ir, plans, Pairs
<1>2. EnforcedBy(ir, Pairs', plan)
    <2>1. next \in next .. Len(plans)
        BY <1>1, PlansAre DEF ProcessingOrder
    <2>2. PartOf(plans[next]) \in handled
        BY <1>1 DEF PartOf, Part, part, plan
    <2>3. EnforcedBy(ir, Pairs, plans[next])
        BY <2>1, <2>2 DEF PassedOver
    <2> QED BY <1>1, <2>3 DEF plan
<1>3. \A i \in 1 .. next - 1 : EnforcedBy(ir, Pairs', plans[i])
    BY <1>1 DEF Passed
<1>4. Passed'
    BY <1>1, <1>2, <1>3, ContinuesPassed
<1>5. PassedOver'
    <2> DEFINE H == {}
    <2>1. handled' \subseteq handled \cup H /\ \A x : x \notin H
        BY <1>1
    <2> HIDE DEF H
    <2> QED BY <1>1, <2>1, LookedAt
<1> QED BY <1>4, <1>5

LEMMA SkippingEnforced ==
    ASSUME Core, Logged, Grouped, Passed, PassedOver, SkipEnforced
    PROVE  Passed' /\ PassedOver'
<1>1. /\ Due /\ ProcessingOrder /\ Continue /\ AnswerPlan
      /\ ir' = ir /\ plans' = plans /\ Pairs' = Pairs /\ pc' = pc
    BY DEF SkipEnforced, Due, Continue, ir, plans, Pairs
<1>2. EnforcedBy(ir, Pairs', plan)
    <2>1. Enforced(plan)
        BY <1>1, AnswerIsEnforced
    <2>2. Enforced(plan) <=> EnforcedBy(ir, Pairs, plan)
        BY EnforcedIs DEF Pairs
    <2> QED BY <1>1, <2>1, <2>2
<1>3. \A i \in 1 .. next - 1 : EnforcedBy(ir, Pairs', plans[i])
    BY <1>1 DEF Passed
<1>4. Passed'
    BY <1>1, <1>2, <1>3, ContinuesPassed
<1> DEFINE gs == Asked(AskedPlan, KeyOf(part.par1, part.par2, 1))
           all == part.queued /\ Says(gs, part.par1, part.par2, 1)
           H == IF all THEN {Part} ELSE {}
<1>5. handled' \subseteq handled \cup H
    BY DEF SkipEnforced
<1>6. ASSUME NEW i \in next + 1 .. Len(plans), PartOf(plans[i]) \in H
      PROVE  EnforcedBy(ir, Pairs', plans[i])
    <2>1. all /\ PartOf(plans[i]) = Part
        BY <1>6
    <2>2. EnforcedBy(ir, Pairs, plans[i])
        BY <1>1, <2>1, SaidOfRest
    <2> QED BY <1>1, <2>2
<1> HIDE DEF H
<1>7. PassedOver'
    BY <1>1, <1>5, <1>6, LookedAt
<1> QED BY <1>4, <1>7

LEMMA ConflictContinues ==
    ASSUME HandleConflict
    PROVE  Continue /\ prog' = prog
<1>1. CASE HandleBarrierConflict
    BY <1>1 DEF HandleBarrierConflict
<1>2. ASSUME NEW r, ReuseConflictPair(r) PROVE Continue /\ prog' = prog
    BY <1>2 DEF ReuseConflictPair
<1>3. CASE HandleSetWaitConflict
    BY <1>3 DEF HandleSetWaitConflict
<1> QED BY <1>1, <1>2, <1>3 DEF HandleConflict

LEMMA HandlingPasses ==
    ASSUME Core, Core', Grouped, Passed, PassedOver, Handle
    PROVE  Passed' /\ PassedOver'
<1>1. HandleConflict /\ ProcessingOrder
    BY DEF Handle, HandleConflict, ReuseOne, Due
<1>2. Passed'
    BY <1>1, ConflictKeepsPassed
<1>3. Continue /\ prog' = prog
    BY <1>1, ConflictContinues
<1>4. ir' = ir /\ plans' = plans
    BY <1>3 DEF ir, plans
<1>5. ASSUME NEW i \in DOMAIN plans, EnforcedBy(ir, Pairs, plans[i])
      PROVE  EnforcedBy(ir, Pairs', plans[i])
    <2>1. StillStand
        BY <1>1, ConflictEnforcesPlan
    <2> QED BY <1>4, <1>5, <2>1, EnforcedRemains
<1> DEFINE all == /\ HandleBarrierConflict \/ HandleSetWaitConflict
                  /\ part.queued /\ OrdersParts(New[1])
           H == IF all THEN {Part} ELSE {}
<1>6. handled' \subseteq handled \cup H
    <2>1. CASE (HandleBarrierConflict \/ HandleSetWaitConflict) /\ InsertNew
        BY <2>1 DEF InsertNew, New
    <2>2. ASSUME NEW r, ReuseOne(r) PROVE handled' = handled
        BY <2>2 DEF ReuseOne
    <2> QED BY <2>1, <2>2 DEF Handle
<1>7. ASSUME NEW i \in next + 1 .. Len(plans), PartOf(plans[i]) \in H
      PROVE  EnforcedBy(ir, Pairs', plans[i])
    <2>1. all /\ PartOf(plans[i]) = Part
        BY <1>7
    <2>2. IsLeft(ir, plan, plans[i])
        BY <1>1, <2>1, RestOfGroup DEF ProcessingOrder
    <2> DEFINE r == plans[i]
    <2>3. IsLeft(ir, plan, r)
        BY <2>2
    <2> HIDE DEF r
    <2>4. EnforcedBy(ir, Pairs', r)
        BY <2>1, <2>3, NewOrdersRest
    <2> QED BY <2>4 DEF r
<1> HIDE DEF H
<1>8. PassedOver'
    BY <1>1, <1>3, <1>4, <1>5, <1>6, <1>7, LookedAt
<1> QED BY <1>2, <1>8

LEMMA StartingOverPasses ==
    ASSUME StartOver, ResetLists
    PROVE  Passed' /\ PassedOver'
<1>1. next' = 1 /\ pc' = "process" /\ handled' = {}
    BY DEF StartOver, ConsiderOuter, ReuseToSaveIds, DisableMultiEventId, PickBarrierAll,
           Settle, BeginRun, NextRun, OuterSettled, RunEnded, ResetLists
<1>2. 1 .. next' - 1 = {}
    BY <1>1
<1> QED BY <1>1, <1>2 DEF Passed, PassedOver

LEMMA StepPassesOver ==
    ASSUME Core, Core', version = 2 => Logged, version = 2 => Grouped /\ Passed /\ PassedOver,
           [NextSolver]_varsSolver
    PROVE  (version = 2 => Grouped /\ Passed /\ PassedOver)'
<1>1. version' = version
    BY DEF NextSolver, varsSolver
<1> SUFFICES ASSUME version = 2, Logged, Grouped, Passed, PassedOver
             PROVE  Grouped' /\ Passed' /\ PassedOver'
    BY <1>1
<1>2. CASE UNCHANGED varsV2
    <2>1. /\ prog' = prog /\ ir' = ir /\ plans' = plans /\ pc' = pc /\ next' = next
          /\ Pairs' = Pairs /\ handled' = handled
        BY <1>2 DEF varsV2, vars, perRun, lists, ir, plans, Pairs
    <2> QED BY <2>1 DEF Grouped, Passed, PassedOver
<1>3. CASE SkipHandled
    <2>1. prog' = prog
        BY <1>3 DEF SkipHandled
    <2> QED BY <1>3, <2>1, SkippingHandled DEF Grouped
<1>4. CASE SkipEnforced
    <2>1. prog' = prog
        BY <1>4 DEF SkipEnforced
    <2> QED BY <1>4, <2>1, SkippingEnforced DEF Grouped
<1>5. CASE Handle
    <2>1. prog' = prog
        <3>1. HandleConflict
            BY <1>5 DEF Handle, HandleConflict, ReuseOne
        <3> QED BY <3>1, ConflictContinues
    <2> QED BY <1>5, <2>1, HandlingPasses DEF Grouped
<1>6. CASE StartOver /\ ResetLists
    <2>1. prog' = prog
        <3>1. ConsiderOuter => prog' = prog
            BY DEF ConsiderOuter, NextRun
        <3>2. ReuseToSaveIds => prog' = prog
            BY DEF ReuseToSaveIds, NextRun
        <3>3. DisableMultiEventId => prog' = prog
            BY DEF DisableMultiEventId, NextRun
        <3>4. PickBarrierAll => prog' = prog
            BY DEF PickBarrierAll, NextRun
        <3>5. Settle => prog' = prog
            BY DEF Settle
        <3> QED BY <1>6, <3>1, <3>2, <3>3, <3>4, <3>5 DEF StartOver
    <2> QED BY <1>6, <2>1, StartingOverPasses DEF Grouped
<1>7. CASE Finish /\ UNCHANGED lists
    <2>1. /\ prog' = prog /\ ir' = ir /\ plans' = plans /\ next' = next /\ next > Len(plans)
          /\ Pairs' = Pairs /\ handled' = handled
        BY <1>7 DEF Finish, RunEnded, perRun, lists, ir, plans, Pairs
    <2> QED BY <2>1 DEF Grouped, Passed, PassedOver
<1>8. UNCHANGED varsV2 \/ NextV2
    BY DEF NextSolver, varsSolver
<1> QED BY <1>2, <1>3, <1>4, <1>5, <1>6, <1>7, <1>8 DEF NextV2

(* In the second version all that the run is past is enforced by what is    *)
(* chosen, and so is what is left of a group on two pipes once the rest of  *)
(* it was taken as ordered (handledCorePipePairs).                          *)
THEOREM NothingIsPassedOver ==
    SpecSolver => [](version = 2 => Grouped /\ Passed /\ PassedOver)
<1>1. InitSolver => (version = 2 => Grouped /\ Passed /\ PassedOver)
    <2> SUFFICES ASSUME InitV2 PROVE Grouped /\ Passed /\ PassedOver
        BY DEF InitSolver
    <2>1. next = 1 /\ pc = "process" /\ handled = {}
        BY DEF InitV2, Begin, NoLists
    <2>2. 1 .. next - 1 = {}
        BY <2>1
    <2>3. Grouped
        BY DEF InitV2, Grouped
    <2> QED BY <2>1, <2>2, <2>3 DEF Passed, PassedOver
<1>2. /\ Core /\ Core' /\ (version = 2 => Logged) /\ [NextSolver]_varsSolver
      /\ (version = 2 => Grouped /\ Passed /\ PassedOver)
      => (version = 2 => Grouped /\ Passed /\ PassedOver)'
    BY StepPassesOver
<1> QED BY <1>1, <1>2, CoreHolds, KeptGraphsTally, PTL DEF SpecSolver

(* A run that has ended has enforced all of its plans.                      *)
LEMMA PassedIsCovered ==
    ASSUME Core, Passed, pc = "done", NEW i \in DOMAIN plans
    PROVE  EnforcedBy(ir, Pairs, plans[i])
<1>1. next > Len(plans) /\ next \in Nat /\ Len(plans) \in Nat /\ DOMAIN plans = 1 .. Len(plans)
    BY PlansAre DEF Passed
<1>2. i \in 1 .. next - 1
    BY <1>1
<1> QED BY <1>2 DEF Passed

LEMMA NoneIsMissed ==
    ASSUME Core, Grouped, Passed, pc = "done"
    PROVE  LET all == NeededPlans(ir, prog.orders)
           IN  \A i \in DOMAIN all : Enforced(all[i])
<1>1. PICK f \in Functions : prog = SolvableV2(f)
    BY DEF Grouped
<1>2. ir = f.ir /\ prog.orders = f.orders /\ plans = SolvableV2(f).plans
    BY <1>1 DEF ir, plans, SolvableV2
<1> DEFINE all == NeededPlans(ir, prog.orders)
<1>3. ASSUME NEW i \in DOMAIN all
      PROVE  Enforced(all[i])
    <2> DEFINE p == all[i]
               ps == plans
    <2>1. p \in ToSet(NeededPlans(f.ir, f.orders))
        BY <1>2 DEF ToSet
    <2>2. ps = SolvableV2(f).plans
        BY <1>2
    <2> HIDE DEF p, ps, all
    <2>3. PICK r \in ToSet(ps) :
              r.a = p.a /\ r.b = p.b /\ r.src = p.src /\ r.dst = p.dst /\ r.num = p.num
        BY <2>1, <2>2, SecondVersionPlans
    <2>4. PICK j \in DOMAIN ps : r = ps[j]
        BY DEF ToSet
    <2>5. EnforcedBy(ir, Pairs, r)
        BY <2>4, PassedIsCovered DEF ps
    <2>6. EnforcedBy(ir, Pairs, p)
        BY <2>3, <2>5 DEF EnforcedBy, SeenEdges, SeenBy, SpeaksOf
    <2>7. Enforced(p) <=> EnforcedBy(ir, Pairs, p)
        BY EnforcedIs DEF Pairs
    <2> QED BY <2>6, <2>7 DEF p
<1> QED BY <1>3

(* Once a function is solved, what was chosen orders every conflict that    *)
(* the solver looked at: no pair that was reused, no barrier that took the  *)
(* place of a pair and no pair that was merged undid what an earlier order  *)
(* relied on, and what the second version passed over with the rest of a    *)
(* group was ordered by then (processOrder, checkGraphConflict).            *)
THEOREM ConflictsAreCovered == SpecSolver => []Covered
<1>1. InitSolver => (version = 1 => Passed)
    <2> SUFFICES ASSUME InitSolver PROVE Passed
        OBVIOUS
    <2>1. next = 1 /\ pc = "process"
        BY DEF InitSolver, Init, InitV2, Begin
    <2>2. 1 .. next - 1 = {}
        BY <2>1
    <2> QED BY <2>1, <2>2 DEF Passed
<1>2. Core /\ Core' /\ (version = 1 => Passed) /\ [NextSolver]_varsSolver
          => (version = 1 => Passed)'
    BY StepKeepsPassed
<1>3. InitSolver => version \in {1, 2}
    BY DEF InitSolver
<1>4. version \in {1, 2} /\ [NextSolver]_varsSolver => (version \in {1, 2})'
    BY DEF NextSolver, varsSolver
<1>5. /\ Core /\ version \in {1, 2} /\ (version = 1 => Passed)
      /\ (version = 2 => Grouped /\ Passed /\ PassedOver)
      => Covered
    <2> SUFFICES ASSUME Core, Passed, pc = "done", NEW i \in DOMAIN plans
                 PROVE  Enforced(plans[i])
        BY DEF Covered
    <2>1. EnforcedBy(ir, Pairs, plans[i])
        BY PassedIsCovered
    <2> DEFINE p == plans[i]
    <2>2. Enforced(p) <=> EnforcedBy(ir, Pairs, p)
        BY EnforcedIs DEF Pairs
    <2> QED BY <2>1, <2>2
<1> QED BY <1>1, <1>2, <1>3, <1>4, <1>5, CoreHolds, NothingIsPassedOver, PTL DEF SpecSolver

(* What the second version has solved, it has solved as the first sees it:  *)
(* no conflict of the function is left without what orders it, though it    *)
(* looks at a group at a time and passes over what it finds ordered with    *)
(* the parts the group compares (handledCorePipePairs).                     *)
THEOREM NothingIsMissed == SpecSolver => []NothingMissed
<1>1. Core /\ (version = 2 => Grouped /\ Passed /\ PassedOver) => NothingMissed
    BY NoneIsMissed DEF NothingMissed
<1> QED BY <1>1, CoreHolds, NothingIsPassedOver, PTL
===========================================================================
