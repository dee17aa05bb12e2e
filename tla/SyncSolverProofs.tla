-------------------------- MODULE SyncSolverProofs --------------------------
(***************************************************************************)
(* Theorems about the sync solver, for every function that it may be given *)
(* and for both of its versions.                                           *)
(*                                                                         *)
(*   - Where a set and a wait go, the set lies behind the first access and *)
(*     the wait before the second, on trees of any shape.                  *)
(*   - The coloring of a channel gives the pairs that intersect different  *)
(*     ids.                                                                *)
(*   - Core, the inductive invariant: the pairs chosen stand where their   *)
(*     placement has put them, and the graph of each channel has a node for*)
(*     each of its pairs and an edge wherever two of them intersect.       *)
(***************************************************************************)
EXTENDS SyncSolverV2, FiniteSetTheorems, SequenceTheorems, WellFoundedInduction, TLAPS

-----------------------------------------------------------------------------

(* What holds of a set when it holds of the set without any one of its     *)
(* members holds of every subset of a finite set.                          *)
LEMMA SubsetInduction ==
    ASSUME NEW S, IsFiniteSet(S), NEW P,
           \A R \in SUBSET S : (\A n \in R : R \ {n} \in P) => R \in P
    PROVE  SUBSET S \subseteq P
<1> SUFFICES ASSUME (SUBSET S) \ P # {}
             PROVE  FALSE
    OBVIOUS
<1>1. IsWellFoundedOn(StrictSubsetOrdering(S), FiniteSubsetsOf(S))
    BY FS_StrictSubsetOrderingWellFounded
<1>2. (SUBSET S) \ P \subseteq FiniteSubsetsOf(S)
    BY FS_Subset DEF FiniteSubsetsOf
<1>3. PICK U \in (SUBSET S) \ P :
          \A V \in (SUBSET S) \ P : <<V, U>> \notin StrictSubsetOrdering(S)
    BY <1>1, <1>2, WFMin
<1>4. ASSUME NEW n \in U
      PROVE  U \ {n} \in P
    <2>1. <<U \ {n}, U>> \in StrictSubsetOrdering(S)
        BY <1>3, <1>4 DEF StrictSubsetOrdering
    <2> QED BY <1>3, <2>1
<1> QED BY <1>3, <1>4

(* A set of numbers has a least member.                                     *)
LEMMA Least ==
    ASSUME NEW S \in SUBSET Nat, S # {}
    PROVE  \E x \in S : \A y \in S : x <= y
<1> DEFINE before == {ss \in Nat \X Nat : ss[1] < ss[2]}
<1>1. IsWellFoundedOn(before, Nat)
    BY NatLessThanWellFounded DEF OpToRel
<1> HIDE DEF before
<1>2. PICK x \in S : \A y \in S : ~(<<y, x>> \in before)
    BY <1>1, WFMin
<1>3. \A y \in S : ~(y < x)
    BY <1>2 DEF before
<1> QED BY <1>2, <1>3

(* A set that has 0 and with each number the next has all numbers.          *)
LEMMA Upwards ==
    ASSUME NEW S, 0 \in S, \A n \in Nat : n \in S => n + 1 \in S
    PROVE  Nat \subseteq S
<1> SUFFICES ASSUME Nat \ S # {}
             PROVE  FALSE
    OBVIOUS
<1>1. PICK x \in Nat \ S : \A y \in Nat \ S : x <= y
    BY Least
<1>2. x - 1 \in Nat /\ (x - 1) + 1 = x
    BY <1>1
<1>3. x - 1 \in S
    BY <1>1, <1>2
<1> QED BY <1>1, <1>2, <1>3

(* A finite set of numbers that is not empty has a greatest member.         *)
LEMMA GreatestExists ==
    ASSUME NEW S \in SUBSET Nat, IsFiniteSet(S), S # {}
    PROVE  \E x \in S : \A y \in S : y <= x
<1> DEFINE P == {R \in SUBSET S : R # {} => \E x \in R : \A y \in R : y <= x}
<1>1. ASSUME NEW R \in SUBSET S, \A n \in R : R \ {n} \in P
      PROVE  R \in P
    <2> SUFFICES ASSUME R # {} PROVE \E x \in R : \A y \in R : y <= x
        OBVIOUS
    <2>1. PICK a \in R : TRUE
        OBVIOUS
    <2>2. CASE R \ {a} = {}
        BY <2>1, <2>2
    <2>3. CASE R \ {a} # {}
        <3>1. PICK x \in R \ {a} : \A y \in R \ {a} : y <= x
            BY <1>1, <2>1, <2>3
        <3> QED BY <2>1, <3>1
    <2> QED BY <2>2, <2>3
<1>2. SUBSET S \subseteq P
    <2> HIDE DEF P
    <2> QED BY <1>1, SubsetInduction
<1> QED BY <1>2

LEMMA Greatest ==
    ASSUME NEW S \in SUBSET Nat, IsFiniteSet(S), S # {}
    PROVE  Max(S) \in S /\ \A y \in S : y <= Max(S)
<1>1. \E x \in S : \A y \in S : y <= x
    BY GreatestExists
<1>2. \E x \in S : \A y \in S : x >= y
    BY <1>1
<1> QED BY <1>2 DEF Max
(* The values that a finite set's members are mapped to are finitely many. *)
LEMMA ImageFinite ==
    ASSUME NEW S, IsFiniteSet(S), NEW f
    PROVE  IsFiniteSet({f[x] : x \in S})
<1> DEFINE T == {f[x] : x \in S}
           h == [x \in S |-> f[x]]
<1>1. h \in Surjection(S, T)
    BY DEF Surjection
<1> QED BY <1>1, FS_Surjection

(* FlattenSeq of sequences of members of T is a sequence of members of T,   *)
(* and has the members of each of them.                                     *)
IsFlat(f, seqs, n) ==
    f = [i \in 1 .. n |-> IF i = 1 THEN seqs[i] ELSE f[i - 1] \o seqs[i]]

LEMMA FlatExists ==
    ASSUME NEW seqs, NEW n \in Nat
    PROVE  \E f : IsFlat(f, seqs, n)
<1> DEFINE P == {m \in Nat : \E f : IsFlat(f, seqs, m)}
<1>1. 0 \in P
    <2>1. IsFlat([i \in 1 .. 0 |-> 0], seqs, 0)
        BY DEF IsFlat
    <2> QED BY <2>1
<1>2. ASSUME NEW m \in Nat, m \in P PROVE m + 1 \in P
    <2>1. PICK f : IsFlat(f, seqs, m)
        BY <1>2
    <2> DEFINE g == [i \in 1 .. m + 1 |-> IF i = m + 1 /\ i # 1 THEN f[m] \o seqs[i]
                                          ELSE IF i = 1 THEN seqs[1] ELSE f[i]]
    <2>2. ASSUME NEW i \in 1 .. m + 1
          PROVE  g[i] = IF i = 1 THEN seqs[i] ELSE g[i - 1] \o seqs[i]
        <3>1. CASE i = 1
            BY <3>1
        <3>2. ASSUME i # 1 PROVE i - 1 \in 1 .. m /\ g[i - 1] = f[i - 1]
            <4>1. i - 1 \in 1 .. m /\ i - 1 \in 1 .. m + 1 /\ i - 1 # m + 1
                BY <3>2
            <4>2. i - 1 = 1 => f[i - 1] = seqs[1]
                BY <2>1, <4>1 DEF IsFlat
            <4> QED BY <4>1, <4>2
        <3>3. CASE i # 1 /\ i = m + 1
            <4>1. (m + 1) - 1 = m /\ m + 1 \in 1 .. m + 1 /\ m + 1 # 1
                BY <3>3
            <4>2. g[m + 1] = f[m] \o seqs[m + 1]
                BY <4>1
            <4>3. g[m] = f[m]
                BY <3>2, <3>3, <4>1
            <4> HIDE DEF g
            <4> QED BY <3>3, <4>1, <4>2, <4>3
        <3>4. CASE i # 1 /\ i # m + 1
            <4>1. i \in 1 .. m
                BY <3>4
            <4>2. f[i] = f[i - 1] \o seqs[i]
                BY <2>1, <3>4, <4>1 DEF IsFlat
            <4> QED BY <3>2, <3>4, <4>2
        <3> QED BY <3>1, <3>3, <3>4
    <2>3. IsFlat(g, seqs, m + 1)
        <3>1. g = [i \in 1 .. m + 1 |-> g[i]]
            OBVIOUS
        <3> HIDE DEF g
        <3> QED BY <2>2, <3>1 DEF IsFlat
    <2>4. m + 1 \in Nat
        OBVIOUS
    <2> HIDE DEF g
    <2> QED BY <2>3, <2>4
<1>3. Nat \subseteq P
    <2> HIDE DEF P
    <2> QED BY <1>1, <1>2, Upwards
<1> QED BY <1>3

LEMMA Flattened ==
    ASSUME NEW T, NEW seqs, NEW n \in Nat, Len(seqs) = n, DOMAIN seqs = 1 .. n,
           \A i \in 1 .. n : seqs[i] \in Seq(T),
           n = 0 => seqs = <<>>
    PROVE  /\ FlattenSeq(seqs) \in Seq(T)
           /\ \A i \in 1 .. n : ToSet(seqs[i]) \subseteq ToSet(FlattenSeq(seqs))
<1>1. CASE n = 0
    BY <1>1 DEF FlattenSeq
<1>2. CASE n # 0
    <2> DEFINE f == CHOOSE h : IsFlat(h, seqs, n)
               P == {m \in Nat : m \in 1 .. n =>
                        /\ f[m] \in Seq(T)
                        /\ \A i \in 1 .. m : ToSet(seqs[i]) \subseteq ToSet(f[m])}
    <2>1. IsFlat(f, seqs, n)
        BY FlatExists
    <2>2. FlattenSeq(seqs) = f[n]
        BY <1>2 DEF FlattenSeq, IsFlat
    <2> HIDE DEF f
    <2>3. \A m \in 1 .. n : f[m] = IF m = 1 THEN seqs[m] ELSE f[m - 1] \o seqs[m]
        BY <2>1 DEF IsFlat
    <2>4. 0 \in P
        OBVIOUS
    <2>5. ASSUME NEW m \in Nat, m \in P PROVE m + 1 \in P
        <3>1. m + 1 \in Nat
            OBVIOUS
        <3> SUFFICES ASSUME m + 1 \in 1 .. n
                     PROVE  /\ f[m + 1] \in Seq(T)
                            /\ \A i \in 1 .. m + 1 : ToSet(seqs[i]) \subseteq ToSet(f[m + 1])
            BY <3>1
        <3>2. CASE m = 0
            BY <2>3, <3>2
        <3>3. CASE m # 0
            <4>1. m \in 1 .. n /\ m + 1 # 1 /\ (m + 1) - 1 = m
                BY <3>3
            <4> DEFINE s == f[m]
                       t == seqs[m + 1]
            <4>2. s \in Seq(T) /\ t \in Seq(T) /\ f[m + 1] = s \o t
                BY <2>3, <2>5, <4>1
            <4>3. \A i \in 1 .. m : ToSet(seqs[i]) \subseteq ToSet(s)
                BY <2>5, <4>1
            <4> HIDE DEF s, t
            <4>4. s \o t \in Seq(T) /\ ToSet(s) \subseteq ToSet(s \o t)
                  /\ ToSet(t) \subseteq ToSet(s \o t)
                <5>1. s \o t \in Seq(T) /\ Len(s \o t) = Len(s) + Len(t)
                      /\ Len(s) \in Nat /\ Len(t) \in Nat
                    BY <4>2
                <5>2. \A j \in DOMAIN s : j \in DOMAIN (s \o t) /\ (s \o t)[j] = s[j]
                    BY <4>2, <5>1
                <5>3. \A j \in DOMAIN t :
                         Len(s) + j \in DOMAIN (s \o t) /\ (s \o t)[Len(s) + j] = t[j]
                    BY <4>2, <5>1
                <5> QED BY <5>1, <5>2, <5>3 DEF ToSet
            <4>5. \A i \in 1 .. m + 1 : i \in 1 .. m \/ i = m + 1
                OBVIOUS
            <4> QED BY <4>2, <4>3, <4>4, <4>5 DEF t
        <3> QED BY <3>2, <3>3
    <2>6. Nat \subseteq P
        <3> HIDE DEF P
        <3> QED BY <2>4, <2>5, Upwards
    <2>7. n \in P /\ n \in 1 .. n
        <3> HIDE DEF P
        <3> QED BY <1>2, <2>6
    <2> QED BY <2>2, <2>7
<1> QED BY <1>1, <1>2

-----------------------------------------------------------------------------
(* The deepest of some occurrences or operations.                           *)
LEMMA DeepestIs ==
    ASSUME NEW n \in Int, NEW S \in SUBSET (1 .. n)
    PROVE  /\ S = {} => Deepest(S) = Top
           /\ S # {} => Deepest(S) \in S /\ \A y \in S : y <= Deepest(S)
           /\ Deepest(S) \in Nat
<1>1. IsFiniteSet(S)
    <2>1. 1 \in Int
        OBVIOUS
    <2> QED BY <2>1, FS_Interval, FS_Subset
<1>2. S \in SUBSET Nat
    OBVIOUS
<1>3. S # {} => \E x \in S : \A y \in S : y <= x
    BY <1>1, <1>2, GreatestExists
<1> QED BY <1>2, <1>3 DEF Deepest, Top

(* One and all that it is inside.                                           *)
Line(t, k) == {k} \cup t[k].up

(* Neither is inside the other.                                             *)
Apart(t, x, y) == x # y /\ x \notin t[y].up /\ y \notin t[x].up

LEMMA TreeFacts ==
    ASSUME NEW t, IsTree(t), NEW k \in DOMAIN t
    PROVE  /\ k \in Nat \ {0} /\ 1 \in DOMAIN t
           /\ \A x \in Line(t, k) : x \in DOMAIN t /\ x \in Nat \ {0} /\ x <= k
           /\ k \notin t[k].up
           /\ \A x, y \in Line(t, k) : x < y => x \in t[y].up
           /\ \A x \in t[k].up : t[x].up \subseteq t[k].up
           /\ t[k].parent \in Nat
<1>1. Len(t) \in Nat \ {0} /\ DOMAIN t = 1 .. Len(t)
    BY DEF IsTree
<1>2. k \in Nat \ {0} /\ 1 \in DOMAIN t
    BY <1>1
<1>3. t[k].up \subseteq 1 .. k - 1 /\ t[k].parent = Deepest(t[k].up)
      /\ \A x \in t[k].up : t[x].up = {y \in t[k].up : y < x}
    BY DEF IsTree
<1>4. t[k].parent \in Nat
    <2>1. k - 1 \in Int
        BY <1>2
    <2> QED BY <1>3, <2>1, DeepestIs
<1>5. \A x \in Line(t, k) : x \in DOMAIN t /\ x \in Nat \ {0} /\ x <= k
    BY <1>1, <1>2, <1>3 DEF Line
<1>6. \A x, y \in Line(t, k) : x < y => x \in t[y].up
    BY <1>2, <1>3 DEF Line
<1> QED BY <1>2, <1>3, <1>4, <1>5, <1>6

LEMMA ParentFacts ==
    ASSUME NEW t, IsTree(t), NEW k \in DOMAIN t, k # 1
    PROVE  /\ t[k].parent \in t[k].up /\ t[k].parent \in DOMAIN t
           /\ t[k].parent \in Nat \ {0} /\ t[k].parent < k
           /\ t[k].up = Line(t, t[k].parent)
           /\ \A x \in t[k].up : x <= t[k].parent
<1>1. /\ t[k].up \subseteq 1 .. k - 1 /\ t[k].parent = Deepest(t[k].up)
      /\ k > 1 => 1 \in t[k].up
      /\ \A x \in t[k].up : t[x].up = {y \in t[k].up : y < x}
    BY DEF IsTree
<1>2. k \in Nat \ {0} /\ k - 1 \in Int
    BY TreeFacts
<1>3. t[k].parent \in t[k].up /\ \A x \in t[k].up : x <= t[k].parent
    <2>1. k > 1
        BY <1>2
    <2>2. t[k].up # {}
        BY <1>1, <2>1
    <2> DEFINE n == k - 1
               S == t[k].up
    <2>3. n \in Int /\ S \in SUBSET (1 .. n) /\ S # {}
        BY <1>1, <1>2, <2>2
    <2>4. Deepest(S) \in S /\ \A y \in S : y <= Deepest(S)
        <3> HIDE DEF n, S
        <3> QED BY <2>3, DeepestIs
    <2> QED BY <1>1, <2>4
<1>4. t[k].up = {t[k].parent} \cup {y \in t[k].up : y < t[k].parent}
    BY <1>1, <1>2, <1>3
<1>5. t[k].up = Line(t, t[k].parent)
    BY <1>1, <1>3, <1>4 DEF Line
<1>6. t[k].parent \in DOMAIN t /\ t[k].parent \in Nat \ {0} /\ t[k].parent < k
    BY <1>1, <1>2, <1>3, TreeFacts DEF Line
<1> QED BY <1>3, <1>5, <1>6

(* The root is inside nothing, and only it is.                              *)
LEMMA RootFacts ==
    ASSUME NEW t, IsTree(t), NEW k \in DOMAIN t
    PROVE  k = 1 <=> t[k].parent = Top
<1>1. k = 1 => t[k].up = {}
    BY DEF IsTree
<1>2. k = 1 => t[k].parent = Top
    BY <1>1 DEF IsTree, Deepest
<1>3. k # 1 => t[k].parent # Top
    BY ParentFacts DEF Top
<1> QED BY <1>2, <1>3

(* What is inside x is exactly what lies between it and the end of its      *)
(* subtree; who is inside x is on the line of whoever is further inside.    *)
LEMMA LineOf ==
    ASSUME NEW t, IsTree(t), NEW k \in DOMAIN t, NEW x \in Line(t, k)
    PROVE  Line(t, x) \subseteq Line(t, k)
BY TreeFacts DEF Line

LEMMA ApartFacts ==
    ASSUME NEW t, IsTree(t), NEW a \in DOMAIN t, NEW b \in DOMAIN t, Apart(t, a, b),
           NEW x \in Line(t, a), NEW y \in Line(t, b), x \notin Line(t, b), y \notin Line(t, a)
    PROVE  Apart(t, x, y)
<1>1. x \in DOMAIN t /\ y \in DOMAIN t
    BY TreeFacts
<1>2. Line(t, x) \subseteq Line(t, a) /\ Line(t, y) \subseteq Line(t, b)
    BY LineOf
<1> QED BY <1>1, <1>2 DEF Apart, Line
-----------------------------------------------------------------------------
(* Ticks.                                                                   *)
LEMMA TimeFacts ==
    ASSUME NEW t, IsTree(t), IsTimed(t), NEW k \in DOMAIN t
    PROVE  /\ t[k].start \in Nat /\ t[k].end \in Nat /\ t[k].start < t[k].end
           /\ \A x \in Line(t, k) : /\ t[x].start \in Nat /\ t[x].end \in Nat
                                    /\ t[x].start <= t[k].start /\ t[k].end <= t[x].end
BY TreeFacts DEF IsTimed, Line

(* Of two that are apart, the first one ends before the other starts.       *)
LEMMA ApartInTime ==
    ASSUME NEW t, IsTree(t), IsTimed(t), NEW a \in DOMAIN t, NEW b \in DOMAIN t, Apart(t, a, b),
           a < b
    PROVE  t[a].end < t[b].start
<1>1. a \in 1 .. b - 1
    BY TreeFacts
<1> QED BY <1>1 DEF IsTimed, Apart

(* So what is inside the first one ends before what is inside the other.    *)
LEMMA InsideInTime ==
    ASSUME NEW t, IsTree(t), IsTimed(t), NEW a \in DOMAIN t, NEW b \in DOMAIN t, a < b,
           NEW x \in Line(t, a), NEW y \in Line(t, b), Apart(t, x, y)
    PROVE  t[x].end < t[y].start /\ x < y
<1>1. x \in DOMAIN t /\ y \in DOMAIN t /\ x \in Nat /\ y \in Nat /\ x <= a /\ y <= b
    BY TreeFacts
<1>2. CASE x < y
    BY <1>1, <1>2, ApartInTime
<1>3. CASE y < x
    <2>1. x \in y + 1 .. b
        BY <1>1, <1>3, TreeFacts
    <2>2. CASE y = b
        BY <1>1, <1>3, <2>2, TreeFacts
    <2>3. CASE y # b
        BY <2>1, <2>3 DEF IsTree, Line, Apart
    <2> QED BY <2>2, <2>3
<1> QED BY <1>1, <1>2, <1>3 DEF Apart
-----------------------------------------------------------------------------
(* The child of a scope on the line of one inside it: the first one after   *)
(* the scope.                                                               *)
LEMMA TowardIs ==
    ASSUME NEW t, IsTree(t), NEW k \in DOMAIN t, NEW c \in t[k].up
    PROVE  /\ Toward(t, c, k) \in Line(t, k) /\ Toward(t, c, k) \in DOMAIN t
           /\ t[Toward(t, c, k)].parent = c /\ c < Toward(t, c, k)
           /\ \A z \in Line(t, k) : z > c => Toward(t, c, k) \in Line(t, z)
<1> DEFINE S == {z \in Line(t, k) : z > c}
<1>1. c \in Line(t, k) /\ c \in DOMAIN t /\ c \in Nat \ {0} /\ c < k
    BY TreeFacts DEF Line
<1>2. S \in SUBSET Nat /\ S # {}
    BY <1>1, TreeFacts DEF Line
<1>3. PICK x \in S : \A y \in S : x <= y
    <2> HIDE DEF S
    <2> QED BY <1>2, Least
<1>4. x \in DOMAIN t /\ x \in Nat /\ x > c /\ x # 1
    BY <1>1, TreeFacts
<1>5. t[x].parent = c
    <2>1. t[x].parent \in t[x].up /\ t[x].parent < x /\ t[x].parent \in Nat
          /\ \A y \in t[x].up : y <= t[x].parent
        BY <1>4, ParentFacts
    <2>2. c \in t[x].up
        BY <1>1, <1>4, TreeFacts
    <2>3. t[x].parent \in Line(t, k)
        BY <2>1, LineOf DEF Line
    <2>4. ~(t[x].parent > c)
        BY <1>3, <1>4, <2>1, <2>3
    <2> QED BY <1>1, <2>1, <2>2, <2>4
<1> DEFINE w == Toward(t, c, k)
<1>6. w \in Line(t, k) /\ t[w].parent = c
    BY <1>5 DEF Toward, Line
<1> HIDE DEF w
<1>7. w \in DOMAIN t /\ w \in Nat
    BY <1>6, TreeFacts
<1>8. w # 1
    BY <1>1, <1>6, <1>7, RootFacts DEF Top
<1>9. c < w /\ \A y \in t[w].up : y <= c
    BY <1>6, <1>7, <1>8, ParentFacts
<1>10. ASSUME NEW z \in Line(t, k), z > c PROVE w \in Line(t, z)
    <2>1. z \in Nat
        BY TreeFacts
    <2>2. z \notin t[w].up
        BY <1>1, <1>9, <1>10, <2>1
    <2>3. z < w => z \in t[w].up
        BY <1>6, TreeFacts
    <2>4. w < z => w \in t[z].up
        BY <1>6, TreeFacts
    <2> QED BY <1>7, <2>1, <2>2, <2>3, <2>4 DEF Line
<1> QED BY <1>6, <1>7, <1>9, <1>10 DEF w

(* The only child on the line of a child is that child.                     *)
LEMMA TowardChild ==
    ASSUME NEW t, IsTree(t), NEW k \in DOMAIN t, k # 1
    PROVE  Toward(t, t[k].parent, k) = k
<1> DEFINE c == t[k].parent
           w == Toward(t, c, k)
<1>1. c \in t[k].up /\ \A x \in t[k].up : x <= c
    BY ParentFacts
<1>2. w \in Line(t, k) /\ c < w /\ w \in DOMAIN t
    BY <1>1, TowardIs
<1>3. c \in Nat /\ w \in Nat
    BY <1>2, TreeFacts
<1> QED BY <1>1, <1>2, <1>3 DEF Line

LEMMA CommonIs ==
    ASSUME NEW t, IsTree(t), NEW a \in DOMAIN t, NEW b \in DOMAIN t, a # 1, b # 1
    PROVE  /\ CommonScope(t, a, b) \in t[a].up \cap t[b].up
           /\ \A x \in t[a].up \cap t[b].up : x <= CommonScope(t, a, b)
<1>1. t[a].up \subseteq 1 .. a - 1 /\ (a > 1 => 1 \in t[a].up) /\ (b > 1 => 1 \in t[b].up)
    BY DEF IsTree
<1>2. a \in Nat \ {0} /\ b \in Nat \ {0} /\ a - 1 \in Int
    BY TreeFacts
<1>3. t[a].up \cap t[b].up # {}
    BY <1>1, <1>2
<1>4. t[a].up \cap t[b].up \subseteq 1 .. a - 1
    BY <1>1
<1> QED BY <1>2, <1>3, <1>4, DeepestIs DEF CommonScope

(* Of two that are apart, what one is inside below their common scope does  *)
(* not hold the other.                                                      *)
LEMMA BelowCommon ==
    ASSUME NEW t, IsTree(t), NEW a \in DOMAIN t, NEW b \in DOMAIN t, a # 1, b # 1, Apart(t, a, b),
           NEW x \in Line(t, a), x > CommonScope(t, a, b)
    PROVE  x \notin Line(t, b)
<1>1. CommonScope(t, a, b) \in Nat /\ x \in Nat
    <2>1. CommonScope(t, a, b) \in t[a].up
        BY CommonIs
    <2> QED BY <2>1, TreeFacts DEF Line
<1>2. x \notin t[a].up \cap t[b].up
    BY <1>1, CommonIs
<1> QED BY <1>2 DEF Line, Apart

LEMMA CommonCommutes ==
    ASSUME NEW t, NEW a, NEW b
    PROVE  CommonScope(t, a, b) = CommonScope(t, b, a)
<1>1. t[a].up \cap t[b].up = t[b].up \cap t[a].up
    OBVIOUS
<1> QED BY <1>1 DEF CommonScope
-----------------------------------------------------------------------------
(* Occurrences and their operations.                                        *)
LEMMA Built ==
    ASSUME NEW fn, WellBuilt(fn)
    PROVE  IsTree(fn.occ) /\ IsTimed(fn.occ) /\ IsTree(fn.op)
BY DEF WellBuilt

LEMMA OccFacts ==
    ASSUME NEW fn, WellBuilt(fn), NEW k \in DOMAIN fn.occ
    PROVE  /\ fn.occ[k].op \in DOMAIN fn.op
           /\ {fn.occ[x].op : x \in fn.occ[k].up} = fn.op[fn.occ[k].op].up
           /\ \A x \in fn.occ[k].up : IsScope(fn.op, fn.occ[x].op)
           /\ \A x, y \in Line(fn.occ, k) :
                 x < y => /\ fn.occ[x].op \in fn.op[fn.occ[y].op].up
                          /\ fn.occ[x].op < fn.occ[y].op
<1>1. /\ IsTree(fn.occ) /\ IsTree(fn.op)
      /\ \A j \in DOMAIN fn.occ :
          /\ fn.occ[j].op \in DOMAIN fn.op
          /\ {fn.occ[x].op : x \in fn.occ[j].up} = fn.op[fn.occ[j].op].up
          /\ \A x \in fn.occ[j].up : IsScope(fn.op, fn.occ[x].op)
    BY DEF WellBuilt, IsUnrolled
<1>2. ASSUME NEW x \in Line(fn.occ, k), NEW y \in Line(fn.occ, k), x < y
      PROVE  /\ fn.occ[x].op \in fn.op[fn.occ[y].op].up
             /\ fn.occ[x].op < fn.occ[y].op
    <2>1. y \in DOMAIN fn.occ /\ x \in fn.occ[y].up
        BY <1>1, <1>2, TreeFacts
    <2>2. fn.occ[x].op \in fn.op[fn.occ[y].op].up
        BY <1>1, <2>1
    <2> DEFINE t == fn.op
               z == fn.occ[y].op
               v == fn.occ[x].op
    <2>3. IsTree(t) /\ z \in DOMAIN t /\ v \in t[z].up
        BY <1>1, <2>1, <2>2
    <2> HIDE DEF t, z, v
    <2>4. z \in Nat
        BY <2>3, TreeFacts
    <2>5. t[z].up \subseteq 1 .. z - 1
        BY <2>3 DEF IsTree
    <2>6. v < z
        BY <2>3, <2>4, <2>5
    <2> QED BY <2>2, <2>6 DEF v, z
<1> QED BY <1>1, <1>2

LEMMA OpAround ==
    ASSUME NEW fn, WellBuilt(fn), NEW k \in DOMAIN fn.occ, NEW c \in fn.occ[k].up
    PROVE  fn.occ[c].op \in fn.op[fn.occ[k].op].up
<1> DEFINE S == {fn.occ[x].op : x \in fn.occ[k].up}
           U == fn.op[fn.occ[k].op].up
<1>1. S = U
    BY OccFacts
<1>2. fn.occ[c].op \in S
    OBVIOUS
<1> HIDE DEF S, U
<1>3. fn.occ[c].op \in U
    BY <1>1, <1>2
<1> QED BY <1>3 DEF U

LEMMA OpBelow ==
    ASSUME NEW fn, WellBuilt(fn), NEW k \in DOMAIN fn.occ, NEW z \in fn.op[fn.occ[k].op].up
    PROVE  \E c \in fn.occ[k].up : fn.occ[c].op = z
<1> DEFINE S == {fn.occ[x].op : x \in fn.occ[k].up}
           U == fn.op[fn.occ[k].op].up
<1>1. S = U
    BY OccFacts
<1>2. z \in U
    OBVIOUS
<1> HIDE DEF U
<1>3. z \in S
    BY <1>1, <1>2
<1> QED BY <1>3

LEMMA OccOfIs ==
    ASSUME NEW fn, WellBuilt(fn), NEW k \in DOMAIN fn.occ, NEW z \in Line(fn.op, fn.occ[k].op)
    PROVE  OccOf(fn, k, z) \in Line(fn.occ, k) /\ fn.occ[OccOf(fn, k, z)].op = z
<1>1. \E y \in {k} \cup fn.occ[k].up : fn.occ[y].op = z
    <2>1. {fn.occ[x].op : x \in fn.occ[k].up} = fn.op[fn.occ[k].op].up
        BY OccFacts
    <2>2. z = fn.occ[k].op \/ z \in {fn.occ[x].op : x \in fn.occ[k].up}
        BY <2>1 DEF Line
    <2>3. CASE z = fn.occ[k].op
        BY <2>3
    <2>4. CASE z \in {fn.occ[x].op : x \in fn.occ[k].up}
        BY <2>4
    <2> QED BY <2>2, <2>3, <2>4
<1> QED BY <1>1 DEF OccOf, Line

(* Accesses and placeholders hold nothing.                                  *)
IsLeaf(fn, k) == k \in DOMAIN fn.occ /\ ~IsScope(fn.op, fn.occ[k].op)

LEMMA LeafFacts ==
    ASSUME NEW fn, WellBuilt(fn), NEW a, IsLeaf(fn, a)
    PROVE  /\ a # 1 /\ \A k \in DOMAIN fn.occ : a \notin fn.occ[k].up
           /\ \A b : IsLeaf(fn, b) /\ a # b => Apart(fn.occ, a, b)
<1>1. \A k \in DOMAIN fn.occ : \A x \in fn.occ[k].up : IsScope(fn.op, fn.occ[x].op)
    BY OccFacts
<1>2. KindOf(fn, 1) = "function"
    BY DEF WellBuilt
<1>3. a # 1
    BY <1>2 DEF IsLeaf, IsScope, KindOf
<1> QED BY <1>1, <1>3 DEF IsLeaf, Apart

LEMMA KindsOfLeaves ==
    ASSUME NEW fn, NEW k \in DOMAIN fn.occ,
           KindOf(fn, k) \in {"rw", "begin", "end", "before", "after"}
    PROVE  IsLeaf(fn, k)
BY DEF KindOf, IsLeaf, IsScope

(* A scope of a loop or a condition begins and ends with a placeholder.     *)
LEMMA ScopeFacts ==
    ASSUME NEW fn, WellBuilt(fn), NEW k \in DOMAIN fn.occ, k # 1,
           KindOf(fn, fn.occ[k].parent) \in {"loop", "if"}
    PROVE  /\ KindOf(fn, k) = "scope" /\ ScopeBegin(k) < ScopeEnd(fn, k)
           /\ ScopeBegin(k) \in DOMAIN fn.occ /\ fn.occ[ScopeBegin(k)].parent = k
           /\ KindOf(fn, ScopeBegin(k)) = "begin"
           /\ ScopeEnd(fn, k) \in DOMAIN fn.occ /\ fn.occ[ScopeEnd(fn, k)].parent = k
           /\ KindOf(fn, ScopeEnd(fn, k)) = "end"
<1>1. /\ KindOf(fn, k) = "scope" /\ ScopeBegin(k) < ScopeEnd(fn, k)
      /\ \A e \in {<<"begin", ScopeBegin(k)>>, <<"end", ScopeEnd(fn, k)>>} :
            fn.occ[e[2]].parent = k /\ KindOf(fn, e[2]) = e[1]
    BY DEF WellBuilt, IsScoped
<1>2. /\ fn.occ[ScopeBegin(k)].parent = k /\ KindOf(fn, ScopeBegin(k)) = "begin"
      /\ fn.occ[ScopeEnd(fn, k)].parent = k /\ KindOf(fn, ScopeEnd(fn, k)) = "end"
    <2>1. /\ <<"begin", ScopeBegin(k)>> \in {<<"begin", ScopeBegin(k)>>, <<"end", ScopeEnd(fn, k)>>}
          /\ <<"end", ScopeEnd(fn, k)>> \in {<<"begin", ScopeBegin(k)>>, <<"end", ScopeEnd(fn, k)>>}
        OBVIOUS
    <2> QED BY <1>1, <2>1
<1>3. fn.occ[k].last \in k + 1 .. Len(fn.occ) + 1
    BY DEF WellBuilt, IsTimed
<1>4. Len(fn.occ) \in Nat /\ DOMAIN fn.occ = 1 .. Len(fn.occ) /\ k \in Nat
    BY Built, TreeFacts DEF IsTree
<1>5. ScopeBegin(k) \in DOMAIN fn.occ /\ ScopeEnd(fn, k) \in DOMAIN fn.occ
    <2> DEFINE n == Len(fn.occ)
               l == fn.occ[k].last
               D == DOMAIN fn.occ
    <2>1. k + 1 < l - 1
        BY <1>1 DEF ScopeBegin, ScopeEnd
    <2>2. n \in Nat /\ k \in Nat /\ D = 1 .. n /\ l \in k + 1 .. n + 1
        BY <1>3, <1>4
    <2> HIDE DEF n, l, D
    <2>3. k + 1 \in D /\ l - 1 \in D
        BY <2>1, <2>2
    <2> QED BY <2>3 DEF ScopeBegin, ScopeEnd, l, D
<1> QED BY <1>1, <1>2, <1>5

(* Next to a loop there are placeholders.                                   *)
LEMMA LoopFacts ==
    ASSUME NEW fn, WellBuilt(fn), NEW l \in DOMAIN fn.occ, KindOf(fn, l) = "loop"
    PROVE  /\ l # 1
           /\ BeforeLoop(l) \in DOMAIN fn.occ /\ fn.occ[BeforeLoop(l)].parent = fn.occ[l].parent
           /\ KindOf(fn, BeforeLoop(l)) = "before"
           /\ AfterLoop(fn, l) \in DOMAIN fn.occ
           /\ fn.occ[AfterLoop(fn, l)].parent = fn.occ[l].parent
           /\ KindOf(fn, AfterLoop(fn, l)) = "after"
           /\ fn.occ[BeforeLoop(l)].end < fn.occ[l].start
           /\ fn.occ[l].end < fn.occ[AfterLoop(fn, l)].start
           /\ BeforeLoop(l) < l /\ l < AfterLoop(fn, l)
<1> DEFINE p == BeforeLoop(l)
           q == AfterLoop(fn, l)
<1>1. /\ p \in DOMAIN fn.occ /\ q \in DOMAIN fn.occ
      /\ \A e \in {<<"before", p>>, <<"after", q>>} :
            fn.occ[e[2]].parent = fn.occ[l].parent /\ KindOf(fn, e[2]) = e[1]
    BY DEF WellBuilt, IsVisitedTwice
<1>2. /\ fn.occ[p].parent = fn.occ[l].parent /\ KindOf(fn, p) = "before"
      /\ fn.occ[q].parent = fn.occ[l].parent /\ KindOf(fn, q) = "after"
    <2>1. <<"before", p>> \in {<<"before", p>>, <<"after", q>>}
          /\ <<"after", q>> \in {<<"before", p>>, <<"after", q>>}
        OBVIOUS
    <2> QED BY <1>1, <2>1
<1>3. l # 1
    BY DEF WellBuilt
<1>4. IsLeaf(fn, p) /\ IsLeaf(fn, q)
    BY <1>1, <1>2, KindsOfLeaves
<1>5. p < l /\ l < q /\ l \in Nat /\ p \in Nat /\ q \in Nat
    <2>1. l \in Nat /\ fn.occ[l].last \in l + 1 .. Len(fn.occ) + 1
        BY Built, TreeFacts DEF WellBuilt, IsTimed
    <2>2. p \in Nat /\ q \in Nat
        BY <1>1, Built, TreeFacts
    <2> QED BY <2>1, <2>2 DEF BeforeLoop, AfterLoop
<1>6. l \notin fn.occ[q].up
    <2>1. fn.occ[l].parent \in Nat /\ fn.occ[l].parent < l
        BY <1>3, Built, ParentFacts
    <2>2. \A x \in fn.occ[q].up : x <= fn.occ[q].parent
        BY <1>1, <1>4, Built, LeafFacts, ParentFacts
    <2> QED BY <1>2, <1>5, <2>1, <2>2
<1>7. Apart(fn.occ, p, l) /\ Apart(fn.occ, l, q)
    <2>1. p \notin fn.occ[l].up /\ q \notin fn.occ[l].up
        BY <1>4, LeafFacts
    <2>2. l \notin fn.occ[p].up
        BY <1>1, <1>5, Built, TreeFacts DEF Line
    <2> QED BY <1>5, <1>6, <2>1, <2>2 DEF Apart
<1>8. fn.occ[p].end < fn.occ[l].start /\ fn.occ[l].end < fn.occ[q].start
    BY <1>1, <1>5, <1>7, Built, ApartInTime
<1> QED BY <1>1, <1>2, <1>3, <1>5, <1>8
-----------------------------------------------------------------------------
(* getSetWaitLCAPairOcc for one of the two.                                 *)
HoistedOf(fn, a, b, k) ==
    LET common == CommonScope(fn.op, fn.occ[a].op, fn.occ[b].op)
        both   == CommonScope(fn.occ, a, b)
        at     == Toward(fn.occ, OccOf(fn, k, common), k)
        side   == Toward(fn.occ, both, k)
        loops  == {l \in fn.occ[at].up : KindOf(fn, l) = "loop" /\ side \in fn.occ[l].up}
    IN  IF loops = {} THEN at ELSE Min(loops)

LEMMA SetWaitAtIs ==
    ASSUME NEW fn, NEW a, NEW b
    PROVE  SetWaitAt(fn, a, b) = <<HoistedOf(fn, a, b, a), HoistedOf(fn, a, b, b)>>
BY DEF SetWaitAt, HoistedOf

LEMMA OpFacts ==
    ASSUME NEW fn, WellBuilt(fn), NEW k \in DOMAIN fn.occ, k # 1
    PROVE  fn.occ[k].op # 1
<1>1. 1 \in fn.occ[k].up
    BY Built, TreeFacts DEF IsTree
<1>2. fn.occ[1].op \in fn.op[fn.occ[k].op].up
    BY <1>1, OccFacts
<1>3. fn.op[1].up = {}
    BY Built DEF IsTree
<1> QED BY <1>2, <1>3

(* It is on the line of that one, below the common scope.                   *)
LEMMA HoistedFacts ==
    ASSUME NEW fn, WellBuilt(fn), NEW a \in DOMAIN fn.occ, NEW b \in DOMAIN fn.occ,
           a # 1, b # 1, NEW k \in {a, b}
    PROVE  /\ HoistedOf(fn, a, b, k) \in Line(fn.occ, k)
           /\ HoistedOf(fn, a, b, k) > CommonScope(fn.occ, a, b)
           /\ fn.occ[CommonScope(fn.occ, a, b)].op
                    = CommonScope(fn.op, fn.occ[a].op, fn.occ[b].op)
                => HoistedOf(fn, a, b, k) = Toward(fn.occ, CommonScope(fn.occ, a, b), k)
<1> DEFINE x      == fn.occ[a].op
           y      == fn.occ[b].op
           common == CommonScope(fn.op, x, y)
           both   == CommonScope(fn.occ, a, b)
           ck     == OccOf(fn, k, common)
           at     == Toward(fn.occ, ck, k)
           side   == Toward(fn.occ, both, k)
           loops  == {l \in fn.occ[at].up : KindOf(fn, l) = "loop" /\ side \in fn.occ[l].up}
           H      == HoistedOf(fn, a, b, k)
<1>1. H = IF loops = {} THEN at ELSE Min(loops)
    BY DEF HoistedOf
<1>2. IsTree(fn.occ) /\ IsTree(fn.op) /\ k \in DOMAIN fn.occ
    BY Built
<1>3. /\ both \in fn.occ[k].up
      /\ both \in fn.occ[a].up /\ both \in fn.occ[b].up
    BY <1>2, CommonIs
<1>4. /\ x \in DOMAIN fn.op /\ y \in DOMAIN fn.op /\ x # 1 /\ y # 1
    BY OccFacts, OpFacts
<1>5. /\ common \in fn.op[x].up /\ common \in fn.op[y].up
      /\ \A z \in fn.op[x].up \cap fn.op[y].up : z <= common
    BY <1>2, <1>4, CommonIs
<1>6. fn.occ[both].op \in fn.op[x].up /\ fn.occ[both].op \in fn.op[y].up
    BY <1>3, OccFacts
<1> HIDE DEF both, common, loops, at, side, H
<1>7. fn.occ[both].op <= common
    <2> DEFINE z == fn.occ[both].op
               X == fn.op[x].up
               Y == fn.op[y].up
    <2>1. z \in X /\ z \in Y /\ \A v \in X \cap Y : v <= common
        BY <1>5, <1>6
    <2> HIDE DEF z, X, Y
    <2>2. z <= common
        BY <2>1
    <2> QED BY <2>2 DEF z
<1>8. common \in fn.op[fn.occ[k].op].up
    BY <1>5
<1>9. ck \in Line(fn.occ, k) /\ fn.occ[ck].op = common
    BY <1>8, OccOfIs DEF Line
<1> HIDE DEF ck
<1>10. ck \in fn.occ[k].up
    <2>1. common \notin {fn.occ[k].op}
        <3>1. fn.occ[k].op \notin fn.op[fn.occ[k].op].up
            BY <1>2, <1>4, TreeFacts
        <3> QED BY <1>8, <3>1
    <2> QED BY <1>9, <2>1 DEF Line
<1>11. both \in Nat /\ ck \in Nat /\ both \in Line(fn.occ, k) /\ ck \in DOMAIN fn.occ
    BY <1>2, <1>3, <1>9, TreeFacts DEF Line
<1>12. both <= ck
    <2>1. ASSUME ck < both PROVE FALSE
        <3>1. fn.occ[ck].op < fn.occ[both].op
            BY <1>9, <1>11, <2>1, OccFacts
        <3> DEFINE t == fn.op
                   z == fn.occ[both].op
        <3>3. IsTree(t) /\ x \in DOMAIN t /\ common \in t[x].up /\ z \in t[x].up
            BY <1>2, <1>4, <1>5, <1>6
        <3> HIDE DEF t, z, x
        <3>4. common \in Nat /\ z \in Nat
            BY <3>3, TreeFacts DEF Line
        <3>2. common \in Nat /\ fn.occ[both].op \in Nat
            BY <3>4 DEF z
        <3> QED BY <1>7, <1>9, <3>1, <3>2
    <2> QED BY <1>11, <2>1
<1>13. at \in Line(fn.occ, k) /\ at \in DOMAIN fn.occ /\ ck < at
    BY <1>2, <1>10, TowardIs DEF at
<1>14. side \in Line(fn.occ, k) /\ both < side /\ side \in DOMAIN fn.occ
    BY <1>2, <1>3, TowardIs DEF side
<1>15. at \in Nat /\ side \in Nat
    BY <1>2, <1>13, <1>14, TreeFacts
<1>16. \A l \in loops : l \in fn.occ[at].up /\ l \in Line(fn.occ, k) /\ side \in fn.occ[l].up
                        /\ l \in Nat /\ side < l /\ l < at
    <2>1. ASSUME NEW l \in loops
          PROVE  l \in fn.occ[at].up /\ l \in Line(fn.occ, k) /\ side \in fn.occ[l].up
                 /\ l \in Nat /\ side < l /\ l < at
        <3>1. l \in fn.occ[at].up /\ side \in fn.occ[l].up
            BY <2>1 DEF loops
        <3>2. l \in Line(fn.occ, k)
            BY <1>2, <1>13, <3>1, LineOf DEF Line
        <3>3. l \in DOMAIN fn.occ /\ l \in Nat
            BY <1>2, <3>2, TreeFacts
        <3> DEFINE t == fn.occ
        <3>6. /\ IsTree(t) /\ at \in DOMAIN t /\ l \in DOMAIN t
              /\ l \in t[at].up /\ side \in t[l].up
            BY <1>2, <1>13, <3>1, <3>3
        <3> HIDE DEF t
        <3>7. l \in Line(t, at) /\ side \in Line(t, l)
            BY <3>6 DEF Line
        <3>8. l # at /\ side # l
            BY <3>6, TreeFacts
        <3>9. l <= at /\ side <= l
            BY <3>6, <3>7, TreeFacts
        <3>4. l < at
            BY <1>15, <3>3, <3>8, <3>9
        <3>5. side < l
            BY <1>15, <3>3, <3>8, <3>9
        <3> QED BY <3>1, <3>2, <3>3, <3>4, <3>5
    <2> QED BY <2>1
<1>17. loops # {} => Min(loops) \in loops
    <2>1. loops \in SUBSET Nat
        BY <1>16
    <2>2. loops # {} => \E z \in loops : \A v \in loops : z <= v
        BY <2>1, Least
    <2> QED BY <2>2 DEF Min
<1>18. H \in Line(fn.occ, k) /\ H > both
    <2>1. CASE loops = {}
        BY <1>1, <1>11, <1>12, <1>13, <1>15, <2>1
    <2>2. CASE loops # {}
        BY <1>1, <1>11, <1>14, <1>15, <1>16, <1>17, <2>2
    <2> QED BY <2>1, <2>2
<1>19. ASSUME fn.occ[both].op = common PROVE H = side
    <2>1. ck = both
        <3>1. ASSUME both < ck PROVE FALSE
            <4>1. fn.occ[both].op < fn.occ[ck].op
                BY <1>9, <1>11, <3>1, OccFacts
            <4>2. common \in Nat
                BY <1>2, <1>4, <1>5, TreeFacts DEF Line
            <4> QED BY <1>9, <1>19, <4>1, <4>2
        <3> QED BY <1>11, <1>12, <3>1
    <2>2. at = side
        BY <2>1 DEF at, side
    <2>3. loops = {}
        BY <1>15, <1>16, <2>2
    <2> QED BY <1>1, <2>2, <2>3
<1> QED BY <1>18, <1>19 DEF both, common, side, H

(* Where set and wait of two that are apart are: around either, and apart.  *)
LEMMA SetWaitAtFacts ==
    ASSUME NEW fn, WellBuilt(fn), NEW a \in DOMAIN fn.occ, NEW b \in DOMAIN fn.occ,
           a # 1, b # 1, Apart(fn.occ, a, b), a < b, NEW sw, sw = SetWaitAt(fn, a, b)
    PROVE  /\ sw = <<sw[1], sw[2]>>
           /\ sw[1] \in Line(fn.occ, a) /\ sw[1] \notin Line(fn.occ, b)
           /\ sw[2] \in Line(fn.occ, b) /\ sw[2] \notin Line(fn.occ, a)
           /\ sw[1] \in DOMAIN fn.occ \ {1} /\ sw[2] \in DOMAIN fn.occ \ {1}
           /\ fn.occ[sw[1]].parent \in fn.occ[a].up /\ fn.occ[sw[2]].parent \in fn.occ[b].up
           /\ fn.occ[a].end < fn.occ[sw[2]].start
<1> DEFINE c == CommonScope(fn.occ, a, b)
           h == HoistedOf(fn, a, b, a)
           g == HoistedOf(fn, a, b, b)
<1>1. sw = <<h, g>>
    BY SetWaitAtIs
<1>2. IsTree(fn.occ) /\ IsTimed(fn.occ)
    BY Built
<1>3. c \in fn.occ[a].up /\ c \in Nat \ {0}
    BY <1>2, CommonIs, TreeFacts DEF Line
<1>4. h \in Line(fn.occ, a) /\ h > c /\ g \in Line(fn.occ, b) /\ g > c
    BY HoistedFacts
<1>5. c = CommonScope(fn.occ, b, a) /\ Apart(fn.occ, b, a)
    BY CommonCommutes DEF Apart
<1> HIDE DEF h, g, c
<1>6. h \notin Line(fn.occ, b)
    BY <1>2, <1>4, BelowCommon DEF c
<1>7. g \notin Line(fn.occ, a)
    BY <1>2, <1>4, <1>5, BelowCommon
<1>8. /\ h \in DOMAIN fn.occ /\ h \in Nat /\ g \in DOMAIN fn.occ /\ g \in Nat /\ h # 1 /\ g # 1
    BY <1>2, <1>3, <1>4, TreeFacts
<1>9. fn.occ[h].parent \in fn.occ[a].up /\ fn.occ[g].parent \in fn.occ[b].up
    <2>1. fn.occ[h].parent \in fn.occ[h].up /\ fn.occ[g].parent \in fn.occ[g].up
        BY <1>2, <1>8, ParentFacts
    <2> QED BY <1>2, <1>4, <2>1, TreeFacts DEF Line
<1>10. fn.occ[a].end < fn.occ[g].start
    <2>1. a \in Line(fn.occ, a)
        BY DEF Line
    <2>2. Apart(fn.occ, a, g)
        <3>1. a \notin Line(fn.occ, b)
            BY DEF Line, Apart
        <3> QED BY <1>2, <1>4, <1>7, <2>1, <3>1, ApartFacts
    <2> QED BY <1>2, <1>4, <2>1, <2>2, InsideInTime
<1> QED BY <1>1, <1>4, <1>6, <1>7, <1>8, <1>9, <1>10

(* A child p of a scope that holds k: the common scope is that scope, of    *)
(* the occurrences as of the operations.                                    *)
LEMMA SameScope ==
    ASSUME NEW fn, WellBuilt(fn), NEW p \in DOMAIN fn.occ, NEW k \in DOMAIN fn.occ,
           p # 1, k # 1, NEW c, c = fn.occ[p].parent, c \in fn.occ[k].up
    PROVE  /\ CommonScope(fn.occ, k, p) = c /\ CommonScope(fn.occ, p, k) = c
           /\ CommonScope(fn.op, fn.occ[k].op, fn.occ[p].op) = fn.occ[c].op
           /\ CommonScope(fn.op, fn.occ[p].op, fn.occ[k].op) = fn.occ[c].op
           /\ SetWaitAt(fn, k, p) = <<Toward(fn.occ, c, k), p>>
           /\ SetWaitAt(fn, p, k) = <<p, Toward(fn.occ, c, k)>>
<1> DEFINE x == fn.occ[k].op
           y == fn.occ[p].op
<1>1. IsTree(fn.occ) /\ IsTree(fn.op)
    BY Built
<1>2. c \in fn.occ[p].up /\ c \in Nat /\ \A z \in fn.occ[p].up : z <= c
    BY <1>1, ParentFacts
<1>3. CommonScope(fn.occ, k, p) = c
    <2> DEFINE d == CommonScope(fn.occ, k, p)
    <2>1. d \in fn.occ[p].up /\ \A z \in fn.occ[k].up \cap fn.occ[p].up : z <= d
        BY <1>1, CommonIs
    <2>2. d \in Nat
        BY <1>1, <2>1, TreeFacts DEF Line
    <2> QED BY <1>2, <2>1, <2>2
<1>4. x \in DOMAIN fn.op /\ y \in DOMAIN fn.op /\ x # 1 /\ y # 1
    BY OccFacts, OpFacts
<1>5. fn.occ[c].op \in fn.op[x].up /\ fn.occ[c].op \in fn.op[y].up
    BY <1>2, OccFacts
<1>6. \A z \in fn.op[y].up : z <= fn.occ[c].op
    <2>1. ASSUME NEW z \in fn.op[y].up PROVE z <= fn.occ[c].op
        <3>1. PICK w \in fn.occ[p].up : fn.occ[w].op = z
            BY OccFacts
        <3>2. w \in Nat /\ w <= c /\ w \in Line(fn.occ, p) /\ c \in Line(fn.occ, p)
            BY <1>1, <1>2, TreeFacts DEF Line
        <3>3. z \in Nat /\ fn.occ[c].op \in Nat
            BY <1>1, <1>4, <1>5, TreeFacts DEF Line
        <3>4. CASE w = c
            BY <3>1, <3>3, <3>4
        <3>5. CASE w < c
            <4>1. fn.occ[w].op < fn.occ[c].op
                BY <3>2, <3>5, OccFacts
            <4> QED BY <3>1, <3>3, <4>1
        <3> QED BY <1>2, <3>2, <3>4, <3>5
    <2> QED BY <2>1
<1>7. CommonScope(fn.op, x, y) = fn.occ[c].op
    <2> DEFINE d == CommonScope(fn.op, x, y)
    <2>1. d \in fn.op[y].up /\ \A z \in fn.op[x].up \cap fn.op[y].up : z <= d
        BY <1>1, <1>4, CommonIs
    <2>2. d \in Nat /\ fn.occ[c].op \in Nat
        <3> DEFINE t == fn.op
                   z == fn.occ[c].op
        <3>1. IsTree(t) /\ y \in DOMAIN t /\ d \in t[y].up /\ z \in t[y].up
            BY <1>1, <1>4, <1>5, <2>1
        <3> HIDE DEF t, z, d, y
        <3>3. d \in Line(t, y) /\ z \in Line(t, y)
            BY <3>1 DEF Line
        <3>2. d \in Nat /\ z \in Nat
            BY <3>1, <3>3, TreeFacts
        <3> QED BY <3>2 DEF z
    <2>3. d \in fn.op[y].up
        BY <1>1, <1>4, CommonIs
    <2> HIDE DEF d, x, y
    <2>4. d <= fn.occ[c].op /\ fn.occ[c].op <= d
        BY <1>5, <1>6, <2>1, <2>3
    <2> QED BY <2>2, <2>4 DEF d
<1>8. CommonScope(fn.occ, p, k) = c /\ CommonScope(fn.op, y, x) = fn.occ[c].op
    BY <1>3, <1>7, CommonCommutes
<1>9. Toward(fn.occ, c, p) = p
    BY <1>1, TowardChild
<1>10. SetWaitAt(fn, k, p) = <<Toward(fn.occ, c, k), p>>
    <2>1. /\ HoistedOf(fn, k, p, k) = Toward(fn.occ, c, k)
          /\ HoistedOf(fn, k, p, p) = Toward(fn.occ, c, p)
        BY <1>3, <1>7, HoistedFacts
    <2> QED BY <1>9, <2>1, SetWaitAtIs
<1>11. SetWaitAt(fn, p, k) = <<p, Toward(fn.occ, c, k)>>
    <2>1. /\ HoistedOf(fn, p, k, k) = Toward(fn.occ, c, k)
          /\ HoistedOf(fn, p, k, p) = Toward(fn.occ, c, p)
        BY <1>8, HoistedFacts
    <2> QED BY <1>9, <2>1, SetWaitAtIs
<1> QED BY <1>3, <1>7, <1>8, <1>10, <1>11

(* Two children of a scope, of which neither is backward of the other.      *)
LEMMA ForwardInScope ==
    ASSUME NEW fn, WellBuilt(fn), NEW p \in DOMAIN fn.occ, NEW k \in DOMAIN fn.occ,
           p # 1, k # 1, p < k, fn.occ[p].parent = fn.occ[k].parent,
           KindOf(fn, fn.occ[p].parent) # "loop"
    PROVE  ~IsBackward(fn, p, k)
<1> DEFINE c == fn.occ[k].parent
<1>1. IsTree(fn.occ) /\ IsTree(fn.op)
    BY Built
<1>2. c \in fn.occ[k].up /\ c \in Nat /\ c < p /\ p \in Nat /\ k \in Nat
    BY <1>1, ParentFacts, TreeFacts
<1>3. CommonScope(fn.op, fn.occ[p].op, fn.occ[k].op) = fn.occ[c].op /\ CommonScope(fn.occ, p, k) = c
    BY <1>2, SameScope
<1>4. p \in c + 1 .. k - 1
    BY <1>2
<1>5. fn.occ[p].op < fn.occ[k].op
    BY <1>4 DEF WellBuilt, IsScoped
<1>6. fn.occ[p].op \in Nat /\ fn.occ[k].op \in Nat
    BY <1>1, OccFacts, TreeFacts
<1> QED BY <1>3, <1>5, <1>6 DEF IsBackward
-----------------------------------------------------------------------------
IsAccess(fn, k) == k \in DOMAIN fn.occ /\ KindOf(fn, k) = "rw"

LEMMA AccessFacts ==
    ASSUME NEW fn, WellBuilt(fn), NEW a, IsAccess(fn, a)
    PROVE  /\ a \in DOMAIN fn.occ /\ IsLeaf(fn, a) /\ a # 1
           /\ KindOf(fn, fn.occ[a].parent) \notin {"loop", "if"}
<1>1. IsLeaf(fn, a)
    BY KindsOfLeaves DEF IsAccess
<1>2. a # 1
    BY <1>1, LeafFacts
<1> QED BY <1>1, <1>2, ScopeFacts DEF IsAccess

(* A set and a wait that order a before b: they are in scopes around the    *)
(* two, the set not before a ends, the wait not after b starts.             *)
AroundBoth(fn, a, b, set, wait) ==
    LET par1 == fn.occ[set].parent
        par2 == fn.occ[wait].parent
    IN  /\ set \in DOMAIN fn.occ \ {1} /\ wait \in DOMAIN fn.occ \ {1}
        /\ \/ par1 \in fn.occ[a].up /\ par2 \in fn.occ[b].up
           \/ par1 = par2 /\ par1 \in fn.occ[a].up \cup fn.occ[b].up
        /\ fn.occ[a].end <= fn.occ[set].end /\ fn.occ[wait].start <= fn.occ[b].start

(* A barrier at w, or further towards b when w is a condition around it,    *)
(* comes after a.                                                           *)
BarrierAfter(fn, a, b, w) ==
    \/ fn.occ[a].end <= fn.occ[w].start
    \/ /\ w \in fn.occ[b].up /\ KindOf(fn, w) = "if"
       /\ \A z \in Line(fn.occ, b) : z > w => fn.occ[a].end <= fn.occ[z].start

GoodSync(fn, a, b, s) ==
    /\ AroundBoth(fn, a, b, s.set, s.wait) /\ BarrierAfter(fn, a, b, s.wait)
    /\ s.inside => /\ s.set = a /\ s.wait = b /\ InSiblingIfs(fn, a, b)
                   /\ s.setIf = TrueBranchOf(fn, a) /\ s.waitIf = TrueBranchOf(fn, b)

LEMMA TrueBranchIs ==
    ASSUME NEW fn, WellBuilt(fn), NEW k \in DOMAIN fn.occ, k # 1,
           NEW x, x = TrueBranchOf(fn, k), x # Top
    PROVE  /\ x \in fn.occ[k].up /\ KindOf(fn, x) = "if" /\ fn.occ[k].parent = x + 1
           /\ x + 1 \in fn.occ[k].up /\ fn.occ[x + 1].parent = x
<1> DEFINE t      == fn.occ
           branch == t[k].parent
<1>1. x = t[branch].parent /\ KindOf(fn, x) = "if" /\ branch = x + 1
    BY DEF TrueBranchOf
<1>2. IsTree(t) /\ k \in DOMAIN t
    BY Built
<1> HIDE DEF t
<1>3. branch \in t[k].up /\ branch \in DOMAIN t
    BY <1>2, ParentFacts
<1>4. t[branch].parent # Top
    BY <1>1
<1> HIDE DEF branch
<1>5. branch # 1
    BY <1>2, <1>3, <1>4, RootFacts
<1>6. x \in t[branch].up
    BY <1>1, <1>2, <1>3, <1>5, ParentFacts
<1>7. t[branch].up \subseteq t[k].up
    BY <1>2, <1>3, TreeFacts
<1>8. x \in t[k].up /\ x + 1 \in t[k].up /\ t[x + 1].parent = x
    BY <1>1, <1>3, <1>6, <1>7
<1> QED BY <1>1, <1>8 DEF t, branch

(* Conditions on one line are not side by side.                             *)
LEMMA NotSiblings ==
    ASSUME NEW fn, WellBuilt(fn), NEW k \in DOMAIN fn.occ,
           NEW x \in Line(fn.occ, k), NEW y \in Line(fn.occ, k),
           fn.op[fn.occ[x].op].parent = fn.op[fn.occ[y].op].parent
    PROVE  x = y
<1> DEFINE t == fn.occ
           u == fn.op
<1>1. IsTree(t) /\ IsTree(u) /\ k \in DOMAIN t /\ x \in Line(t, k) /\ y \in Line(t, k)
    BY Built
<1>2. ASSUME NEW v \in Line(t, k), NEW w \in Line(t, k), v < w,
             u[t[v].op].parent = u[t[w].op].parent
      PROVE  FALSE
    <2> DEFINE p == t[v].op
               q == t[w].op
    <2>1. v \in DOMAIN t /\ w \in DOMAIN t
        <3> HIDE DEF t
        <3> QED BY <1>1, TreeFacts
    <2>2. p \in u[q].up
        BY <1>2, OccFacts
    <2>3. p \in DOMAIN u /\ q \in DOMAIN u
        BY <2>1, OccFacts
    <2> HIDE DEF t, u, p, q
    <2>9. u[q].parent = u[p].parent
        BY <1>2 DEF p, q
    <2>4. p \in Nat \ {0} /\ q \in Nat \ {0}
        BY <1>1, <2>3, TreeFacts
    <2>5. q # 1
        <3>1. p < q
            <4>1. p \in Line(u, q) /\ p # q
                BY <1>1, <2>2, <2>3, TreeFacts DEF Line
            <4>2. p <= q
                BY <1>1, <2>3, <4>1, TreeFacts
            <4> QED BY <2>4, <4>1, <4>2
        <3> QED BY <2>4, <3>1
    <2>6. p <= u[q].parent /\ u[q].parent \in Nat \ {0}
        BY <1>1, <2>2, <2>3, <2>5, ParentFacts
    <2>7. p # 1
        BY <1>1, <2>3, <2>6, <2>9, RootFacts DEF Top
    <2>8. u[p].parent < p /\ u[p].parent \in Nat
        BY <1>1, <2>3, <2>7, ParentFacts
    <2> QED BY <2>4, <2>6, <2>8, <2>9
<1>3. x \in Nat /\ y \in Nat
    <2> HIDE DEF t
    <2> QED BY <1>1, TreeFacts
<1>4. u[t[x].op].parent = u[t[y].op].parent
    OBVIOUS
<1> HIDE DEF t, u
<1>5. ~(x < y) /\ ~(y < x)
    BY <1>1, <1>2, <1>4
<1> QED BY <1>3, <1>5

LEMMA NotInSiblingIfs ==
    ASSUME NEW fn, WellBuilt(fn), NEW k \in DOMAIN fn.occ, NEW a, NEW b,
           TrueBranchOf(fn, a) # Top => TrueBranchOf(fn, a) \in Line(fn.occ, k),
           TrueBranchOf(fn, b) # Top => TrueBranchOf(fn, b) \in Line(fn.occ, k)
    PROVE  ~InSiblingIfs(fn, a, b)
BY NotSiblings DEF InSiblingIfs

(* Set after the part of a scope that holds a, wait where the scope ends.   *)
LEMMA EndsInScope ==
    ASSUME NEW fn, WellBuilt(fn), NEW a, IsAccess(fn, a), NEW b, IsAccess(fn, b),
           NEW c \in fn.occ[a].up, c # 1, KindOf(fn, fn.occ[c].parent) \in {"loop", "if"},
           NEW e, e = ScopeEnd(fn, c), fn.occ[e].start <= fn.occ[b].start,
           NEW h, h = Toward(fn.occ, c, a)
    PROVE  /\ SetWaitAt(fn, a, e) = <<h, e>> /\ ~IsBackward(fn, h, e)
           /\ KindOf(fn, fn.occ[h].parent) = "scope"
           /\ ~InSiblingIfs(fn, a, e)
           /\ AroundBoth(fn, a, b, OutsideLoops(fn, <<h, e>>)[1], OutsideLoops(fn, <<h, e>>)[2])
           /\ BarrierAfter(fn, a, b, OutsideLoops(fn, <<h, e>>)[2])
<1>1. IsTree(fn.occ) /\ IsTimed(fn.occ) /\ a \in DOMAIN fn.occ /\ a # 1 /\ IsLeaf(fn, a)
    BY Built, AccessFacts
<1>2. c \in DOMAIN fn.occ /\ c \in Nat
    BY <1>1, TreeFacts DEF Line
<1>3. /\ e \in DOMAIN fn.occ /\ fn.occ[e].parent = c /\ KindOf(fn, e) = "end"
      /\ KindOf(fn, c) = "scope"
    BY <1>2, ScopeFacts
<1>4. IsLeaf(fn, e) /\ e # 1
    BY <1>3, KindsOfLeaves, LeafFacts
<1>5. SetWaitAt(fn, a, e) = <<h, e>>
    BY <1>1, <1>3, <1>4, SameScope
<1>6. h \in Line(fn.occ, a) /\ h \in DOMAIN fn.occ /\ fn.occ[h].parent = c /\ c < h
    BY <1>1, TowardIs
<1>7. h \in Nat /\ e \in Nat /\ a \in Nat /\ h # 1
    BY <1>1, <1>2, <1>3, <1>6, TreeFacts
<1>8. h # e /\ Apart(fn.occ, h, e)
    <2>1. a # e
        BY <1>3 DEF IsAccess
    <2>2. e \notin fn.occ[a].up /\ e \notin fn.occ[h].up
        BY <1>1, <1>4, <1>6, LeafFacts
    <2>3. h # e
        BY <1>6, <2>1, <2>2 DEF Line
    <2>4. h \notin fn.occ[e].up
        BY <1>1, <1>2, <1>3, <1>4, <1>6, <1>7, ParentFacts
    <2> QED BY <2>2, <2>3, <2>4 DEF Apart
<1>9. h < e
    <2>1. /\ c \in fn.occ[h].up
          /\ fn.occ[c].last \in c + 1 .. Len(fn.occ) + 1
          /\ \A j \in DOMAIN fn.occ : c \in fn.occ[j].up <=> j \in c + 1 .. fn.occ[c].last - 1
        BY <1>1, <1>2, <1>6, <1>7, ParentFacts DEF IsTimed
    <2>2. h \in c + 1 .. fn.occ[c].last - 1
        BY <1>6, <2>1
    <2> QED BY <1>7, <1>8, <2>2 DEF ScopeEnd
<1>10. ~IsBackward(fn, h, e)
    BY <1>3, <1>4, <1>6, <1>7, <1>9, ForwardInScope
<1>11. KindOf(fn, fn.occ[h].parent) = "scope"
    BY <1>3, <1>6
<1>12. ~InSiblingIfs(fn, a, e)
    <2>1. TrueBranchOf(fn, a) # Top => TrueBranchOf(fn, a) \in Line(fn.occ, a)
        BY <1>1, TrueBranchIs DEF Line
    <2>2. TrueBranchOf(fn, e) # Top => TrueBranchOf(fn, e) \in Line(fn.occ, a)
        <3>1. TrueBranchOf(fn, e) # Top => TrueBranchOf(fn, e) \in fn.occ[e].up
            BY <1>3, <1>4, TrueBranchIs
        <3>2. fn.occ[e].up = Line(fn.occ, c)
            BY <1>1, <1>3, <1>4, ParentFacts
        <3>3. Line(fn.occ, c) \subseteq Line(fn.occ, a)
            BY <1>1, LineOf DEF Line
        <3> QED BY <3>1, <3>2, <3>3
    <2> QED BY <1>1, <2>1, <2>2, NotInSiblingIfs
<1> DEFINE s == OutsideLoops(fn, <<h, e>>)
<1>13. s[2] = e
    BY <1>3 DEF OutsideLoops
<1>14. /\ s[1] \in DOMAIN fn.occ \ {1} /\ fn.occ[s[1]].parent = c
       /\ fn.occ[a].end <= fn.occ[s[1]].end
    <2>1. fn.occ[a].end \in Nat /\ fn.occ[h].end \in Nat /\ fn.occ[a].end <= fn.occ[h].end
        BY <1>1, <1>6, TimeFacts
    <2>2. CASE KindOf(fn, h) = "loop"
        <3> DEFINE q == AfterLoop(fn, h)
        <3>1. s[1] = q
            BY <2>2 DEF OutsideLoops
        <3>2. q \in DOMAIN fn.occ /\ fn.occ[q].parent = c /\ KindOf(fn, q) = "after"
              /\ fn.occ[h].end < fn.occ[q].start
            BY <1>6, <2>2, LoopFacts
        <3>3. q # 1
            BY <3>2, KindsOfLeaves, LeafFacts
        <3>4. fn.occ[q].start \in Nat /\ fn.occ[q].end \in Nat /\ fn.occ[q].start < fn.occ[q].end
            BY <1>1, <3>2, TimeFacts
        <3> QED BY <2>1, <3>1, <3>2, <3>3, <3>4
    <2>3. CASE KindOf(fn, h) # "loop"
        <3>1. s[1] = h
            BY <2>3 DEF OutsideLoops
        <3> QED BY <1>6, <1>7, <2>1, <3>1
    <2> QED BY <2>2, <2>3
<1>15. fn.occ[a].end <= fn.occ[e].start
    <2>1. fn.occ[a].end \in Nat /\ fn.occ[h].end \in Nat /\ fn.occ[a].end <= fn.occ[h].end
        BY <1>1, <1>6, TimeFacts
    <2>2. fn.occ[h].end < fn.occ[e].start
        BY <1>1, <1>3, <1>6, <1>8, <1>9, ApartInTime
    <2>3. fn.occ[e].start \in Nat
        BY <1>1, <1>3, TimeFacts
    <2> QED BY <2>1, <2>2, <2>3
<1> HIDE DEF s
<1>16. AroundBoth(fn, a, b, s[1], s[2])
    BY <1>3, <1>4, <1>13, <1>14 DEF AroundBoth
<1>17. BarrierAfter(fn, a, b, s[2])
    BY <1>13, <1>15 DEF BarrierAfter
<1> QED BY <1>5, <1>10, <1>11, <1>12, <1>16, <1>17 DEF s

(* Set where a scope begins, wait before the part of it that holds b.       *)
LEMMA StartsInScope ==
    ASSUME NEW fn, WellBuilt(fn), NEW a, IsAccess(fn, a), NEW b, IsAccess(fn, b),
           NEW c \in fn.occ[b].up, c # 1, KindOf(fn, fn.occ[c].parent) \in {"loop", "if"},
           fn.occ[a].end < fn.occ[c].start,
           NEW s, s = ScopeBegin(c), NEW h, h = Toward(fn.occ, c, b)
    PROVE  /\ SetWaitAt(fn, s, b) = <<s, h>> /\ ~IsBackward(fn, s, h)
           /\ KindOf(fn, fn.occ[s].parent) = "scope"
           /\ ~InSiblingIfs(fn, s, b)
           /\ AroundBoth(fn, a, b, OutsideLoops(fn, <<s, h>>)[1], OutsideLoops(fn, <<s, h>>)[2])
           /\ BarrierAfter(fn, a, b, OutsideLoops(fn, <<s, h>>)[2])
<1>1. IsTree(fn.occ) /\ IsTimed(fn.occ) /\ b \in DOMAIN fn.occ /\ b # 1 /\ IsLeaf(fn, b)
      /\ a \in DOMAIN fn.occ
    BY Built, AccessFacts
<1>2. c \in DOMAIN fn.occ /\ c \in Nat
    BY <1>1, TreeFacts DEF Line
<1>3. /\ s \in DOMAIN fn.occ /\ fn.occ[s].parent = c /\ KindOf(fn, s) = "begin"
      /\ KindOf(fn, c) = "scope"
    BY <1>2, ScopeFacts
<1>4. IsLeaf(fn, s) /\ s # 1
    BY <1>3, KindsOfLeaves, LeafFacts
<1>5. SetWaitAt(fn, s, b) = <<s, h>>
    BY <1>1, <1>3, <1>4, SameScope
<1>6. h \in Line(fn.occ, b) /\ h \in DOMAIN fn.occ /\ fn.occ[h].parent = c /\ c < h
    BY <1>1, TowardIs
<1>7. h \in Nat /\ s \in Nat /\ h # 1
    BY <1>1, <1>2, <1>3, <1>6, TreeFacts
<1>8. h # s
    <2>1. b # s
        BY <1>3 DEF IsAccess
    <2>2. s \notin fn.occ[b].up
        BY <1>1, <1>4, LeafFacts
    <2> QED BY <1>6, <2>1, <2>2 DEF Line
<1>9. s < h
    BY <1>2, <1>6, <1>7, <1>8 DEF ScopeBegin
<1>10. ~IsBackward(fn, s, h)
    BY <1>3, <1>4, <1>6, <1>7, <1>9, ForwardInScope
<1>11. KindOf(fn, fn.occ[s].parent) = "scope"
    BY <1>3
<1>12. ~InSiblingIfs(fn, s, b)
    <2>1. TrueBranchOf(fn, b) # Top => TrueBranchOf(fn, b) \in Line(fn.occ, b)
        BY <1>1, TrueBranchIs DEF Line
    <2>2. TrueBranchOf(fn, s) # Top => TrueBranchOf(fn, s) \in Line(fn.occ, b)
        <3>1. TrueBranchOf(fn, s) # Top => TrueBranchOf(fn, s) \in fn.occ[s].up
            BY <1>3, <1>4, TrueBranchIs
        <3>2. fn.occ[s].up = Line(fn.occ, c)
            BY <1>1, <1>3, <1>4, ParentFacts
        <3>3. Line(fn.occ, c) \subseteq Line(fn.occ, b)
            BY <1>1, LineOf DEF Line
        <3> QED BY <3>1, <3>2, <3>3
    <2> QED BY <1>1, <2>1, <2>2, NotInSiblingIfs
<1> DEFINE o == OutsideLoops(fn, <<s, h>>)
<1>13. o[1] = s
    BY <1>3 DEF OutsideLoops
<1>14. /\ o[2] \in DOMAIN fn.occ \ {1} /\ fn.occ[o[2]].parent = c
       /\ fn.occ[o[2]].start <= fn.occ[b].start
    <2>1. /\ fn.occ[b].start \in Nat /\ fn.occ[h].start \in Nat
          /\ fn.occ[h].start <= fn.occ[b].start
        BY <1>1, <1>6, TimeFacts
    <2>2. CASE KindOf(fn, h) = "loop"
        <3> DEFINE q == BeforeLoop(h)
        <3>1. o[2] = q
            BY <2>2 DEF OutsideLoops
        <3>2. q \in DOMAIN fn.occ /\ fn.occ[q].parent = c /\ KindOf(fn, q) = "before"
              /\ fn.occ[q].end < fn.occ[h].start
            BY <1>6, <2>2, LoopFacts
        <3>3. q # 1
            BY <3>2, KindsOfLeaves, LeafFacts
        <3>4. fn.occ[q].start \in Nat /\ fn.occ[q].end \in Nat /\ fn.occ[q].start < fn.occ[q].end
            BY <1>1, <3>2, TimeFacts
        <3> QED BY <2>1, <3>1, <3>2, <3>3, <3>4
    <2>3. CASE KindOf(fn, h) # "loop"
        <3>1. o[2] = h
            BY <2>3 DEF OutsideLoops
        <3> QED BY <1>6, <1>7, <2>1, <3>1
    <2> QED BY <2>2, <2>3
<1> HIDE DEF o
<1>15. ASSUME NEW k \in DOMAIN fn.occ, k # 1, fn.occ[k].parent = c
       PROVE  fn.occ[a].end <= fn.occ[k].start /\ fn.occ[a].end <= fn.occ[k].end
    <2>1. c \in Line(fn.occ, k)
        BY <1>1, <1>15, ParentFacts DEF Line
    <2>2. /\ fn.occ[c].start \in Nat /\ fn.occ[c].start <= fn.occ[k].start
          /\ fn.occ[k].start \in Nat /\ fn.occ[k].end \in Nat /\ fn.occ[k].start < fn.occ[k].end
        BY <1>1, <2>1, TimeFacts
    <2>3. fn.occ[a].end \in Nat
        BY <1>1, TimeFacts
    <2> QED BY <2>2, <2>3
<1>16. AroundBoth(fn, a, b, o[1], o[2])
    BY <1>3, <1>4, <1>13, <1>14, <1>15 DEF AroundBoth
<1>17. BarrierAfter(fn, a, b, o[2])
    BY <1>14, <1>15 DEF BarrierAfter
<1> QED BY <1>5, <1>10, <1>11, <1>12, <1>16, <1>17 DEF o
-----------------------------------------------------------------------------
(* Two accesses of which the first one comes first.                         *)
IsOrder(fn, a, b) == IsAccess(fn, a) /\ IsAccess(fn, b) /\ a < b

LEMMA OrderFacts ==
    ASSUME NEW fn, WellBuilt(fn), NEW a, NEW b, IsOrder(fn, a, b)
    PROVE  /\ a \in DOMAIN fn.occ \ {1} /\ b \in DOMAIN fn.occ \ {1} /\ Apart(fn.occ, a, b)
           /\ fn.occ[a].end \in Nat /\ fn.occ[b].start \in Nat
           /\ fn.occ[a].end < fn.occ[b].start
<1>1. /\ a \in DOMAIN fn.occ /\ a # 1 /\ b \in DOMAIN fn.occ /\ b # 1 /\ a < b
      /\ IsLeaf(fn, a) /\ IsLeaf(fn, b)
    BY AccessFacts DEF IsOrder
<1>2. a \in Nat /\ b \in Nat
    BY <1>1, Built, TreeFacts
<1>3. Apart(fn.occ, a, b)
    BY <1>1, <1>2, LeafFacts
<1> QED BY <1>1, <1>3, Built, ApartInTime, TimeFacts

(* The sync of the two where they are, or around either of them.            *)
LEMMA AtTheAccesses ==
    ASSUME NEW fn, WellBuilt(fn), NEW a, NEW b, IsOrder(fn, a, b)
    PROVE  AroundBoth(fn, a, b, a, b) /\ BarrierAfter(fn, a, b, b)
<1>1. /\ fn.occ[a].parent \in fn.occ[a].up /\ fn.occ[b].parent \in fn.occ[b].up
    BY OrderFacts, Built, ParentFacts
<1> QED BY <1>1, OrderFacts DEF AroundBoth, BarrierAfter

(* What leaves a branch of a condition leaves the condition.                *)
LEMMA BranchFacts ==
    ASSUME NEW fn, WellBuilt(fn), NEW k \in DOMAIN fn.occ, NEW h \in Line(fn.occ, k),
           UnderCondition(fn, h), NEW g, g = fn.occ[h].parent, fn.occ[h].parent \in DOMAIN fn.occ
    PROVE  /\ KindOf(fn, g) = "if" /\ g # 1 /\ g \in fn.occ[k].up /\ g \in Line(fn.occ, k)
           /\ \A z \in Line(fn.occ, k) : z > g => h \in Line(fn.occ, z)
<1>1. KindOf(fn, g) = "if" /\ g # Top
    BY DEF UnderCondition
<1>2. g # 1
    BY <1>1 DEF WellBuilt
<1>3. IsTree(fn.occ) /\ h \in DOMAIN fn.occ
    BY Built, TreeFacts
<1>4. h # 1
    BY <1>1, <1>3, RootFacts
<1>5. g \in fn.occ[h].up
    BY <1>3, <1>4, ParentFacts
<1>6. g \in fn.occ[k].up
    BY <1>3, <1>5, TreeFacts DEF Line
<1>7. Toward(fn.occ, g, h) = h
    BY <1>3, <1>4, TowardChild
<1>8. ASSUME NEW z \in Line(fn.occ, k), z > g PROVE h \in Line(fn.occ, z)
    <2>1. z \in Nat /\ h \in Nat /\ g \in Nat
        BY <1>3, TreeFacts
    <2>2. z < h => z \in fn.occ[h].up
        BY <1>3, TreeFacts
    <2>3. h < z => h \in fn.occ[z].up
        BY <1>3, TreeFacts
    <2>4. z \notin fn.occ[h].up
        BY <1>3, <1>4, <1>8, <2>1, ParentFacts
    <2> QED BY <2>1, <2>2, <2>3, <2>4 DEF Line
<1> QED BY <1>1, <1>2, <1>6, <1>8 DEF Line

(* The end that is the set: s, or after it if it is a loop.                 *)
LEMMA SetEnd ==
    ASSUME NEW fn, WellBuilt(fn), NEW a \in DOMAIN fn.occ, NEW s \in Line(fn.occ, a), s # 1,
           NEW o, o = IF KindOf(fn, s) = "loop" THEN AfterLoop(fn, s) ELSE s
    PROVE  /\ o \in DOMAIN fn.occ \ {1} /\ fn.occ[o].parent \in fn.occ[a].up
           /\ fn.occ[a].end <= fn.occ[o].end
<1>1. IsTree(fn.occ) /\ IsTimed(fn.occ) /\ s \in DOMAIN fn.occ
    BY Built, TreeFacts
<1>2. fn.occ[s].parent \in fn.occ[a].up
    <2>1. fn.occ[s].parent \in fn.occ[s].up
        BY <1>1, ParentFacts
    <2> QED BY <1>1, <2>1, TreeFacts DEF Line
<1>3. fn.occ[a].end \in Nat /\ fn.occ[s].end \in Nat /\ fn.occ[a].end <= fn.occ[s].end
    BY <1>1, TimeFacts
<1>4. CASE KindOf(fn, s) = "loop"
    <2>1. /\ o \in DOMAIN fn.occ /\ fn.occ[o].parent = fn.occ[s].parent /\ KindOf(fn, o) = "after"
          /\ fn.occ[s].end < fn.occ[o].start
        BY <1>1, <1>4, LoopFacts
    <2>2. o # 1
        BY <2>1, KindsOfLeaves, LeafFacts
    <2>3. fn.occ[o].start \in Nat /\ fn.occ[o].end \in Nat /\ fn.occ[o].start < fn.occ[o].end
        BY <1>1, <2>1, TimeFacts
    <2> QED BY <1>2, <1>3, <2>1, <2>2, <2>3
<1>5. CASE KindOf(fn, s) # "loop"
    BY <1>1, <1>2, <1>3, <1>5
<1> QED BY <1>4, <1>5

(* The end that is the wait: w, or before it if it is a loop.               *)
LEMMA WaitEnd ==
    ASSUME NEW fn, WellBuilt(fn), NEW a, NEW b, IsOrder(fn, a, b), NEW w \in Line(fn.occ, b),
           w # 1, NEW o, o = IF KindOf(fn, w) = "loop" THEN BeforeLoop(w) ELSE w
    PROVE  /\ o \in DOMAIN fn.occ \ {1} /\ fn.occ[o].parent \in fn.occ[b].up
           /\ fn.occ[o].start <= fn.occ[b].start
           /\ w \notin Line(fn.occ, a) => fn.occ[a].end <= fn.occ[o].start
<1>1. IsTree(fn.occ) /\ IsTimed(fn.occ) /\ w \in DOMAIN fn.occ
    BY Built, TreeFacts, OrderFacts
<1>2. a \in DOMAIN fn.occ /\ b \in DOMAIN fn.occ /\ Apart(fn.occ, a, b) /\ a < b
      /\ a \in Line(fn.occ, a) /\ a \in Nat /\ b \in Nat /\ w \in Nat
      /\ fn.occ[a].end \in Nat
    BY <1>1, OrderFacts, TreeFacts DEF IsOrder, Line
<1>3. fn.occ[w].parent \in fn.occ[b].up
    <2>1. fn.occ[w].parent \in fn.occ[w].up
        BY <1>1, ParentFacts
    <2> QED BY <1>1, <1>2, <2>1, TreeFacts DEF Line
<1>4. /\ fn.occ[b].start \in Nat /\ fn.occ[w].start \in Nat
      /\ fn.occ[w].start <= fn.occ[b].start
    BY <1>1, <1>2, TimeFacts
<1>5. ASSUME w \notin Line(fn.occ, a)
      PROVE  fn.occ[a].end < fn.occ[w].start /\ a < w
    <2>1. a \notin Line(fn.occ, b)
        BY <1>2 DEF Apart, Line
    <2>2. Apart(fn.occ, a, w)
        BY <1>1, <1>2, <1>5, <2>1, ApartFacts
    <2> QED BY <1>1, <1>2, <2>2, InsideInTime
<1>6. CASE KindOf(fn, w) = "loop"
    <2>1. /\ o \in DOMAIN fn.occ /\ fn.occ[o].parent = fn.occ[w].parent
          /\ KindOf(fn, o) = "before" /\ fn.occ[o].end < fn.occ[w].start
          /\ o = w - 1
        BY <1>1, <1>6, LoopFacts DEF BeforeLoop
    <2>2. o # 1 /\ IsLeaf(fn, o)
        BY <2>1, KindsOfLeaves, LeafFacts
    <2>3. /\ fn.occ[o].start \in Nat /\ fn.occ[o].end \in Nat
          /\ fn.occ[o].start < fn.occ[o].end
        BY <1>1, <2>1, TimeFacts
    <2>4. ASSUME w \notin Line(fn.occ, a) PROVE fn.occ[a].end <= fn.occ[o].start
        <3>1. a # o
            BY <2>1 DEF IsOrder, IsAccess
        <3>2. a < o
            BY <1>2, <1>5, <2>1, <2>4, <3>1
        <3>3. IsLeaf(fn, a)
            BY AccessFacts DEF IsOrder
        <3>4. Apart(fn.occ, a, o)
            BY <2>2, <3>1, <3>3, LeafFacts
        <3> QED BY <1>1, <1>2, <2>1, <2>3, <3>2, <3>4, ApartInTime
    <2> QED BY <1>3, <1>4, <2>1, <2>2, <2>3, <2>4
<1>7. CASE KindOf(fn, w) # "loop"
    BY <1>1, <1>2, <1>3, <1>4, <1>5, <1>7
<1> QED BY <1>6, <1>7

(* getFixedSetWaitOcc of the two where getSetWaitLCAPairOcc puts them.      *)
LEMMA AtOccurrencesIsGood ==
    ASSUME NEW fn, WellBuilt(fn), NEW a, NEW b, IsOrder(fn, a, b)
    PROVE  GoodSync(fn, a, b, AtOccurrences(fn, a, b, SetWaitAt(fn, a, b)))
<1> DEFINE sw == SetWaitAt(fn, a, b)
           lb == LeaveBranches(fn, sw)
           o  == OutsideLoops(fn, lb)
           s  == AtOccurrences(fn, a, b, sw)
<1> SUFFICES GoodSync(fn, a, b, s)
    OBVIOUS
<1>1. CASE InSiblingIfs(fn, a, b)
    <2>1. s = At(<<a, b>>, TRUE, TrueBranchOf(fn, a), TrueBranchOf(fn, b))
        BY <1>1 DEF AtOccurrences
    <2>2. /\ s.set = a /\ s.wait = b
          /\ s.setIf = TrueBranchOf(fn, a) /\ s.waitIf = TrueBranchOf(fn, b)
        BY <2>1 DEF At
    <2> QED BY <1>1, <2>2, AtTheAccesses DEF GoodSync
<1>2. CASE ~InSiblingIfs(fn, a, b)
    <2>1. s = At(o, FALSE, Top, Top)
        BY <1>2 DEF AtOccurrences
    <2>2. s.set = o[1] /\ s.wait = o[2] /\ ~s.inside
        BY <2>1 DEF At
    <2> HIDE DEF s
    <2>3. IsTree(fn.occ) /\ IsTimed(fn.occ)
        BY Built
    <2>4. /\ sw[1] \in Line(fn.occ, a) /\ sw[1] \notin Line(fn.occ, b)
          /\ sw[2] \in Line(fn.occ, b) /\ sw[2] \notin Line(fn.occ, a)
          /\ sw[1] \in DOMAIN fn.occ \ {1} /\ sw[2] \in DOMAIN fn.occ \ {1}
          /\ fn.occ[sw[1]].parent \in fn.occ[a].up /\ fn.occ[sw[2]].parent \in fn.occ[b].up
          /\ fn.occ[a].end < fn.occ[sw[2]].start /\ sw = <<sw[1], sw[2]>>
        BY OrderFacts, SetWaitAtFacts DEF IsOrder
    <2> HIDE DEF sw
    <2> DEFINE Lifted(h) == IF UnderCondition(fn, h) THEN fn.occ[h].parent ELSE h
    <2>5. \/ lb[1] = sw[1] /\ lb[2] = sw[2]
          \/ lb[1] = Lifted(sw[1]) /\ lb[2] = Lifted(sw[2])
        BY DEF LeaveBranches
    <2> HIDE DEF lb
    <2>6. o[1] = IF KindOf(fn, lb[1]) = "loop" THEN AfterLoop(fn, lb[1]) ELSE lb[1]
        BY DEF OutsideLoops
    <2>7. o[2] = IF KindOf(fn, lb[2]) = "loop" THEN BeforeLoop(lb[2]) ELSE lb[2]
        BY DEF OutsideLoops
    <2> HIDE DEF o
    <2>8. a \in DOMAIN fn.occ /\ b \in DOMAIN fn.occ
        BY OrderFacts
    <2>9. /\ fn.occ[sw[1]].parent \in DOMAIN fn.occ /\ fn.occ[sw[2]].parent \in DOMAIN fn.occ
        BY <2>3, <2>4, ParentFacts
    <2>10. lb[1] \in Line(fn.occ, a) /\ lb[1] # 1
        <3>1. CASE lb[1] = sw[1]
            BY <2>4, <3>1
        <3>2. CASE UnderCondition(fn, sw[1]) /\ lb[1] = fn.occ[sw[1]].parent
            BY <2>4, <2>8, <2>9, <3>2, BranchFacts
        <3> QED BY <2>5, <3>1, <3>2
    <2>11. /\ o[1] \in DOMAIN fn.occ \ {1} /\ fn.occ[o[1]].parent \in fn.occ[a].up
           /\ fn.occ[a].end <= fn.occ[o[1]].end
        BY <2>6, <2>8, <2>10, SetEnd
    <2>12. CASE lb[2] = sw[2]
        <3>1. /\ o[2] \in DOMAIN fn.occ \ {1} /\ fn.occ[o[2]].parent \in fn.occ[b].up
              /\ fn.occ[o[2]].start <= fn.occ[b].start /\ fn.occ[a].end <= fn.occ[o[2]].start
            BY <2>4, <2>7, <2>12, WaitEnd
        <3> QED BY <2>2, <2>11, <3>1 DEF GoodSync, AroundBoth, BarrierAfter
    <2>13. CASE UnderCondition(fn, sw[2]) /\ lb[2] = fn.occ[sw[2]].parent
        <3> DEFINE g == fn.occ[sw[2]].parent
                   w == sw[2]
        <3>1. /\ lb[2] = g /\ b \in DOMAIN fn.occ /\ w \in Line(fn.occ, b)
              /\ UnderCondition(fn, w) /\ fn.occ[w].parent \in DOMAIN fn.occ
              /\ g = fn.occ[w].parent
            BY <2>4, <2>8, <2>9, <2>13
        <3>2. /\ KindOf(fn, g) = "if" /\ g # 1 /\ g \in fn.occ[b].up /\ g \in Line(fn.occ, b)
              /\ \A z \in Line(fn.occ, b) : z > g => w \in Line(fn.occ, z)
            <4> HIDE DEF w, g
            <4> QED BY <3>1, BranchFacts
        <3>3. o[2] = g
            BY <2>7, <3>1, <3>2
        <3>4. /\ o[2] \in DOMAIN fn.occ \ {1} /\ fn.occ[o[2]].parent \in fn.occ[b].up
              /\ fn.occ[o[2]].start <= fn.occ[b].start
            BY <2>7, <3>1, <3>2, WaitEnd
        <3>5. ASSUME NEW z \in Line(fn.occ, b), z > g PROVE fn.occ[a].end <= fn.occ[z].start
            <4>1. z \in DOMAIN fn.occ /\ sw[2] \in Line(fn.occ, z)
                BY <2>3, <2>8, <3>2, <3>5, TreeFacts
            <4>2. /\ fn.occ[z].start \in Nat /\ fn.occ[sw[2]].start \in Nat
                  /\ fn.occ[sw[2]].start <= fn.occ[z].start
                BY <2>3, <4>1, TimeFacts
            <4> QED BY <2>4, <4>2, OrderFacts
        <3>6. BarrierAfter(fn, a, b, o[2])
            BY <3>2, <3>3, <3>5 DEF BarrierAfter
        <3> QED BY <2>2, <2>11, <3>4, <3>6 DEF GoodSync, AroundBoth
    <2> QED BY <2>5, <2>12, <2>13
<1> QED BY <1>1, <1>2

(* Set and wait in one scope.                                               *)
LEMMA InOneScope ==
    ASSUME NEW fn, NEW a, NEW b, NEW a2, NEW b2, NEW sw, sw = <<sw[1], sw[2]>>,
           ~IsBackward(fn, sw[1], sw[2]), ~InSiblingIfs(fn, a2, b2),
           AroundBoth(fn, a, b, OutsideLoops(fn, sw)[1], OutsideLoops(fn, sw)[2]),
           BarrierAfter(fn, a, b, OutsideLoops(fn, sw)[2])
    PROVE  GoodSync(fn, a, b, AtOccurrences(fn, a2, b2, sw))
<1>1. LeaveBranches(fn, sw) = sw
    BY DEF LeaveBranches
<1>2. AtOccurrences(fn, a2, b2, sw) = At(OutsideLoops(fn, sw), FALSE, Top, Top)
    BY <1>1 DEF AtOccurrences
<1> QED BY <1>2 DEF At, GoodSync

(* Set and wait in one scope, of which the set is no child of a loop.       *)
LEMMA FixedInOneScope ==
    ASSUME NEW fn, NEW a, NEW b, NEW a2, NEW b2, NEW num, NEW sw, sw = <<sw[1], sw[2]>>,
           SetWaitAt(fn, a2, b2) = sw, KindOf(fn, fn.occ[sw[1]].parent) = "scope",
           ~IsBackward(fn, sw[1], sw[2]), ~InSiblingIfs(fn, a2, b2),
           AroundBoth(fn, a, b, OutsideLoops(fn, sw)[1], OutsideLoops(fn, sw)[2]),
           BarrierAfter(fn, a, b, OutsideLoops(fn, sw)[2])
    PROVE  GoodSync(fn, a, b, SetWaitOf(fn, <<a2, b2>>, num))
<1>1. FixWhile(fn, a2, b2, sw) = sw
    BY DEF FixWhile
<1>2. FixedSetWaitOcc(fn, a2, b2, sw, num) = AtOccurrences(fn, a2, b2, sw)
    BY DEF FixedSetWaitOcc, StaysInVisit
<1>3. SetWaitOf(fn, <<a2, b2>>, num) = AtOccurrences(fn, a2, b2, sw)
    BY <1>1, <1>2 DEF SetWaitOf
<1> QED BY <1>3, InOneScope

(* getFixedSetWaitOcc of two accesses that need not stay in a condition.    *)
LEMMA SetWaitOfIsGood ==
    ASSUME NEW fn, WellBuilt(fn), NEW a, NEW b, IsOrder(fn, a, b), NEW num
    PROVE  GoodSync(fn, a, b, SetWaitOf(fn, <<a, b>>, num))
<1> DEFINE sw == SetWaitAt(fn, a, b)
           c  == sw[1]
           e  == ScopeEnd(fn, c)
           h  == Toward(fn.occ, c, a)
           fw == FixWhile(fn, a, b, sw)
           s  == SetWaitOf(fn, <<a, b>>, num)
<1> SUFFICES GoodSync(fn, a, b, s)
    OBVIOUS
<1>1. s = FixedSetWaitOcc(fn, a, b, fw, num)
    BY DEF SetWaitOf
<1>2. /\ c \in Line(fn.occ, a) /\ c \notin Line(fn.occ, b)
      /\ c \in DOMAIN fn.occ \ {1}
    BY OrderFacts, SetWaitAtFacts DEF IsOrder
<1>3. fw = sw \/ (fw = SetWaitAt(fn, a, e) /\ KindOf(fn, fn.occ[c].parent) = "loop")
    BY DEF FixWhile
<1>4. AtOccurrences(fn, a, b, sw) = AtOccurrences(fn, a, b, SetWaitAt(fn, a, b))
    OBVIOUS
<1> HIDE DEF fw, s, sw
<1>5. IsTree(fn.occ) /\ IsTimed(fn.occ) /\ IsAccess(fn, a) /\ IsAccess(fn, b)
    BY Built DEF IsOrder
<1>6. ASSUME KindOf(fn, fn.occ[c].parent) \in {"loop", "if"}
      PROVE  /\ SetWaitAt(fn, a, e) = <<h, e>> /\ ~IsBackward(fn, h, e)
             /\ KindOf(fn, fn.occ[h].parent) = "scope"
             /\ ~InSiblingIfs(fn, a, e)
             /\ AroundBoth(fn, a, b, OutsideLoops(fn, <<h, e>>)[1], OutsideLoops(fn, <<h, e>>)[2])
             /\ BarrierAfter(fn, a, b, OutsideLoops(fn, <<h, e>>)[2])
    <2>1. c # a
        BY <1>5, <1>6, AccessFacts
    <2>2. c \in fn.occ[a].up
        BY <1>2, <2>1 DEF Line
    <2>3. e \in DOMAIN fn.occ /\ fn.occ[e].parent = c /\ KindOf(fn, e) = "end"
        BY <1>2, <1>6, ScopeFacts
    <2>4. e # 1
        BY <2>3, KindsOfLeaves, LeafFacts
    <2>5. c \in Line(fn.occ, e)
        BY <1>5, <2>3, <2>4, ParentFacts DEF Line
    <2>6. fn.occ[c].end < fn.occ[b].start
        <3>1. /\ a \in DOMAIN fn.occ /\ b \in DOMAIN fn.occ /\ Apart(fn.occ, a, b) /\ a < b
              /\ b \in Line(fn.occ, b) /\ b \notin Line(fn.occ, a)
            BY OrderFacts DEF IsOrder, Line, Apart
        <3>2. Apart(fn.occ, c, b)
            BY <1>2, <1>5, <3>1, ApartFacts
        <3> QED BY <1>2, <1>5, <3>1, <3>2, InsideInTime
    <2>7. fn.occ[e].start <= fn.occ[b].start
        <3>1. /\ fn.occ[e].start \in Nat /\ fn.occ[e].end \in Nat /\ fn.occ[c].end \in Nat
              /\ fn.occ[e].start < fn.occ[e].end /\ fn.occ[e].end <= fn.occ[c].end
            BY <1>5, <2>3, <2>5, TimeFacts
        <3> QED BY <2>6, <3>1, OrderFacts
    <2> HIDE DEF c
    <2> QED BY <1>2, <1>5, <1>6, <2>2, <2>7, EndsInScope
<1> HIDE DEF c, e, h
<1>7. CASE fw = SetWaitAt(fn, a, e) /\ KindOf(fn, fn.occ[c].parent) = "loop"
    <2>1. fw = <<h, e>> /\ ~IsBackward(fn, h, e)
        BY <1>6, <1>7
    <2>2. s = AtOccurrences(fn, a, b, fw)
        BY <1>1, <2>1 DEF FixedSetWaitOcc, StaysInVisit
    <2>3. CASE InSiblingIfs(fn, a, b)
        <3>1. s = At(<<a, b>>, TRUE, TrueBranchOf(fn, a), TrueBranchOf(fn, b))
            BY <2>2, <2>3 DEF AtOccurrences
        <3>2. /\ s.set = a /\ s.wait = b
              /\ s.setIf = TrueBranchOf(fn, a) /\ s.waitIf = TrueBranchOf(fn, b)
            BY <3>1 DEF At
        <3> QED BY <2>3, <3>2, AtTheAccesses DEF GoodSync
    <2>4. CASE ~InSiblingIfs(fn, a, b)
        <3>1. fw = <<fw[1], fw[2]>> /\ fw[1] = h /\ fw[2] = e
            BY <2>1
        <3> QED BY <1>6, <1>7, <2>1, <2>2, <2>4, <3>1, InOneScope
    <2> QED BY <2>3, <2>4
<1>8. CASE fw = sw
    <2>1. CASE StaysInVisit(fn, sw, num)
        <3>1. KindOf(fn, fn.occ[c].parent) = "if"
            BY <2>1 DEF StaysInVisit, UnderCondition, c
        <3>2. s = AtOccurrences(fn, a, e, SetWaitAt(fn, a, e))
            BY <1>1, <1>8, <2>1 DEF FixedSetWaitOcc, c, e
        <3> DEFINE he == <<h, e>>
        <3>3. he = <<he[1], he[2]>> /\ he[1] = h /\ he[2] = e
            OBVIOUS
        <3>4. s = AtOccurrences(fn, a, e, he)
            BY <1>6, <3>1, <3>2
        <3>5. /\ ~IsBackward(fn, he[1], he[2]) /\ ~InSiblingIfs(fn, a, e)
              /\ AroundBoth(fn, a, b, OutsideLoops(fn, he)[1], OutsideLoops(fn, he)[2])
              /\ BarrierAfter(fn, a, b, OutsideLoops(fn, he)[2])
            BY <1>6, <3>1
        <3> HIDE DEF he
        <3> QED BY <3>3, <3>4, <3>5, InOneScope
    <2>2. CASE ~StaysInVisit(fn, sw, num)
        <3>1. s = AtOccurrences(fn, a, b, sw)
            BY <1>1, <1>8, <2>2 DEF FixedSetWaitOcc
        <3> QED BY <1>4, <3>1, AtOccurrencesIsGood
    <2> QED BY <2>1, <2>2
<1> QED BY <1>3, <1>7, <1>8

LEMMA UnlikelyFacts ==
    ASSUME NEW fn, WellBuilt(fn), NEW k \in DOMAIN fn.occ,
           NEW u, u = UnlikelyCondition(fn, k), u # Top
    PROVE  /\ u \in fn.occ[k].up /\ u + 1 \in fn.occ[k].up /\ u + 1 # 1
           /\ KindOf(fn, u) = "if" /\ fn.occ[u + 1].parent = u
<1> DEFINE S == {c \in fn.occ[k].up :
                    fn.op[fn.occ[c].op].flag /\ KindOf(fn, c) = "if" /\ (c + 1) \in fn.occ[k].up}
           n == k - 1
<1>1. S \in SUBSET (1 .. n) /\ n \in Int
    BY Built, TreeFacts DEF IsTree
<1>2. u = Deepest(S)
    BY DEF UnlikelyCondition
<1>3. u \in S
    <2> HIDE DEF S, n
    <2> QED BY <1>1, <1>2, DeepestIs
<1>4. u \in DOMAIN fn.occ /\ u \in Nat \ {0}
    BY <1>3, Built, TreeFacts DEF Line
<1>5. fn.occ[u + 1].parent = u
    BY <1>3, <1>4 DEF WellBuilt, IsBranching
<1> QED BY <1>3, <1>4, <1>5

(* Wherever getSetWaitOcc and getFixedSetWaitOcc put them, through branches *)
(* that are unlikely, loops and the visits of loops, the set is not before  *)
(* the first access ends, the wait not after the second one starts, and     *)
(* both are in scopes around the accesses.                                  *)
THEOREM SetWaitOccIsGood ==
    ASSUME NEW fn, WellBuilt(fn), NEW a, NEW b, IsOrder(fn, a, b), NEW num
    PROVE  GoodSync(fn, a, b, SetWaitOcc(fn, a, b, num))
<1> DEFINE Alone(u, other) ==
               /\ u # Top /\ u \notin fn.occ[other].up
               /\ ParentLoopOcc(fn, u) \in fn.occ[other].up \cup {Top}
           ua == UnlikelyCondition(fn, a)
           ub == UnlikelyCondition(fn, b)
           ab == InsideUnlikely(fn, a, b)
           ea == ScopeEnd(fn, ua + 1)
           sb == ScopeBegin(ub + 1)
<1>1. IsTree(fn.occ) /\ IsTimed(fn.occ) /\ IsAccess(fn, a) /\ IsAccess(fn, b)
    BY Built DEF IsOrder
<1>2. /\ a \in DOMAIN fn.occ /\ b \in DOMAIN fn.occ /\ a < b /\ IsLeaf(fn, a) /\ IsLeaf(fn, b)
      /\ a \in Line(fn.occ, a) /\ b \in Line(fn.occ, b)
    BY <1>1, AccessFacts DEF IsOrder, Line
<1>3. SetWaitOcc(fn, a, b, num) = SetWaitOf(fn, ab, num)
    BY DEF SetWaitOcc
<1>4. /\ Alone(ua, b) => ab = <<a, ea>>
      /\ ~Alone(ua, b) /\ Alone(ub, a) => ab = <<sb, b>>
      /\ ~Alone(ua, b) /\ ~Alone(ub, a) => ab = <<a, b>>
    BY DEF InsideUnlikely
<1> HIDE DEF ab
<1>5. CASE Alone(ua, b)
    <2> DEFINE c == ua + 1
               h == Toward(fn.occ, c, a)
               he == <<h, ea>>
    <2>1. /\ ua \in fn.occ[a].up /\ c \in fn.occ[a].up /\ c # 1 /\ ua \notin fn.occ[b].up
          /\ KindOf(fn, ua) = "if" /\ fn.occ[c].parent = ua
        BY <1>2, <1>5, UnlikelyFacts
    <2> HIDE DEF ua
    <2>2. c \in DOMAIN fn.occ /\ ua \in DOMAIN fn.occ
        BY <1>1, <1>2, <2>1, TreeFacts DEF Line
    <2>3. Apart(fn.occ, ua, b)
        <3>1. b \notin fn.occ[ua].up /\ ua # b
            BY <1>2, <2>1, <2>2, LeafFacts
        <3> QED BY <2>1, <3>1 DEF Apart
    <2>4. fn.occ[ua].end < fn.occ[b].start
        BY <1>1, <1>2, <2>1, <2>3, InsideInTime DEF Line
    <2>5. ea \in DOMAIN fn.occ /\ fn.occ[ea].parent = c /\ KindOf(fn, ea) = "end"
        BY <2>1, <2>2, ScopeFacts
    <2>6. ea # 1
        BY <2>5, KindsOfLeaves, LeafFacts
    <2>7. ua \in Line(fn.occ, ea)
        <3>1. c \in fn.occ[ea].up /\ ua \in fn.occ[c].up
            BY <1>1, <2>1, <2>2, <2>5, <2>6, ParentFacts
        <3> QED BY <1>1, <2>5, <3>1, TreeFacts DEF Line
    <2>8. fn.occ[ea].start <= fn.occ[b].start
        <3>1. /\ fn.occ[ea].start \in Nat /\ fn.occ[ea].end \in Nat /\ fn.occ[ua].end \in Nat
              /\ fn.occ[ea].start < fn.occ[ea].end /\ fn.occ[ea].end <= fn.occ[ua].end
            BY <1>1, <2>5, <2>7, TimeFacts
        <3> QED BY <2>4, <3>1, OrderFacts
    <2>9. he = <<he[1], he[2]>> /\ he[1] = h /\ he[2] = ea
        OBVIOUS
    <2>10. KindOf(fn, fn.occ[c].parent) \in {"loop", "if"}
        BY <2>1
    <2>11. ab = <<a, ea>>
        BY <1>4, <1>5
    <2> HIDE DEF c
    <2>12. /\ SetWaitAt(fn, a, ea) = he /\ ~IsBackward(fn, h, ea)
           /\ KindOf(fn, fn.occ[h].parent) = "scope" /\ ~InSiblingIfs(fn, a, ea)
           /\ AroundBoth(fn, a, b, OutsideLoops(fn, he)[1], OutsideLoops(fn, he)[2])
           /\ BarrierAfter(fn, a, b, OutsideLoops(fn, he)[2])
        <3>1. ea = ScopeEnd(fn, c)
            BY DEF c
        <3> HIDE DEF ea
        <3> QED BY <1>1, <2>1, <2>8, <2>10, <3>1, EndsInScope
    <2> HIDE DEF he, h, ea
    <2> QED BY <1>3, <2>9, <2>11, <2>12, FixedInOneScope
<1>6. CASE ~Alone(ua, b) /\ Alone(ub, a)
    <2> DEFINE c == ub + 1
               h == Toward(fn.occ, c, b)
               sh == <<sb, h>>
    <2>1. /\ ub \in fn.occ[b].up /\ c \in fn.occ[b].up /\ c # 1 /\ ub \notin fn.occ[a].up
          /\ KindOf(fn, ub) = "if" /\ fn.occ[c].parent = ub
        BY <1>2, <1>6, UnlikelyFacts
    <2>2. ab = <<sb, b>>
        BY <1>4, <1>6
    <2> HIDE DEF ub
    <2>3. c \in DOMAIN fn.occ /\ ub \in DOMAIN fn.occ
        BY <1>1, <1>2, <2>1, TreeFacts DEF Line
    <2>4. Apart(fn.occ, a, ub)
        <3>1. a \notin fn.occ[ub].up /\ ub # a
            BY <1>2, <2>1, <2>3, LeafFacts
        <3> QED BY <2>1, <3>1 DEF Apart
    <2>5. fn.occ[a].end < fn.occ[ub].start
        BY <1>1, <1>2, <2>1, <2>4, InsideInTime DEF Line
    <2>6. fn.occ[a].end < fn.occ[c].start
        <3>1. ub \in Line(fn.occ, c)
            BY <1>1, <2>1, <2>3, ParentFacts DEF Line
        <3>2. /\ fn.occ[ub].start \in Nat /\ fn.occ[c].start \in Nat
              /\ fn.occ[ub].start <= fn.occ[c].start
            BY <1>1, <2>3, <3>1, TimeFacts
        <3> QED BY <2>5, <3>2, OrderFacts
    <2>7. sh = <<sh[1], sh[2]>> /\ sh[1] = sb /\ sh[2] = h
        OBVIOUS
    <2>8. KindOf(fn, fn.occ[c].parent) \in {"loop", "if"}
        BY <2>1
    <2> HIDE DEF c
    <2>9. /\ SetWaitAt(fn, sb, b) = sh /\ ~IsBackward(fn, sb, h)
           /\ KindOf(fn, fn.occ[sb].parent) = "scope" /\ ~InSiblingIfs(fn, sb, b)
           /\ AroundBoth(fn, a, b, OutsideLoops(fn, sh)[1], OutsideLoops(fn, sh)[2])
           /\ BarrierAfter(fn, a, b, OutsideLoops(fn, sh)[2])
        <3>1. sb = ScopeBegin(c)
            BY DEF c
        <3> HIDE DEF sb
        <3> QED BY <1>1, <2>1, <2>6, <2>8, <3>1, StartsInScope
    <2> HIDE DEF sh, h, sb
    <2> QED BY <1>3, <2>7, <2>2, <2>9, FixedInOneScope
<1>7. CASE ~Alone(ua, b) /\ ~Alone(ub, a)
    BY <1>3, <1>4, <1>7, SetWaitOfIsGood
<1> QED BY <1>5, <1>6, <1>7

(* Wherever getBarrierWaitOcc puts a barrier, it is between the two         *)
(* accesses and in a scope of one of them.                                  *)
THEOREM BarrierWaitOccIsGood ==
    ASSUME NEW fn, WellBuilt(fn), NEW a, NEW b, IsOrder(fn, a, b),
           NEW z, z = BarrierWaitOcc(fn, a, b)
    PROVE  /\ z \in DOMAIN fn.occ \ {1} /\ fn.occ[z].parent \in fn.occ[a].up \cup fn.occ[b].up
           /\ fn.occ[a].end <= fn.occ[z].start /\ fn.occ[z].start <= fn.occ[b].start
<1> DEFINE w == SetWaitOcc(fn, a, b, 1).wait
           S == {x \in Line(fn.occ, b) :
                    x > w /\ KindOf(fn, x) # "if" /\ ~UnderCondition(fn, x)}
<1>1. /\ IsTree(fn.occ) /\ IsTimed(fn.occ) /\ b \in DOMAIN fn.occ /\ b # 1
      /\ fn.occ[a].end \in Nat /\ fn.occ[b].start \in Nat
    BY Built, OrderFacts
<1>2. /\ w \in DOMAIN fn.occ \ {1} /\ fn.occ[w].parent \in fn.occ[a].up \cup fn.occ[b].up
      /\ fn.occ[w].start <= fn.occ[b].start /\ BarrierAfter(fn, a, b, w)
    BY SetWaitOccIsGood DEF GoodSync, AroundBoth
<1>3. z = IF w \in fn.occ[b].up THEN IF w = b \/ KindOf(fn, w) # "if" THEN w ELSE Min(S)
          ELSE w
    BY DEF BarrierWaitOcc, TowardOperation, IntoCondition, Line
<1> HIDE DEF w
<1>4. CASE w \notin fn.occ[b].up \/ KindOf(fn, w) # "if"
    BY <1>2, <1>3, <1>4 DEF BarrierAfter
<1>5. CASE w \in fn.occ[b].up /\ KindOf(fn, w) = "if"
    <2>1. w # b /\ w < b
        BY <1>1, <1>5, TreeFacts DEF Line, IsTree
    <2>2. b \in S
        <3>1. KindOf(fn, b) = "rw" /\ KindOf(fn, fn.occ[b].parent) # "if"
            BY AccessFacts DEF IsOrder, IsAccess
        <3> QED BY <2>1, <3>1 DEF Line, UnderCondition
    <2>3. S \in SUBSET Nat
        BY <1>1, TreeFacts
    <2>4. z \in S
        <3>1. \E x \in S : \A y \in S : x <= y
            <4> HIDE DEF S
            <4> QED BY <2>2, <2>3, Least
        <3>2. z = Min(S)
            BY <1>3, <1>5, <2>1
        <3> HIDE DEF S
        <3> QED BY <3>1, <3>2 DEF Min
    <2>5. z \in DOMAIN fn.occ /\ z \in Nat /\ w \in Nat /\ z # 1 /\ w \in Line(fn.occ, z)
        <3>1. w \in Line(fn.occ, b) /\ z \in Line(fn.occ, b) /\ z > w
            BY <1>5, <2>4 DEF Line
        <3> QED BY <1>1, <3>1, TreeFacts DEF Line
    <2>6. fn.occ[z].parent \in fn.occ[b].up
        <3>1. fn.occ[z].parent \in fn.occ[z].up
            BY <1>1, <2>5, ParentFacts
        <3> QED BY <1>1, <2>4, <3>1, TreeFacts DEF Line
    <2>7. fn.occ[z].start \in Nat /\ fn.occ[z].start <= fn.occ[b].start
        BY <1>1, <2>4, TimeFacts
    <2>8. fn.occ[w].start \in Nat /\ fn.occ[w].start <= fn.occ[z].start
        BY <1>1, <2>5, TimeFacts
    <2>9. fn.occ[a].end <= fn.occ[z].start
        BY <1>1, <1>2, <2>4, <2>7, <2>8 DEF BarrierAfter
    <2> QED BY <2>5, <2>6, <2>7, <2>9
<1> QED BY <1>4, <1>5
-----------------------------------------------------------------------------
(* getMultiBufferEventIdNum, of two accesses that conflict, is a number,    *)
(* and getMultiBufferEventIdInfo asks for at least one event id.            *)
LEMMA MultiBufferIs ==
    ASSUME NEW x, NEW y, x.wr \in Seq(Int), y.wr \in Seq(Int), Conflicting(x, y) # {}
    PROVE  MultiBufferEventIdNum(x, y) \in Nat
<1> DEFINE cs == Conflicting(x, y)
           S  == UNION {(IF c[1] = x.wr THEN {Len(c[1])} ELSE {}) \cup
                        (IF c[2] = y.wr THEN {Len(c[2])} ELSE {}) : c \in cs}
<1>1. S \subseteq {Len(x.wr), Len(y.wr)}
    OBVIOUS
<1>2. S \in SUBSET Nat
    <2>1. Len(x.wr) \in Nat /\ Len(y.wr) \in Nat
        OBVIOUS
    <2> HIDE DEF S
    <2> QED BY <1>1, <2>1
<1>3. S # {}
    <2>1. PICK c \in cs : TRUE
        OBVIOUS
    <2>2. c[1] = x.wr \/ c[2] = y.wr
        BY <2>1 DEF Conflicting, Operands
    <2> DEFINE N(d) == (IF d[1] = x.wr THEN {Len(d[1])} ELSE {}) \cup
                       (IF d[2] = y.wr THEN {Len(d[2])} ELSE {})
    <2>3. N(c) # {}
        BY <2>2
    <2>4. N(c) \subseteq S
        <3> HIDE DEF cs
        <3> QED BY <2>1
    <2> QED BY <2>3, <2>4
<1> HIDE DEF S
<1>4. Min(S) \in Nat
    BY <1>2, <1>3, Least DEF Min
<1> DEFINE period == FoldSet(LAMBDA c, n : Lcm(n, Lcm(Len(c[1]), Len(c[2]))), 1, cs)
<1> HIDE DEF period
<1> DEFINE T == {n \in 1 .. Min(S) :
                    \A c \in Operands(x, y) : ~ConflictUnderIds(c, Lcm(period, n), n)}
<1>5. MultiBufferEventIdNum(x, y) = Deepest(T)
    BY DEF MultiBufferEventIdNum, S, period
<1>6. T \in SUBSET (1 .. Min(S)) /\ Min(S) \in Int
    BY <1>4
<1> HIDE DEF T
<1> QED BY <1>5, <1>6, DeepestIs

LEMMA EventIdNumIs ==
    ASSUME NEW fn, WellBuilt(fn), NEW o, IsOrder(fn, o.a, o.b), NeedsSync(fn, o)
    PROVE  EventIdNum(fn, o.a, o.b) \in Nat \ {0}
<1> DEFINE x == fn.occ[o.a].op
           y == fn.occ[o.b].op
<1>1. x \in DOMAIN fn.op /\ y \in DOMAIN fn.op /\ IsRw(fn.op, x) /\ IsRw(fn.op, y)
    BY OccFacts DEF IsOrder, IsAccess, KindOf, IsRw
<1>2. fn.op[x].wr \in Seq(Int) /\ fn.op[y].wr \in Seq(Int)
    BY <1>1 DEF WellBuilt
<1>3. Conflicting(fn.op[x], fn.op[y]) # {}
    BY DEF NeedsSync
<1> DEFINE n == MultiBufferEventIdNum(fn.op[x], fn.op[y])
<1>4. n \in Nat
    BY <1>2, <1>3, MultiBufferIs
<1>5. EventIdNum(fn, o.a, o.b) = 1 \/ (EventIdNum(fn, o.a, o.b) = n /\ n > 1)
    BY DEF EventIdNum
<1> HIDE DEF n
<1> QED BY <1>4, <1>5
-----------------------------------------------------------------------------
(* A plan is made for an order that needs sync.                             *)
IsPlan(fn, p) ==
    \E o : /\ IsOrder(fn, o.a, o.b) /\ o.useless \in BOOLEAN /\ NeedsSync(fn, o)
           /\ p = Plan(fn, o)

RwPipes(fn) == {fn.op[x].pipe : x \in {y \in DOMAIN fn.op : IsRw(fn.op, y)}}

LEMMA PlanFacts ==
    ASSUME NEW fn, WellBuilt(fn), NEW p, IsPlan(fn, p)
    PROVE  /\ IsOrder(fn, p.a, p.b) /\ p.useless \in BOOLEAN /\ p.num \in Nat \ {0}
           /\ p.src \in RwPipes(fn) /\ p.dst \in RwPipes(fn)
           /\ p.bar = BarrierWaitOcc(fn, p.a, p.b)
           /\ p.occBackward \in BOOLEAN /\ p.backward \in BOOLEAN
           /\ p.inner \in BOOLEAN
           /\ p.kind = "barrier" => p.src = p.dst /\ p.wait = p.bar
           /\ p.kind \in {"barrier", "setwait"}
<1>1. PICK o : /\ IsOrder(fn, o.a, o.b) /\ o.useless \in BOOLEAN /\ NeedsSync(fn, o)
               /\ p = Plan(fn, o)
    BY DEF IsPlan
<1> DEFINE num == EventIdNum(fn, o.a, o.b)
           sw  == SetWaitOcc(fn, o.a, o.b, num)
<1>2. num \in Nat \ {0}
    BY <1>1, EventIdNumIs
<1>3. PipeOf(fn, o.a) \in RwPipes(fn) /\ PipeOf(fn, o.b) \in RwPipes(fn)
    BY <1>1, OccFacts DEF IsOrder, IsAccess, KindOf, IsRw, RwPipes, PipeOf
<1> HIDE DEF num
<1>4. CASE PipeOf(fn, o.a) = PipeOf(fn, o.b)
    <2>1. p = BarrierPlan(fn, o, BarrierWaitOcc(fn, o.a, o.b), num)
        BY <1>1, <1>4 DEF Plan, ConflictPlan, num
    <2>2. IsBackward(fn, o.a, o.b) \in BOOLEAN
        BY DEF IsBackward
    <2>3. /\ p.a = o.a /\ p.b = o.b /\ p.useless = o.useless /\ p.num = num
          /\ p.src = PipeOf(fn, o.a) /\ p.dst = PipeOf(fn, o.b)
          /\ p.bar = BarrierWaitOcc(fn, o.a, o.b) /\ p.wait = p.bar
          /\ p.occBackward = IsBackward(fn, o.a, o.b)
          /\ p.backward = FALSE /\ p.inner = FALSE /\ p.kind = "barrier"
        BY <2>1 DEF BarrierPlan
    <2> QED BY <1>1, <1>2, <1>3, <1>4, <2>2, <2>3
<1>5. CASE PipeOf(fn, o.a) # PipeOf(fn, o.b)
    <2>1. p = SetWaitPlanAt(fn, o, sw, num)
        BY <1>1, <1>5 DEF Plan, ConflictPlan, num
    <2> HIDE DEF sw
    <2>2. IsBackward(fn, o.a, o.b) \in BOOLEAN /\ IsBackward(fn, sw.set, sw.wait) \in BOOLEAN
        BY DEF IsBackward
    <2>3. /\ p.a = o.a /\ p.b = o.b /\ p.useless = o.useless /\ p.num = num
          /\ p.src = PipeOf(fn, o.a) /\ p.dst = PipeOf(fn, o.b)
          /\ p.bar = BarrierWaitOcc(fn, o.a, o.b)
          /\ p.occBackward = IsBackward(fn, o.a, o.b)
          /\ p.backward = IsBackward(fn, sw.set, sw.wait)
          /\ p.inner = (~(fn.occ[sw.set].op < fn.occ[sw.wait].op) /\ p.backward)
          /\ p.kind = "setwait"
        BY <2>1 DEF SetWaitPlanAt, SetWaitPlan, Judged
    <2>4. p.inner \in BOOLEAN
        BY <2>3
    <2> QED BY <1>1, <1>2, <1>3, <2>2, <2>3, <2>4
<1> QED BY <1>4, <1>5

(* What a plan for a set and a wait says, and what the assertions of        *)
(* handleSetWaitConflict add to it.                                         *)
LEMMA SetWaitPlanFacts ==
    ASSUME NEW fn, WellBuilt(fn), NEW p, IsPlan(fn, p), p.kind = "setwait"
    PROVE  /\ p.src # p.dst
           /\ AroundBoth(fn, p.a, p.b, p.set, p.wait)
           /\ p.inside \in BOOLEAN
           /\ p.inside => /\ p.set = p.a /\ p.wait = p.b /\ InSiblingIfs(fn, p.a, p.b)
                          /\ p.setIf = TrueBranchOf(fn, p.a)
                          /\ p.waitIf = TrueBranchOf(fn, p.b)
           /\ p.backward = IsBackward(fn, p.set, p.wait)
           /\ p.inner = (~(fn.occ[p.set].op < fn.occ[p.wait].op) /\ p.backward)
           /\ p.occBackward = IsBackward(fn, p.a, p.b)
           /\ p.loop = IF p.occBackward THEN LoopOfPair(fn, p.a, p.b) ELSE Top
           /\ p.ok => PlacementAsserts(fn, p, fn.occ[p.set].op < fn.occ[p.wait].op)
<1>1. PICK o : /\ IsOrder(fn, o.a, o.b) /\ o.useless \in BOOLEAN /\ NeedsSync(fn, o)
               /\ p = Plan(fn, o)
    BY DEF IsPlan
<1> DEFINE num == EventIdNum(fn, o.a, o.b)
           sw  == SetWaitOcc(fn, o.a, o.b, num)
<1>2. GoodSync(fn, o.a, o.b, sw)
    BY <1>1, SetWaitOccIsGood
<1>3. PipeOf(fn, o.a) # PipeOf(fn, o.b)
    BY <1>1 DEF Plan, ConflictPlan, BarrierPlan
<1>4. p = SetWaitPlanAt(fn, o, sw, num)
    BY <1>1, <1>3 DEF Plan, ConflictPlan
<1>5. sw.inside \in BOOLEAN
    <2>1. \A a, b, s : AtOccurrences(fn, a, b, s).inside \in BOOLEAN
        BY DEF AtOccurrences, At
    <2> QED BY <2>1 DEF SetWaitOcc, SetWaitOf, FixedSetWaitOcc
<1> HIDE DEF num, sw
<1>6. /\ p.a = o.a /\ p.b = o.b /\ p.set = sw.set /\ p.wait = sw.wait
      /\ p.src = PipeOf(fn, o.a) /\ p.dst = PipeOf(fn, o.b)
      /\ p.inside = sw.inside /\ p.setIf = sw.setIf /\ p.waitIf = sw.waitIf
      /\ p.occBackward = IsBackward(fn, o.a, o.b)
      /\ p.backward = IsBackward(fn, sw.set, sw.wait)
      /\ p.inner = (~(fn.occ[sw.set].op < fn.occ[sw.wait].op) /\ p.backward)
      /\ p.loop = IF p.occBackward THEN LoopOfPair(fn, o.a, o.b) ELSE Top
    BY <1>4 DEF SetWaitPlanAt, SetWaitPlan, Judged
<1>7. p.ok => PlacementAsserts(fn, p, fn.occ[p.set].op < fn.occ[p.wait].op)
    <2> DEFINE fwd == fn.occ[sw.set].op < fn.occ[sw.wait].op
               q == [kind |-> "setwait", a |-> o.a, b |-> o.b, useless |-> o.useless, order |-> o,
                     src |-> PipeOf(fn, o.a), dst |-> PipeOf(fn, o.b),
                     num |-> num, set |-> sw.set, wait |-> sw.wait,
                     bar |-> BarrierWaitOcc(fn, o.a, o.b),
                     inside |-> sw.inside, setIf |-> sw.setIf, waitIf |-> sw.waitIf,
                     occBackward |-> IsBackward(fn, o.a, o.b),
                     backward |-> IsBackward(fn, sw.set, sw.wait),
                     inner |-> ~fwd /\ IsBackward(fn, sw.set, sw.wait),
                     loop |-> IF IsBackward(fn, o.a, o.b) THEN LoopOfPair(fn, o.a, o.b) ELSE Top,
                     ok |-> TRUE]
               holds == PlacementAsserts(fn, q, fwd)
    <2>1. p = Judged(fn, q, fwd)
        BY <1>4 DEF SetWaitPlanAt, SetWaitPlan
    <2>2. p = [q EXCEPT !.ok = holds]
        BY <2>1 DEF Judged
    <2>3. p.ok = holds
        <3> HIDE DEF holds
        <3> QED BY <2>2
    <2>4. /\ p.backward = q.backward /\ p.inside = q.inside /\ p.set = q.set /\ p.wait = q.wait
          /\ p.loop = q.loop /\ p.inner = q.inner /\ p.occBackward = q.occBackward
        <3> HIDE DEF holds
        <3> QED BY <2>2
    <2> HIDE DEF q
    <2>5. holds <=> PlacementAsserts(fn, p, fwd)
        BY <2>4 DEF PlacementAsserts
    <2> QED BY <1>6, <2>3, <2>5
<1> QED BY <1>2, <1>3, <1>5, <1>6, <1>7 DEF GoodSync
-----------------------------------------------------------------------------
(* The two visits of a loop.                                                *)
LEMMA StartsFollow ==
    ASSUME NEW t, IsTree(t), IsTimed(t), NEW j \in DOMAIN t, NEW k \in DOMAIN t
    PROVE  /\ j < k => t[j].start < t[k].start
           /\ t[j].end <= t[k].start => j < k
<1>1. /\ j \in Nat \ {0} /\ k \in Nat \ {0}
      /\ t[j].start \in Nat /\ t[j].end \in Nat /\ t[j].start < t[j].end
      /\ t[k].start \in Nat /\ t[k].end \in Nat /\ t[k].start < t[k].end
    BY TreeFacts, TimeFacts
<1>2. \A x, y \in DOMAIN t : x < y => t[x].start < t[y].start
    <2> SUFFICES ASSUME NEW x \in DOMAIN t, NEW y \in DOMAIN t, x < y
                 PROVE  t[x].start < t[y].start
        OBVIOUS
    <2>1. x \in 1 .. y - 1
        BY TreeFacts
    <2>2. t[x].start \in Nat /\ t[x].end \in Nat /\ t[x].start < t[x].end /\ t[y].start \in Nat
        BY TimeFacts
    <2>3. x \in t[y].up \/ t[x].end < t[y].start
        BY <2>1 DEF IsTimed
    <2>4. x \in t[y].up => t[x].start < t[y].start
        BY DEF IsTimed
    <2> QED BY <2>2, <2>3, <2>4
<1> QED BY <1>1, <1>2

LEMMA SameParent ==
    ASSUME NEW t, IsTree(t), NEW k \in DOMAIN t, NEW x \in Line(t, k), NEW y \in Line(t, k),
           t[x].parent = t[y].parent
    PROVE  x = y
<1>1. ASSUME NEW v \in Line(t, k), NEW w \in Line(t, k), v < w, t[v].parent = t[w].parent
      PROVE  FALSE
    <2>1. v \in DOMAIN t /\ w \in DOMAIN t /\ v \in Nat \ {0} /\ w \in Nat \ {0} /\ v \in t[w].up
        BY <1>1, TreeFacts
    <2>2. w # 1
        BY <1>1, <2>1
    <2>3. v <= t[w].parent /\ t[w].parent \in Nat \ {0}
        BY <2>1, <2>2, ParentFacts
    <2>4. v # 1
        BY <1>1, <2>1, <2>3, RootFacts DEF Top
    <2>5. t[v].parent < v /\ t[v].parent \in Nat
        BY <2>1, <2>4, ParentFacts
    <2> QED BY <1>1, <2>1, <2>3, <2>5
<1>2. x \in Nat /\ y \in Nat
    BY TreeFacts
<1> QED BY <1>1, <1>2

LEMMA OpParent ==
    ASSUME NEW fn, WellBuilt(fn), NEW k \in DOMAIN fn.occ, k # 1,
           NEW x, x = fn.occ[k].op, NEW l, l = fn.occ[k].parent
    PROVE  fn.op[x].parent = fn.occ[l].op
<1> DEFINE L == fn.occ[l].op
           S == fn.op[x].up
<1>1. /\ IsTree(fn.occ) /\ IsTree(fn.op) /\ x \in DOMAIN fn.op
      /\ S = {fn.occ[y].op : y \in fn.occ[k].up}
    BY Built, OccFacts
<1>2. /\ l \in fn.occ[k].up /\ l \in DOMAIN fn.occ /\ \A y \in fn.occ[k].up : y <= l
      /\ l \in Nat
    BY <1>1, ParentFacts
<1>6. \A z \in S : z \in Nat
    <2> DEFINE u == fn.op
    <2>1. IsTree(u) /\ x \in DOMAIN u
        BY <1>1
    <2> HIDE DEF u
    <2>2. \A z \in u[x].up : z \in Line(u, x) /\ z \in Nat
        BY <2>1, TreeFacts DEF Line
    <2> QED BY <2>2 DEF u
<1>3. L \in S /\ \A y \in S : y <= L
    <2>1. ASSUME NEW y \in fn.occ[k].up
          PROVE  fn.occ[y].op <= L
        <3>1. y \in Nat /\ y <= l /\ y \in Line(fn.occ, k) /\ l \in Line(fn.occ, k)
              /\ y \in DOMAIN fn.occ
            BY <1>1, <1>2, TreeFacts DEF Line
        <3>2. fn.occ[y].op \in Nat /\ L \in Nat
            BY <1>1, <1>2, <1>6
        <3>3. y < l => fn.occ[y].op < L
            BY <3>1, OccFacts
        <3> QED BY <1>2, <3>1, <3>2, <3>3
    <2> QED BY <1>1, <1>2, <2>1
<1>4. x # 1
    BY OpFacts
<1>5. /\ fn.op[x].parent \in S /\ fn.op[x].parent \in Nat
      /\ \A y \in S : y <= fn.op[x].parent
    BY <1>1, <1>4, ParentFacts
<1> DEFINE p == fn.op[x].parent
<1> HIDE DEF L, S, p
<1>7. L \in Nat /\ p \in Nat /\ p <= L /\ L <= p
    BY <1>3, <1>5, <1>6 DEF p
<1>8. p = L
    BY <1>7
<1> QED BY <1>8 DEF p, L

AreVisits(l, len, split, last, n) ==
    /\ l \in Nat /\ len \in Nat /\ last \in l + 1 .. len + 1 /\ split \in l + 2 .. last - 1
    /\ n = split - (l + 1) /\ last = split + n

LEMMA VisitNumbers ==
    ASSUME NEW l, NEW len, NEW split, NEW last, NEW n, AreVisits(l, len, split, last, n)
    PROVE  /\ n \in Nat \ {0} /\ split \in Nat /\ split = l + 1 + n /\ l + 1 < split
           /\ l + 1 \in 1 .. len /\ split \in 1 .. len
           /\ \A k \in l + 1 .. split - 1 : k + n \in split .. split + n - 1
           /\ \A k \in split .. split + n - 1 : k - n \in l + 1 .. split - 1 /\ (k - n) + n = k
           /\ \A k \in l + 1 .. split + n - 1 : k \in 1 .. len
           /\ l + 1 .. last - 1 = l + 1 .. split + n - 1
<1>1. /\ l \in Nat /\ len \in Nat /\ last \in l + 1 .. len + 1 /\ split \in l + 2 .. last - 1
      /\ n = split - (l + 1) /\ last = split + n
    BY DEF AreVisits
<1>2. last \in Nat /\ last <= len + 1
    BY <1>1
<1>3. split \in Nat /\ l + 2 <= split /\ split <= last - 1
    BY <1>1, <1>2
<1>4. n \in Int /\ split = l + 1 + n
    BY <1>1, <1>3
<1>5. n \in Nat \ {0}
    BY <1>1, <1>3, <1>4
<1>6. \A k \in l + 1 .. split - 1 : k + n \in split .. split + n - 1
    BY <1>1, <1>3, <1>4
<1>7. \A k \in split .. split + n - 1 : k - n \in l + 1 .. split - 1 /\ (k - n) + n = k
    BY <1>1, <1>3, <1>4
<1>8. \A k \in l + 1 .. split + n - 1 : k \in 1 .. len
    BY <1>1, <1>2, <1>3, <1>4
<1> QED BY <1>1, <1>2, <1>3, <1>4, <1>5, <1>6, <1>7, <1>8

LEMMA VisitFacts ==
    ASSUME NEW fn, WellBuilt(fn), NEW l \in DOMAIN fn.occ, KindOf(fn, l) = "loop",
           NEW n, n = Shift(fn, l), NEW split, split = fn.occ[l].split
    PROVE  /\ n \in Nat \ {0} /\ split \in Nat /\ split = l + 1 + n /\ l \in Nat
           /\ l + 1 \in DOMAIN fn.occ /\ split \in DOMAIN fn.occ
           /\ \A k \in DOMAIN fn.occ : l \in fn.occ[k].up <=> k \in l + 1 .. split + n - 1
           /\ \A k \in l + 1 .. split + n - 1 : k \in DOMAIN fn.occ
           /\ \A k \in l + 1 .. split - 1 :
                 /\ k + n \in split .. split + n - 1 /\ fn.occ[k + n].op = fn.occ[k].op
                 /\ fn.occ[k + n].start - fn.occ[k].start
                        = fn.occ[split].start - fn.occ[l + 1].start
                 /\ fn.occ[k + n].end - fn.occ[k].end
                        = fn.occ[split].start - fn.occ[l + 1].start
           /\ \A k \in split .. split + n - 1 : k - n \in l + 1 .. split - 1 /\ (k - n) + n = k
           /\ fn.occ[l + 1].start < fn.occ[split].start
<1> DEFINE last == fn.occ[l].last
           len  == Len(fn.occ)
<1>1. /\ IsTree(fn.occ) /\ IsTimed(fn.occ) /\ l \in Nat /\ DOMAIN fn.occ = 1 .. len
    BY Built, TreeFacts DEF IsTree
<1>2. last \in l + 1 .. len + 1 /\ len \in Nat
    BY <1>1 DEF IsTimed, IsTree
<1>3. \A k \in DOMAIN fn.occ : l \in fn.occ[k].up <=> k \in l + 1 .. last - 1
    BY <1>1 DEF IsTimed
<1>4. split \in l + 2 .. last - 1 /\ last = split + n
    BY DEF WellBuilt, IsVisitedTwice
<1>5. \A j \in l + 1 .. split - 1 :
              /\ fn.occ[j + n].op = fn.occ[j].op
              /\ fn.occ[j + n].start - fn.occ[j].start
                        = fn.occ[split].start - fn.occ[l + 1].start
              /\ fn.occ[j + n].end - fn.occ[j].end
                        = fn.occ[split].start - fn.occ[l + 1].start
    BY DEF WellBuilt, IsVisitedTwice
<1>6. n = split - (l + 1)
    BY DEF Shift
<1> HIDE DEF last, len
<1>7. /\ n \in Nat \ {0} /\ split \in Nat /\ split = l + 1 + n /\ l + 1 < split
      /\ l + 1 \in 1 .. len /\ split \in 1 .. len
      /\ \A k \in l + 1 .. split - 1 : k + n \in split .. split + n - 1
      /\ \A k \in split .. split + n - 1 : k - n \in l + 1 .. split - 1 /\ (k - n) + n = k
      /\ \A k \in l + 1 .. split + n - 1 : k \in 1 .. len
      /\ l + 1 .. last - 1 = l + 1 .. split + n - 1
    <2>1. AreVisits(l, len, split, last, n)
        BY <1>1, <1>2, <1>4, <1>6 DEF AreVisits
    <2>2. n \in Nat \ {0} /\ split \in Nat /\ split = l + 1 + n /\ l + 1 < split
        BY <2>1, VisitNumbers
    <2>3. l + 1 \in 1 .. len /\ split \in 1 .. len
        BY <2>1, VisitNumbers
    <2>4. \A k \in l + 1 .. split - 1 : k + n \in split .. split + n - 1
        BY <2>1, VisitNumbers
    <2>5. \A k \in split .. split + n - 1 : k - n \in l + 1 .. split - 1 /\ (k - n) + n = k
        BY <2>1, VisitNumbers
    <2>6. \A k \in l + 1 .. split + n - 1 : k \in 1 .. len
        BY <2>1, VisitNumbers
    <2>7. l + 1 .. last - 1 = l + 1 .. split + n - 1
        BY <2>1, VisitNumbers
    <2> QED BY <2>2, <2>3, <2>4, <2>5, <2>6, <2>7
<1>8. fn.occ[l + 1].start < fn.occ[split].start
    BY <1>1, <1>7, StartsFollow
<1>9. /\ \A k \in DOMAIN fn.occ : l \in fn.occ[k].up <=> k \in l + 1 .. split + n - 1
      /\ \A k \in l + 1 .. split + n - 1 : k \in DOMAIN fn.occ
      /\ l + 1 \in DOMAIN fn.occ /\ split \in DOMAIN fn.occ
    BY <1>1, <1>3, <1>7
<1> QED BY <1>1, <1>5, <1>7, <1>8, <1>9

(* The second visit begins with a child of the loop, so what is inside a    *)
(* child is all in one visit.                                               *)
LEMMA SplitIsChild ==
    ASSUME NEW fn, WellBuilt(fn), NEW l \in DOMAIN fn.occ, KindOf(fn, l) = "loop",
           NEW split, split = fn.occ[l].split
    PROVE  fn.occ[split].parent = l /\ fn.occ[split].up = Line(fn.occ, l) /\ split # 1
<1> DEFINE n == Shift(fn, l)
<1>1. /\ n \in Nat \ {0} /\ split = l + 1 + n /\ l \in Nat /\ IsTree(fn.occ) /\ IsTree(fn.op)
      /\ l + 1 \in DOMAIN fn.occ /\ split \in DOMAIN fn.occ
      /\ l \in fn.occ[l + 1].up /\ l \in fn.occ[split].up
      /\ fn.occ[split].op = fn.occ[l + 1].op /\ l # 0 /\ l \in DOMAIN fn.occ
    <2>1. /\ n \in Nat \ {0} /\ split = l + 1 + n /\ l \in Nat /\ IsTree(fn.occ) /\ IsTree(fn.op)
          /\ l + 1 \in DOMAIN fn.occ /\ split \in DOMAIN fn.occ /\ split \in Nat
          /\ \A k \in DOMAIN fn.occ : l \in fn.occ[k].up <=> k \in l + 1 .. split + n - 1
          /\ \A k \in l + 1 .. split - 1 : fn.occ[k + n].op = fn.occ[k].op
        BY Built, VisitFacts
    <2> HIDE DEF n
    <2>2. /\ l + 1 \in l + 1 .. split + n - 1 /\ split \in l + 1 .. split + n - 1
          /\ l + 1 \in l + 1 .. split - 1 /\ (l + 1) + n = split
        BY <2>1
    <2>3. fn.occ[(l + 1) + n].op = fn.occ[l + 1].op
        BY <2>1, <2>2
    <2>4. l # 0
        BY Built, TreeFacts
    <2> QED BY <2>1, <2>2, <2>3, <2>4
<1> HIDE DEF n
<1>2. split # 1 /\ l + 1 # 1
    BY <1>1
<1>3. /\ fn.occ[split].parent \in fn.occ[split].up /\ fn.occ[split].up
            = Line(fn.occ, fn.occ[split].parent)
      /\ fn.occ[split].parent \in Nat /\ \A x \in fn.occ[split].up : x <= fn.occ[split].parent
    BY <1>1, <1>2, ParentFacts
<1>4. fn.occ[l + 1].parent = l
    <2>1. /\ fn.occ[l + 1].parent \in Nat /\ fn.occ[l + 1].parent < l + 1
          /\ \A x \in fn.occ[l + 1].up : x <= fn.occ[l + 1].parent
        BY <1>1, <1>2, ParentFacts
    <2>2. l <= fn.occ[l + 1].parent
        BY <1>1, <2>1
    <2> QED BY <1>1, <2>1, <2>2
<1> DEFINE c == fn.occ[split].parent
           x == fn.occ[split].op
<1>5. fn.op[x].parent = fn.occ[c].op /\ fn.op[x].parent = fn.occ[l].op
    BY <1>1, <1>2, <1>4, OpParent
<1>6. l <= c /\ c \in Line(fn.occ, split) /\ l \in Line(fn.occ, split)
    BY <1>1, <1>3 DEF Line
<1>7. ~(l < c)
    <2>1. l < c => fn.occ[l].op < fn.occ[c].op
        BY <1>1, <1>6, OccFacts
    <2>2. fn.occ[l].op \in Nat
        BY <1>1, OccFacts, TreeFacts
    <2> QED BY <1>5, <2>1, <2>2
<1>8. c = l
    BY <1>1, <1>3, <1>6, <1>7
<1> QED BY <1>2, <1>3, <1>8

LEMMA ChildInVisit ==
    ASSUME NEW fn, WellBuilt(fn), NEW l \in DOMAIN fn.occ, KindOf(fn, l) = "loop",
           NEW k \in DOMAIN fn.occ, NEW c \in Line(fn.occ, k), c > l,
           NEW split, split = fn.occ[l].split
    PROVE  k < split <=> c < split
<1>1. /\ split \in Nat /\ l \in Nat /\ split \in DOMAIN fn.occ
      /\ k \in Nat /\ c \in Nat /\ c <= k /\ IsTree(fn.occ)
    BY Built, VisitFacts, TreeFacts
<1>2. ~(c < split /\ split <= k)
    <2> SUFFICES ASSUME c < split, split <= k PROVE FALSE
        OBVIOUS
    <2>1. c \in fn.occ[k].up /\ split \in c + 1 .. k
        BY <1>1 DEF Line
    <2>2. c \in fn.occ[split].up
        BY <1>1, <2>1 DEF IsTree
    <2>3. c \in Line(fn.occ, l)
        BY <2>2, SplitIsChild
    <2>4. c <= l
        BY <1>1, <2>3, TreeFacts
    <2> QED BY <1>1, <2>4
<1> QED BY <1>1, <1>2

(* A set in the first visit of a loop and a wait in the second, in scopes   *)
(* of one operation and in program order: were the set in the second visit  *)
(* too, it would still come before the wait.                                *)
LEMMA CrossingKeepsOrder ==
    ASSUME NEW fn, WellBuilt(fn), NEW l, l \in DOMAIN fn.occ, KindOf(fn, l) = "loop",
           NEW s \in DOMAIN fn.occ, NEW w \in DOMAIN fn.occ,
           l \in fn.occ[s].up, l \in fn.occ[w].up,
           s < fn.occ[l].split, ~(w < fn.occ[l].split), ~IsBackward(fn, s, w),
           fn.occ[fn.occ[s].parent].op = fn.occ[fn.occ[w].parent].op
    PROVE  fn.occ[s + Shift(fn, l)].end <= fn.occ[w].start
<1> DEFINE n == Shift(fn, l)
           split == fn.occ[l].split
           r == s + n
           L == fn.occ[l].op
           x == fn.occ[s].op
           y == fn.occ[w].op
           c1 == Toward(fn.occ, l, s)
           c2 == Toward(fn.occ, l, w)
           c3 == Toward(fn.occ, l, r)
           d1 == fn.occ[c1].op
           d2 == fn.occ[c2].op
           d3 == fn.occ[c3].op
<1>1. IsTree(fn.occ) /\ IsTree(fn.op) /\ IsTimed(fn.occ) /\ l \in Nat
    BY Built, TreeFacts
<1>2. /\ r \in DOMAIN fn.occ /\ l \in fn.occ[r].up /\ fn.occ[r].op = x /\ ~(r < split)
      /\ s \in Nat /\ w \in Nat /\ r \in Nat /\ split \in Nat
    <2>1. /\ split \in Nat /\ n \in Nat
          /\ \A k \in DOMAIN fn.occ : l \in fn.occ[k].up <=> k \in l + 1 .. split + n - 1
          /\ \A k \in l + 1 .. split + n - 1 : k \in DOMAIN fn.occ
          /\ \A k \in l + 1 .. split - 1 :
                 k + n \in split .. split + n - 1 /\ fn.occ[k + n].op = fn.occ[k].op
        BY <1>1, VisitFacts
    <2>2. s \in Nat /\ w \in Nat
        BY <1>1, TreeFacts
    <2> HIDE DEF n, split
    <2>3. s \in l + 1 .. split + n - 1
        BY <2>1
    <2>4. s \in l + 1 .. split - 1
        BY <1>1, <2>1, <2>2, <2>3 DEF split
    <2>5. s + n \in split .. split + n - 1 /\ fn.occ[s + n].op = fn.occ[s].op
        BY <2>1, <2>4
    <2>6. s + n \in l + 1 .. split + n - 1
        BY <1>1, <2>1, <2>2, <2>3, <2>5
    <2>7. s + n \in DOMAIN fn.occ
        BY <2>1, <2>6
    <2>8. l \in fn.occ[s + n].up
        BY <2>1, <2>6, <2>7
    <2> QED BY <2>1, <2>2, <2>5, <2>7, <2>8
<1>3. /\ c1 \in Line(fn.occ, s) /\ c1 \in DOMAIN fn.occ /\ fn.occ[c1].parent = l /\ l < c1
      /\ \A z \in Line(fn.occ, s) : z > l => c1 \in Line(fn.occ, z)
    BY <1>1, TowardIs
<1>4. /\ c2 \in Line(fn.occ, w) /\ c2 \in DOMAIN fn.occ /\ fn.occ[c2].parent = l /\ l < c2
      /\ \A z \in Line(fn.occ, w) : z > l => c2 \in Line(fn.occ, z)
    BY <1>1, TowardIs
<1>5. c3 \in Line(fn.occ, r) /\ c3 \in DOMAIN fn.occ /\ fn.occ[c3].parent = l /\ l < c3
    <2> HIDE DEF r
    <2> QED BY <1>1, <1>2, TowardIs
<1> HIDE DEF c1, c2, c3, r
<1>6. c1 < split /\ ~(c2 < split) /\ ~(c3 < split)
    BY <1>2, <1>3, <1>4, <1>5, ChildInVisit
<1>7. /\ c1 # 1 /\ c2 # 1 /\ c3 # 1 /\ c1 \in Nat /\ c2 \in Nat /\ c3 \in Nat /\ l # 0
    BY <1>1, <1>3, <1>4, <1>5, RootFacts, TreeFacts DEF Top
<1>8. /\ x \in DOMAIN fn.op /\ y \in DOMAIN fn.op /\ x \in Nat /\ y \in Nat
      /\ L \in fn.op[x].up /\ L \in fn.op[y].up /\ L \in Nat
    <2>1. x \in DOMAIN fn.op /\ y \in DOMAIN fn.op
        BY OccFacts
    <2>2. L \in fn.op[x].up
        BY OpAround
    <2>3. L \in fn.op[y].up
        BY OpAround
    <2> DEFINE u == fn.op
    <2>4. IsTree(u) /\ x \in DOMAIN u /\ y \in DOMAIN u /\ L \in u[x].up
        BY <1>1, <2>1, <2>2
    <2> HIDE DEF u, x, y, L
    <2>5. L \in Line(u, x)
        BY <2>4 DEF Line
    <2>6. x \in Nat /\ y \in Nat /\ L \in Nat
        BY <2>4, <2>5, TreeFacts
    <2> QED BY <2>1, <2>2, <2>3, <2>6 DEF x, y, L
<1>9. /\ d1 \in Line(fn.op, x) /\ d2 \in Line(fn.op, y) /\ d3 \in Line(fn.op, x)
      /\ (c1 # s => d1 \in fn.op[x].up) /\ (c2 # w => d2 \in fn.op[y].up)
    <2>1. ASSUME NEW k \in DOMAIN fn.occ, NEW c \in Line(fn.occ, k)
          PROVE  /\ c # k => fn.occ[c].op \in fn.op[fn.occ[k].op].up
                 /\ fn.occ[c].op \in Line(fn.op, fn.occ[k].op)
        <3>2. c = k \/ c \in fn.occ[k].up
            BY DEF Line
        <3>3. c # k => fn.occ[c].op \in fn.op[fn.occ[k].op].up
            BY <3>2, OpAround
        <3> QED BY <3>3 DEF Line
    <2>2. d1 \in Line(fn.op, x) /\ (c1 # s => d1 \in fn.op[x].up)
        BY <1>3, <2>1
    <2>3. d2 \in Line(fn.op, y) /\ (c2 # w => d2 \in fn.op[y].up)
        BY <1>4, <2>1
    <2>4. d3 \in Line(fn.op, x)
        BY <1>2, <1>5, <2>1
    <2> QED BY <2>2, <2>3, <2>4
<1>10. /\ fn.op[d1].parent = L /\ fn.op[d2].parent = L /\ fn.op[d3].parent = L
    BY <1>3, <1>4, <1>5, <1>7, OpParent
<1>11. d1 = d3
    BY <1>1, <1>8, <1>9, <1>10, SameParent
<1>12. /\ d1 \in Nat /\ d2 \in Nat /\ d1 > L /\ d2 > L
       /\ fn.op[d1].up = Line(fn.op, L) /\ d1 \in DOMAIN fn.op /\ d2 \in DOMAIN fn.op
    <2>1. d1 \in DOMAIN fn.op /\ d2 \in DOMAIN fn.op /\ d1 # 1 /\ d2 # 1
        BY <1>3, <1>4, <1>7, OccFacts, OpFacts
    <2> HIDE DEF d1, d2, L
    <2> QED BY <1>1, <1>10, <2>1, ParentFacts, TreeFacts
<1>13. x < y
    BY <1>8 DEF IsBackward
<1>14. d1 # d2
    <2> SUFFICES ASSUME d1 = d2 PROVE FALSE
        OBVIOUS
    <2>1. ASSUME NEW k \in DOMAIN fn.occ, l \in fn.occ[k].up, k # 1,
                 fn.occ[fn.occ[k].parent].op = L
          PROVE  fn.occ[k].parent = l
        <3>1. /\ fn.occ[k].parent \in Line(fn.occ, k) /\ l \in Line(fn.occ, k)
              /\ l <= fn.occ[k].parent /\ fn.occ[k].parent \in Nat
            BY <1>1, <2>1, ParentFacts DEF Line
        <3>2. l < fn.occ[k].parent => L < fn.occ[fn.occ[k].parent].op
            BY <3>1, OccFacts
        <3> QED BY <1>1, <1>8, <2>1, <3>1, <3>2
    <2>2. s # 1 /\ w # 1
        BY <1>1 DEF IsTree
    <2>3. CASE c1 = s \/ c2 = w
        <3>1. fn.occ[s].parent = l /\ fn.occ[w].parent = l
            <4>1. CASE c1 = s
                <5>1. fn.occ[fn.occ[w].parent].op = L
                    BY <1>3, <4>1
                <5> QED BY <1>3, <2>1, <2>2, <4>1, <5>1
            <4>2. CASE c2 = w
                <5>1. fn.occ[fn.occ[s].parent].op = L
                    BY <1>4, <4>2
                <5> QED BY <1>4, <2>1, <2>2, <4>2, <5>1
            <4> QED BY <2>3, <4>1, <4>2
        <3>2. c1 = s /\ c2 = w
            BY <1>1, <2>2, <3>1, TowardChild DEF c1, c2
        <3> QED BY <1>8, <1>13, <3>2
    <2>4. CASE c1 # s /\ c2 # w
        <3> DEFINE m == CommonScope(fn.occ, s, w)
        <3>1. m \in fn.occ[s].up \cap fn.occ[w].up /\ l <= m
            BY <1>1, <2>2, CommonIs
        <3>2. m \in DOMAIN fn.occ /\ m \in Nat /\ m \in Line(fn.occ, s) /\ m \in Line(fn.occ, w)
            BY <1>1, <3>1, TreeFacts DEF Line
        <3>3. fn.occ[m].op = CommonScope(fn.op, x, y)
            BY DEF IsBackward
        <3> HIDE DEF m
        <3>4. ~(l < m)
            <4> SUFFICES ASSUME l < m PROVE FALSE
                OBVIOUS
            <4>1. c1 \in Line(fn.occ, m) /\ c2 \in Line(fn.occ, m)
                BY <1>1, <1>3, <1>4, <3>2
            <4>2. c1 = c2
                BY <1>1, <1>3, <1>4, <3>2, <4>1, SameParent
            <4> QED BY <1>6, <4>2
        <3>5. m = l
            BY <1>1, <3>1, <3>2, <3>4
        <3>6. x # 1 /\ y # 1
            BY <2>2, OpFacts
        <3>7. d1 <= CommonScope(fn.op, x, y)
            <4>1. d1 \in fn.op[x].up \cap fn.op[y].up
                BY <1>9, <2>4
            <4> HIDE DEF d1, x, y
            <4> QED BY <1>1, <1>8, <3>6, <4>1, CommonIs
        <3> QED BY <1>8, <1>12, <3>3, <3>5, <3>7
    <2> QED BY <2>3, <2>4
<1>15. ~(d2 < d1)
    <2> SUFFICES ASSUME d2 < d1 PROVE FALSE
        OBVIOUS
    <2>1. d1 <= x
        BY <1>1, <1>8, <1>9, TreeFacts
    <2> HIDE DEF d1, d2, x, y, L
    <2>2. d2 \in fn.op[y].up /\ d1 \in d2 + 1 .. y
        <3>1. d2 # y
            BY <1>8, <1>12, <1>13, <2>1
        <3>2. d2 \in fn.op[y].up
            BY <1>9, <3>1 DEF Line
        <3> QED BY <1>8, <1>12, <1>13, <2>1, <3>2
    <2>3. d2 \in fn.op[d1].up
        BY <1>1, <1>8, <2>2 DEF IsTree
    <2>4. d2 \in Line(fn.op, L) /\ L \in DOMAIN fn.op
        BY <1>1, <1>8, <1>12, <2>3, TreeFacts DEF Line
    <2>5. d2 <= L
        BY <1>1, <2>4, TreeFacts
    <2> QED BY <1>8, <1>12, <2>5
<1>16. c3 < c2
    <2>1. c3 # c2
        BY <1>11, <1>14
    <2>2. ~(c2 < c3)
        <3> SUFFICES ASSUME c2 < c3 PROVE FALSE
            OBVIOUS
        <3>1. c3 \in DOMAIN fn.occ \ {1}
            BY <1>5, <1>7
        <3>2. c2 \in l + 1 .. c3 - 1
            BY <1>1, <1>4, <1>7
        <3>3. /\ fn.occ[c2].parent = fn.occ[c3].parent
              /\ KindOf(fn, fn.occ[c3].parent) = "loop" =>
                    (c2 < fn.occ[fn.occ[c3].parent].split
                        <=> c3 < fn.occ[fn.occ[c3].parent].split)
            BY <1>4, <1>5, <1>6
        <3>4. d2 < d3
            BY <1>5, <3>1, <3>2, <3>3 DEF WellBuilt, IsScoped
        <3> QED BY <1>11, <1>12, <1>15, <3>4
    <2> QED BY <1>7, <2>1, <2>2
<1>17. fn.occ[c3].end < fn.occ[c2].start
    <2>1. c3 \notin fn.occ[c2].up
        <3>1. \A z \in fn.occ[c2].up : z <= l
            BY <1>1, <1>4, <1>7, ParentFacts
        <3> QED BY <1>1, <1>5, <1>7, <3>1
    <2>2. c2 \notin fn.occ[c3].up
        <3>1. \A z \in fn.occ[c3].up : z <= l
            BY <1>1, <1>5, <1>7, ParentFacts
        <3> QED BY <1>1, <1>4, <1>7, <3>1
    <2>3. Apart(fn.occ, c3, c2)
        BY <1>7, <1>16, <2>1, <2>2 DEF Apart
    <2> QED BY <1>1, <1>4, <1>5, <1>16, <2>3, ApartInTime
<1>18. /\ fn.occ[r].end <= fn.occ[c3].end /\ fn.occ[r].end \in Nat /\ fn.occ[c3].end \in Nat
    BY <1>1, <1>2, <1>5, TimeFacts
<1>19. /\ fn.occ[c2].start <= fn.occ[w].start /\ fn.occ[c2].start \in Nat
       /\ fn.occ[w].start \in Nat
    BY <1>1, <1>4, TimeFacts
<1>20. fn.occ[r].end <= fn.occ[w].start
    BY <1>17, <1>18, <1>19
<1> QED BY <1>20 DEF r
-----------------------------------------------------------------------------
(* The scopes of a set and a wait: one, or one that ends before the other.  *)
AlignedScopes(fn, x, y) ==
    \/ x = y
    \/ x \in DOMAIN fn.occ /\ y \in DOMAIN fn.occ /\ fn.occ[x].end < fn.occ[y].start

(* Two places of which the first one ends before the other starts.          *)
Spots(fn) ==
    {x \in [set : DOMAIN fn.occ, wait : DOMAIN fn.occ, scope : Nat, mayNotRun : BOOLEAN] :
        fn.occ[x.set].end <= fn.occ[x.wait].start}

LEMMA PlanLoop ==
    ASSUME NEW fn, WellBuilt(fn), NEW p, IsPlan(fn, p), p.kind = "setwait", p.loop # Top
    PROVE  /\ p.loop \in DOMAIN fn.occ /\ KindOf(fn, p.loop) = "loop" /\ p.loop \in Nat
           /\ p.loop \in fn.occ[p.a].up /\ p.loop \in fn.occ[p.b].up
<1> DEFINE S == {l \in fn.occ[p.a].up \cap fn.occ[p.b].up : KindOf(fn, l) = "loop"}
           n == p.a - 1
<1>1. p.loop = Deepest(S)
    BY SetWaitPlanFacts DEF LoopOfPair
<1>2. p.a \in DOMAIN fn.occ /\ IsTree(fn.occ)
    BY Built, PlanFacts DEF IsOrder, IsAccess
<1>3. S \in SUBSET (1 .. n) /\ n \in Int
    BY <1>2, TreeFacts DEF IsTree
<1>4. p.loop \in S
    <2> HIDE DEF S, n
    <2> QED BY <1>1, <1>3, DeepestIs
<1> QED BY <1>2, <1>4, TreeFacts DEF Line

(* The conditions around the ends of a pair in sibling conditions.          *)
LEMMA SiblingFacts ==
    ASSUME NEW fn, WellBuilt(fn), NEW a, NEW b, IsOrder(fn, a, b), InSiblingIfs(fn, a, b),
           NEW x, x = TrueBranchOf(fn, a), NEW y, y = TrueBranchOf(fn, b)
    PROVE  /\ x \in DOMAIN fn.occ /\ y \in DOMAIN fn.occ
           /\ x \in fn.occ[a].up /\ y \in fn.occ[b].up
           /\ KindOf(fn, x) = "if" /\ KindOf(fn, y) = "if"
           /\ fn.occ[a].parent = x + 1 /\ fn.occ[b].parent = y + 1
           /\ x + 1 \in fn.occ[a].up /\ y + 1 \in fn.occ[b].up
           /\ fn.occ[x + 1].parent = x /\ fn.occ[y + 1].parent = y
           /\ fn.occ[x].end < fn.occ[y].start
<1>1. /\ a \in DOMAIN fn.occ \ {1} /\ b \in DOMAIN fn.occ \ {1} /\ Apart(fn.occ, a, b)
      /\ a < b /\ IsTree(fn.occ) /\ IsTimed(fn.occ)
    BY OrderFacts, Built DEF IsOrder
<1>2. /\ x # Top /\ y # Top /\ fn.occ[x].op # fn.occ[y].op
      /\ fn.op[fn.occ[x].op].parent = fn.op[fn.occ[y].op].parent
    BY DEF InSiblingIfs
<1>3. /\ x \in fn.occ[a].up /\ KindOf(fn, x) = "if" /\ fn.occ[a].parent = x + 1
      /\ x + 1 \in fn.occ[a].up /\ fn.occ[x + 1].parent = x
    BY <1>1, <1>2, TrueBranchIs
<1>4. /\ y \in fn.occ[b].up /\ KindOf(fn, y) = "if" /\ fn.occ[b].parent = y + 1
      /\ y + 1 \in fn.occ[b].up /\ fn.occ[y + 1].parent = y
    BY <1>1, <1>2, TrueBranchIs
<1>5. x \in DOMAIN fn.occ /\ y \in DOMAIN fn.occ /\ x \in Line(fn.occ, a) /\ y \in Line(fn.occ, b)
    BY <1>1, <1>3, <1>4, TreeFacts DEF Line
<1>6. x \notin Line(fn.occ, b) /\ y \notin Line(fn.occ, a)
    BY <1>1, <1>2, <1>5, NotSiblings
<1>7. Apart(fn.occ, x, y)
    BY <1>1, <1>5, <1>6, ApartFacts
<1>8. fn.occ[x].end < fn.occ[y].start
    BY <1>1, <1>5, <1>7, InsideInTime
<1> QED BY <1>3, <1>4, <1>5, <1>8

(* Where the main pair of a sound plan goes.                                *)
LEMMA MainPlace ==
    ASSUME NEW fn, WellBuilt(fn), NEW p, IsPlan(fn, p), p.kind = "setwait", p.ok
    PROVE  /\ p.set \in DOMAIN fn.occ \ {1} /\ p.wait \in DOMAIN fn.occ \ {1}
           /\ fn.occ[p.set].end \in Nat /\ fn.occ[p.wait].start \in Nat
           /\ fn.occ[p.set].end <= fn.occ[p.wait].start /\ p.set < p.wait
           /\ AlignedScopes(fn, fn.occ[p.set].parent, fn.occ[p.wait].parent)
           /\ p.backward => p.loop # Top
<1>1. /\ p.set \in DOMAIN fn.occ \ {1} /\ p.wait \in DOMAIN fn.occ \ {1}
      /\ IsTree(fn.occ) /\ IsTimed(fn.occ)
    BY SetWaitPlanFacts, Built DEF AroundBoth
<1>2. fn.occ[p.set].end \in Nat /\ fn.occ[p.wait].start \in Nat
    BY <1>1, TimeFacts
<1>3. /\ fn.occ[p.set].end <= fn.occ[p.wait].start
      /\ \/ fn.occ[fn.occ[p.set].parent].op = fn.occ[fn.occ[p.wait].parent].op
         \/ p.inside
      /\ p.backward => p.loop # Top
    BY SetWaitPlanFacts DEF PlacementAsserts
<1>4. p.set < p.wait
    BY <1>1, <1>3, StartsFollow
<1> DEFINE x == fn.occ[p.set].parent
           y == fn.occ[p.wait].parent
<1>5. CASE p.inside
    <2>1. /\ p.set = p.a /\ p.wait = p.b /\ InSiblingIfs(fn, p.a, p.b)
          /\ IsOrder(fn, p.a, p.b)
        BY <1>5, SetWaitPlanFacts, PlanFacts
    <2> DEFINE u == TrueBranchOf(fn, p.a)
               v == TrueBranchOf(fn, p.b)
    <2>2. /\ u \in DOMAIN fn.occ /\ v \in DOMAIN fn.occ /\ x = u + 1 /\ y = v + 1
          /\ fn.occ[x].parent = u /\ fn.occ[y].parent = v
          /\ fn.occ[u].end < fn.occ[v].start
        BY <2>1, SiblingFacts
    <2> HIDE DEF u, v
    <2>3. /\ x \in DOMAIN fn.occ /\ y \in DOMAIN fn.occ /\ x # 1 /\ y # 1
        BY <1>1, <2>2, ParentFacts, TreeFacts
    <2> HIDE DEF x, y
    <2>4. u \in Line(fn.occ, x) /\ v \in Line(fn.occ, y)
        BY <1>1, <2>2, <2>3, ParentFacts DEF Line
    <2>5. /\ fn.occ[x].end \in Nat /\ fn.occ[u].end \in Nat /\ fn.occ[x].end <= fn.occ[u].end
          /\ fn.occ[y].start \in Nat /\ fn.occ[v].start \in Nat
          /\ fn.occ[v].start <= fn.occ[y].start
        BY <1>1, <2>3, <2>4, TimeFacts
    <2>6. fn.occ[x].end < fn.occ[y].start
        BY <2>2, <2>5
    <2>7. AlignedScopes(fn, x, y)
        BY <2>3, <2>6 DEF AlignedScopes
    <2> QED BY <1>1, <1>2, <1>3, <1>4, <2>7 DEF x, y
<1>6. CASE ~p.inside /\ x # y
    <2>1. /\ x \in DOMAIN fn.occ /\ y \in DOMAIN fn.occ
          /\ x \in Line(fn.occ, p.set) /\ y \in Line(fn.occ, p.wait)
        BY <1>1, ParentFacts DEF Line
    <2>2. fn.occ[x].op = fn.occ[y].op
        BY <1>3, <1>6
    <2> HIDE DEF x, y
    <2>3. \A k \in DOMAIN fn.occ : \A z \in fn.occ[k].up :
              z < k /\ fn.occ[z].op < fn.occ[k].op
        <3> SUFFICES ASSUME NEW k \in DOMAIN fn.occ, NEW z \in fn.occ[k].up
                     PROVE  z < k /\ fn.occ[z].op < fn.occ[k].op
            OBVIOUS
        <3>1. z \in Line(fn.occ, k) /\ k \in Line(fn.occ, k) /\ z < k
            BY <1>1, TreeFacts DEF Line, IsTree
        <3> QED BY <3>1, OccFacts
    <2>4. fn.occ[x].op \in Nat
        BY <2>1, Built, OccFacts, TreeFacts
    <2>5. x \notin fn.occ[y].up /\ y \notin fn.occ[x].up
        BY <2>1, <2>2, <2>3, <2>4
    <2>6. Apart(fn.occ, x, y)
        BY <1>6, <2>5 DEF Apart
    <2>7. fn.occ[x].end < fn.occ[y].start
        BY <1>1, <1>4, <2>1, <2>6, InsideInTime
    <2>8. AlignedScopes(fn, x, y)
        BY <2>1, <2>7 DEF AlignedScopes
    <2> QED BY <1>1, <1>2, <1>3, <1>4, <2>8 DEF x, y
<1>7. CASE x = y
    BY <1>1, <1>2, <1>3, <1>4, <1>7 DEF AlignedScopes
<1> QED BY <1>5, <1>6, <1>7

LEMMA IsSpot ==
    ASSUME NEW fn, WellBuilt(fn), NEW s \in DOMAIN fn.occ, NEW w \in DOMAIN fn.occ,
           fn.occ[s].end <= fn.occ[w].start, NEW sc \in Nat, NEW m \in BOOLEAN
    PROVE  Extra(s, w, sc, m) \in Spots(fn)
BY DEF Extra, Spots

(* Short sequences of elements of a set.                                    *)
LEMMA OneInSeq ==
    ASSUME NEW T, NEW e \in T
    PROVE  <<e>> \in Seq(T)
OBVIOUS

LEMMA TwoInSeq ==
    ASSUME NEW T, NEW e \in T, NEW f \in T
    PROVE  <<e, f>> \in Seq(T)
OBVIOUS

LEMMA FiveInSeq ==
    ASSUME NEW T, NEW e \in T, NEW f \in T, NEW g \in T, NEW h \in T, NEW i \in T
    PROVE  <<e, f, g, h, i>> \in Seq(T)
OBVIOUS

LEMMA NoneInSeq ==
    ASSUME NEW T
    PROVE  <<>> \in Seq(T)
OBVIOUS

(* The same pair in the other visit of the loop.                            *)
LEMMA OtherVisitIsSpot ==
    ASSUME NEW fn, WellBuilt(fn), NEW p, IsPlan(fn, p), p.kind = "setwait", p.ok
    PROVE  OtherVisit(fn, p) \in Seq(Spots(fn))
<1> DEFINE l == p.loop
           split == fn.occ[l].split
           n == Shift(fn, l)
           d == fn.occ[split].start - fn.occ[l + 1].start
           There(k) == IF p.set < split THEN LastIterOcc(fn, k, l) ELSE FirstIterOcc(fn, k, l)
           s == There(p.set)
           w == There(p.wait)
           needed == p.occBackward /\ ~p.backward /\ p.loop \in fn.occ[p.set].up
<1>1. CASE ~needed
    BY <1>1 DEF OtherVisit
<1>2. CASE needed
    <2>1. /\ p.set \in DOMAIN fn.occ \ {1} /\ p.wait \in DOMAIN fn.occ \ {1}
          /\ fn.occ[p.set].end \in Nat /\ fn.occ[p.wait].start \in Nat
          /\ fn.occ[p.set].end <= fn.occ[p.wait].start /\ p.set < p.wait
          /\ IsTree(fn.occ) /\ p.set \in Nat /\ p.wait \in Nat
        BY MainPlace, Built, TreeFacts
    <2>2. l \in fn.occ[p.set].up /\ l \in fn.occ[p.wait].up
        BY <1>2, SetWaitPlanFacts DEF PlacementAsserts
    <2>3. l # Top
        BY <2>1, <2>2, TreeFacts DEF Line, Top
    <2>4. l \in DOMAIN fn.occ /\ KindOf(fn, l) = "loop" /\ l \in Nat
        BY <2>3, PlanLoop
    <2>5. /\ n \in Nat \ {0} /\ split \in Nat /\ split = l + 1 + n /\ split \in DOMAIN fn.occ
          /\ l + 1 \in DOMAIN fn.occ
          /\ \A k \in DOMAIN fn.occ : l \in fn.occ[k].up <=> k \in l + 1 .. split + n - 1
          /\ \A k \in l + 1 .. split + n - 1 : k \in DOMAIN fn.occ
          /\ \A k \in l + 1 .. split - 1 :
                 /\ k + n \in split .. split + n - 1
                 /\ fn.occ[k + n].start - fn.occ[k].start = d
                 /\ fn.occ[k + n].end - fn.occ[k].end = d
          /\ \A k \in split .. split + n - 1 : k - n \in l + 1 .. split - 1 /\ (k - n) + n = k
        BY <2>4, VisitFacts
    <2>6. d \in Int
        <3>1. fn.occ[split].start \in Nat /\ fn.occ[l + 1].start \in Nat
            BY <2>5, Built, TimeFacts
        <3> HIDE DEF split
        <3> QED BY <3>1
    <2>7. p.set \in l + 1 .. split + n - 1 /\ p.wait \in l + 1 .. split + n - 1
        BY <2>1, <2>2, <2>5
    <2>8. \A k \in DOMAIN fn.occ : fn.occ[k].start \in Int /\ fn.occ[k].end \in Int
        BY Built, TimeFacts
    <2>9. OtherVisit(fn, p) = <<Extra(s, w, l, TRUE)>>
        BY <1>2 DEF OtherVisit
    <2>10. s \in DOMAIN fn.occ /\ w \in DOMAIN fn.occ /\ fn.occ[s].end <= fn.occ[w].start
        <3>1. CASE p.set < split /\ p.wait < split
            <4>1. s = p.set + n /\ w = p.wait + n
                BY <3>1 DEF LastIterOcc
            <4> HIDE DEF s, w, n, split, d
            <4>2. p.set \in l + 1 .. split - 1 /\ p.wait \in l + 1 .. split - 1
                BY <2>1, <2>4, <2>5, <2>7, <3>1
            <4>3. s \in split .. split + n - 1 /\ w \in split .. split + n - 1
                BY <2>5, <4>1, <4>2
            <4>4. s \in DOMAIN fn.occ /\ w \in DOMAIN fn.occ
                BY <2>4, <2>5, <4>3
            <4>5. fn.occ[s].end - fn.occ[p.set].end = d /\ fn.occ[w].start - fn.occ[p.wait].start = d
                BY <2>5, <4>1, <4>2
            <4>6. fn.occ[s].end \in Int /\ fn.occ[w].start \in Int
                BY <2>8, <4>4
            <4>7. fn.occ[s].end <= fn.occ[w].start
                BY <2>1, <2>6, <4>5, <4>6
            <4> QED BY <4>4, <4>7
        <3>2. CASE p.set < split /\ ~(p.wait < split)
            <4>1. s = p.set + n /\ w = p.wait
                BY <3>2 DEF LastIterOcc
            <4>2. ~p.inside
                <5> SUFFICES ASSUME p.inside PROVE FALSE
                    OBVIOUS
                <5>1. /\ p.set = p.a /\ p.wait = p.b /\ InSiblingIfs(fn, p.a, p.b)
                      /\ p.backward = IsBackward(fn, p.set, p.wait)
                    BY SetWaitPlanFacts
                <5> QED BY <1>2, <5>1 DEF InSiblingIfs
            <4>3. /\ fn.occ[fn.occ[p.set].parent].op = fn.occ[fn.occ[p.wait].parent].op
                  /\ ~IsBackward(fn, p.set, p.wait)
                BY <1>2, <4>2, SetWaitPlanFacts DEF PlacementAsserts
            <4>4. fn.occ[p.set + n].end <= fn.occ[p.wait].start
                BY <2>1, <2>2, <2>4, <3>2, <4>3, CrossingKeepsOrder
            <4> HIDE DEF n, split, s, w, d
            <4>5. p.set \in l + 1 .. split - 1
                BY <2>1, <2>4, <2>5, <2>7, <3>2
            <4>6. p.set + n \in split .. split + n - 1
                BY <2>5, <4>5
            <4>7. p.set + n \in DOMAIN fn.occ
                BY <2>4, <2>5, <4>6
            <4> QED BY <2>1, <4>1, <4>4, <4>7
        <3>3. CASE ~(p.set < split)
            <4>1. ~(p.wait < split)
                BY <2>1, <2>5, <3>3
            <4>2. s = p.set - n /\ w = p.wait - n
                BY <3>3, <4>1 DEF FirstIterOcc
            <4> HIDE DEF s, w, n, split, d
            <4>3. p.set \in split .. split + n - 1 /\ p.wait \in split .. split + n - 1
                BY <2>1, <2>4, <2>5, <2>7, <3>3, <4>1
            <4>4. /\ s \in l + 1 .. split - 1 /\ w \in l + 1 .. split - 1
                  /\ s + n = p.set /\ w + n = p.wait
                BY <2>5, <4>2, <4>3
            <4>5. s \in DOMAIN fn.occ /\ w \in DOMAIN fn.occ
                BY <2>4, <2>5, <4>4
            <4>6. fn.occ[p.set].end - fn.occ[s].end = d /\ fn.occ[p.wait].start - fn.occ[w].start = d
                BY <2>5, <4>4
            <4>7. fn.occ[s].end \in Int /\ fn.occ[w].start \in Int
                BY <2>8, <4>5
            <4>8. fn.occ[s].end <= fn.occ[w].start
                BY <2>1, <2>6, <4>6, <4>7
            <4> QED BY <4>5, <4>8
        <3> QED BY <3>1, <3>2, <3>3
    <2> HIDE DEF s, w, l
    <2>11. Extra(s, w, l, TRUE) \in Spots(fn)
        BY <2>4, <2>10, IsSpot
    <2> QED BY <2>9, <2>11, OneInSeq
<1> QED BY <1>1, <1>2

(* Before, around and after the loop.                                       *)
LEMMA AtTheLoop ==
    ASSUME NEW fn, WellBuilt(fn), NEW p, IsPlan(fn, p), p.kind = "setwait", p.ok, NEW num
    PROVE  /\ WholeLoop(fn, p, num) \in Seq(Spots(fn))
           /\ HeaderAndFooter(fn, p) \in Seq(Spots(fn))
<1> DEFINE l == p.loop
           bl == BeforeLoop(l)
           al == AfterLoop(fn, l)
           n == Shift(fn, l)
           split == fn.occ[l].split
<1>1. CASE ~p.backward
    <2>1. ~p.inner
        BY <1>1, SetWaitPlanFacts
    <2> QED BY <1>1, <2>1 DEF WholeLoop, HeaderAndFooter
<1>2. CASE p.backward
    <2>1. l # Top
        BY <1>2, MainPlace
    <2>2. l \in DOMAIN fn.occ /\ KindOf(fn, l) = "loop" /\ l \in Nat
        BY <2>1, PlanLoop
    <2>3. /\ l # 1 /\ bl \in DOMAIN fn.occ /\ al \in DOMAIN fn.occ
          /\ fn.occ[bl].end < fn.occ[l].start /\ fn.occ[l].end < fn.occ[al].start
        BY <2>2, LoopFacts
    <2>4. IsTree(fn.occ) /\ IsTimed(fn.occ)
        BY Built
    <2> HIDE DEF bl, al, l
    <2>5. /\ fn.occ[bl].end \in Nat /\ fn.occ[l].start \in Nat /\ fn.occ[l].end \in Nat
          /\ fn.occ[al].start \in Nat /\ fn.occ[l].start < fn.occ[l].end
          /\ fn.occ[l].parent \in Nat
        BY <2>2, <2>3, <2>4, TimeFacts, TreeFacts
    <2>6. Extra(bl, al, fn.occ[l].parent, TRUE) \in Spots(fn)
        <3>1. fn.occ[bl].end <= fn.occ[al].start
            BY <2>3, <2>5
        <3> QED BY <2>3, <2>5, <3>1, IsSpot
    <2>7. WholeLoop(fn, p, num) \in Seq(Spots(fn))
        <3>1. \/ WholeLoop(fn, p, num) = <<>>
              \/ WholeLoop(fn, p, num) = <<Extra(bl, al, fn.occ[l].parent, TRUE)>>
            BY DEF WholeLoop, bl, al, l
        <3> QED BY <2>6, <3>1, OneInSeq, NoneInSeq
    <2>8. CASE ~p.inner
        BY <2>7, <2>8 DEF HeaderAndFooter
    <2>9. CASE p.inner
        <3>1. l \in fn.occ[p.set].up /\ l \in fn.occ[p.wait].up
            BY <2>9, SetWaitPlanFacts DEF PlacementAsserts, l
        <3>2. p.set \in DOMAIN fn.occ /\ p.wait \in DOMAIN fn.occ /\ p.set \in Nat /\ p.wait \in Nat
            BY <2>4, MainPlace, TreeFacts
        <3>3. /\ n \in Nat \ {0} /\ split \in Nat /\ split = l + 1 + n
              /\ \A k \in DOMAIN fn.occ : l \in fn.occ[k].up <=> k \in l + 1 .. split + n - 1
              /\ \A k \in l + 1 .. split + n - 1 : k \in DOMAIN fn.occ
              /\ \A k \in l + 1 .. split - 1 : k + n \in split .. split + n - 1
              /\ \A k \in split .. split + n - 1 : k - n \in l + 1 .. split - 1
            BY <2>2, VisitFacts
        <3> DEFINE w == FirstIterOcc(fn, p.wait, l)
                   s == LastIterOcc(fn, p.set, l)
        <3>4. w = (IF p.wait < split THEN p.wait ELSE p.wait - n)
              /\ s = (IF p.set < split THEN p.set + n ELSE p.set)
            BY DEF FirstIterOcc, LastIterOcc
        <3> HIDE DEF n, split, w, s
        <3>5. p.set \in l + 1 .. split + n - 1 /\ p.wait \in l + 1 .. split + n - 1
            BY <3>1, <3>2, <3>3
        <3>6. w \in l + 1 .. split + n - 1
            <4>1. CASE p.wait < split
                BY <3>4, <3>5, <4>1
            <4>2. CASE ~(p.wait < split)
                <5>1. p.wait \in split .. split + n - 1
                    BY <2>2, <3>2, <3>3, <3>5, <4>2
                <5>2. w \in l + 1 .. split - 1
                    BY <3>3, <3>4, <4>2, <5>1
                <5> QED BY <2>2, <3>3, <5>2
            <4> QED BY <4>1, <4>2
        <3>7. s \in l + 1 .. split + n - 1
            <4>1. CASE ~(p.set < split)
                BY <3>4, <3>5, <4>1
            <4>2. CASE p.set < split
                <5>1. p.set \in l + 1 .. split - 1
                    BY <2>2, <3>2, <3>3, <3>5, <4>2
                <5>2. s \in split .. split + n - 1
                    BY <3>3, <3>4, <4>2, <5>1
                <5> QED BY <2>2, <3>3, <5>2
            <4> QED BY <4>1, <4>2
        <3>8. /\ w \in DOMAIN fn.occ /\ s \in DOMAIN fn.occ
              /\ l \in Line(fn.occ, w) /\ l \in Line(fn.occ, s)
            BY <3>3, <3>6, <3>7 DEF Line
        <3>9. /\ fn.occ[l].start <= fn.occ[w].start /\ fn.occ[w].start \in Nat
              /\ fn.occ[s].end <= fn.occ[l].end /\ fn.occ[s].end \in Nat
            BY <2>4, <3>8, TimeFacts
        <3>10. fn.occ[bl].end <= fn.occ[w].start /\ fn.occ[s].end <= fn.occ[al].start
            BY <2>3, <2>5, <3>9
        <3>11. Extra(bl, w, l, TRUE) \in Spots(fn) /\ Extra(s, al, l, TRUE) \in Spots(fn)
            BY <2>2, <2>3, <3>8, <3>10, IsSpot
        <3>12. HeaderAndFooter(fn, p) = <<Extra(bl, w, l, TRUE), Extra(s, al, l, TRUE)>>
            BY <2>9 DEF HeaderAndFooter, bl, al, l, w, s
        <3> QED BY <2>7, <3>11, <3>12, TwoInSeq
    <2> QED BY <2>8, <2>9
<1> QED BY <1>1, <1>2

(* The branches of two conditions side by side.                             *)
LEMMA InTheBranches ==
    ASSUME NEW fn, WellBuilt(fn), NEW p, IsPlan(fn, p), p.kind = "setwait", p.ok
    PROVE  SiblingBranches(fn, p) \in Seq(Spots(fn))
<1>1. CASE ~p.inside
    BY <1>1 DEF SiblingBranches
<1>2. CASE p.inside
    <2> DEFINE x == p.setIf
               y == p.waitIf
               ms == MirrorSetOcc(fn, p)
               mw == MirrorWaitOcc(fn, p)
               ex == ElseScope(fn, x)
               ey == ElseScope(fn, y)
    <2>1. /\ p.set = p.a /\ p.wait = p.b /\ InSiblingIfs(fn, p.a, p.b)
          /\ x = TrueBranchOf(fn, p.a) /\ y = TrueBranchOf(fn, p.b) /\ IsOrder(fn, p.a, p.b)
        BY <1>2, SetWaitPlanFacts, PlanFacts
    <2>2. /\ x \in DOMAIN fn.occ /\ y \in DOMAIN fn.occ
          /\ x \in fn.occ[p.set].up /\ y \in fn.occ[p.wait].up
          /\ KindOf(fn, x) = "if" /\ KindOf(fn, y) = "if"
          /\ fn.occ[x].end < fn.occ[y].start
        BY <2>1, SiblingFacts
    <2>3. /\ p.set \in DOMAIN fn.occ /\ p.wait \in DOMAIN fn.occ
          /\ IsTree(fn.occ) /\ IsTimed(fn.occ)
        BY MainPlace, Built
    <2>4. /\ ex \in DOMAIN fn.occ /\ fn.occ[ex].parent = x
          /\ ey \in DOMAIN fn.occ /\ fn.occ[ey].parent = y
        BY <2>2 DEF WellBuilt, IsBranching, ElseScope
    <2>5. ms = ScopeEnd(fn, ex) /\ mw = ScopeBegin(ey)
        BY DEF MirrorSetOcc, MirrorWaitOcc
    <2> HIDE DEF ex, ey, x, y, ms, mw
    <2>6. ex # 1 /\ ey # 1
        BY <2>2, <2>3, <2>4, RootFacts, TreeFacts DEF Top
    <2>7. /\ ms \in DOMAIN fn.occ /\ fn.occ[ms].parent = ex /\ KindOf(fn, ms) = "end"
          /\ mw \in DOMAIN fn.occ /\ fn.occ[mw].parent = ey /\ KindOf(fn, mw) = "begin"
        BY <2>2, <2>4, <2>5, <2>6, ScopeFacts
    <2>8. ms # 1 /\ mw # 1
        BY <2>7, KindsOfLeaves, LeafFacts
    <2>9. x \in Line(fn.occ, ms) /\ y \in Line(fn.occ, mw)
        <3>1. ex \in fn.occ[ms].up /\ x \in fn.occ[ex].up
            BY <2>3, <2>4, <2>6, <2>7, <2>8, ParentFacts
        <3>2. ey \in fn.occ[mw].up /\ y \in fn.occ[ey].up
            BY <2>3, <2>4, <2>6, <2>7, <2>8, ParentFacts
        <3> QED BY <2>3, <2>7, <3>1, <3>2, TreeFacts DEF Line
    <2>10. x \in Line(fn.occ, p.set) /\ y \in Line(fn.occ, p.wait)
        BY <2>2 DEF Line
    <2>11. \A s \in {p.set, ms} : \A w \in {p.wait, mw} :
               /\ s \in DOMAIN fn.occ /\ w \in DOMAIN fn.occ
               /\ fn.occ[s].end <= fn.occ[w].start
        <3> SUFFICES ASSUME NEW s \in {p.set, ms}, NEW w \in {p.wait, mw}
                     PROVE  /\ s \in DOMAIN fn.occ /\ w \in DOMAIN fn.occ
                            /\ fn.occ[s].end <= fn.occ[w].start
            OBVIOUS
        <3>1. /\ s \in DOMAIN fn.occ /\ w \in DOMAIN fn.occ
              /\ x \in Line(fn.occ, s) /\ y \in Line(fn.occ, w)
            BY <2>3, <2>7, <2>9, <2>10
        <3>2. /\ fn.occ[s].end \in Nat /\ fn.occ[x].end \in Nat /\ fn.occ[s].end <= fn.occ[x].end
              /\ fn.occ[w].start \in Nat /\ fn.occ[y].start \in Nat
              /\ fn.occ[y].start <= fn.occ[w].start
            BY <2>3, <3>1, TimeFacts
        <3> QED BY <2>2, <3>1, <3>2
    <2>12. Top \in Nat /\ fn.occ[x].parent \in Nat
        BY <2>2, <2>3, TreeFacts DEF Top
    <2>13. /\ Extra(p.set, p.wait, Top, FALSE) \in Spots(fn)
           /\ Extra(p.set, mw, Top, FALSE) \in Spots(fn)
           /\ Extra(ms, p.wait, Top, FALSE) \in Spots(fn)
           /\ Extra(ms, mw, Top, FALSE) \in Spots(fn)
           /\ Extra(p.set, p.wait, fn.occ[x].parent, FALSE) \in Spots(fn)
        BY <2>11, <2>12, IsSpot
    <2>14. SiblingBranches(fn, p) =
               <<Extra(p.set, p.wait, Top, FALSE), Extra(p.set, mw, Top, FALSE),
                 Extra(ms, p.wait, Top, FALSE), Extra(ms, mw, Top, FALSE),
                 Extra(p.set, p.wait, fn.occ[x].parent, FALSE)>>
        BY <1>2 DEF SiblingBranches, ms, mw, x
    <2> DEFINE T == Spots(fn)
               e1 == Extra(p.set, p.wait, Top, FALSE)
               e2 == Extra(p.set, mw, Top, FALSE)
               e3 == Extra(ms, p.wait, Top, FALSE)
               e4 == Extra(ms, mw, Top, FALSE)
               e5 == Extra(p.set, p.wait, fn.occ[x].parent, FALSE)
    <2>15. e1 \in T /\ e2 \in T /\ e3 \in T /\ e4 \in T /\ e5 \in T
        BY <2>13
    <2>16. SiblingBranches(fn, p) = <<e1, e2, e3, e4, e5>>
        BY <2>14
    <2>17. <<e1, e2, e3, e4, e5>> \in Seq(T)
        <3> HIDE DEF e1, e2, e3, e4, e5, T
        <3> QED BY <2>15, FiveInSeq
    <2> QED BY <2>16, <2>17
<1> QED BY <1>1, <1>2

(* The pairs that buildExtraConflictPairs and its like reserve ids for have *)
(* their set before their wait.                                             *)
THEOREM ExtrasAreSpots ==
    ASSUME NEW fn, WellBuilt(fn), NEW p, IsPlan(fn, p), p.kind = "setwait", p.ok, NEW num
    PROVE  Extras(fn, p, num) \in Seq(Spots(fn))
<1>1. /\ OtherVisit(fn, p) \in Seq(Spots(fn)) /\ WholeLoop(fn, p, num) \in Seq(Spots(fn))
      /\ HeaderAndFooter(fn, p) \in Seq(Spots(fn)) /\ SiblingBranches(fn, p) \in Seq(Spots(fn))
    BY OtherVisitIsSpot, AtTheLoop, InTheBranches
<1> QED BY <1>1 DEF Extras

-----------------------------------------------------------------------------
(***************************************************************************)
(* The coloring of a channel's graph.                                       *)
(***************************************************************************)
NodeType   == [num : Nat, rev : BOOLEAN]
IsGraph(g) == g.nodes \in Seq(NodeType)

LEMMA NodeFacts ==
    ASSUME NEW g, IsGraph(g)
    PROVE  /\ IsFiniteSet(DOMAIN g.nodes)
           /\ \A n \in DOMAIN g.nodes :
                 n \in Nat /\ g.nodes[n].num \in Nat /\ g.nodes[n].rev \in BOOLEAN
<1> DEFINE s == g.nodes
<1>1. s \in Seq(NodeType)
    BY DEF IsGraph
<1> HIDE DEF s
<1>2. DOMAIN s = 1 .. Len(s) /\ Len(s) \in Nat
    BY <1>1
<1>3. IsFiniteSet(DOMAIN s)
    <2>1. 1 \in Int /\ Len(s) \in Int
        BY <1>2
    <2> QED BY <1>2, <2>1, FS_Interval
<1>4. \A n \in DOMAIN s : s[n] \in NodeType
    BY <1>1, <1>2
<1>5. \A n \in DOMAIN s : n \in Nat /\ s[n].num \in Nat /\ s[n].rev \in BOOLEAN
    BY <1>2, <1>4 DEF NodeType
<1> QED BY <1>3, <1>5 DEF s

LEMMA WeightIsNat ==
    ASSUME NEW g, IsGraph(g), NEW S \in SUBSET DOMAIN g.nodes
    PROVE  Weight(g, S) \in Nat
<1> DEFINE units == [n \in S |-> {n} \X (1 .. g.nodes[n].num)]
           all == {units[n] : n \in S}
<1>1. IsFiniteSet(S)
    BY FS_Subset, NodeFacts
<1>2. IsFiniteSet(all)
    <2> HIDE DEF units
    <2> QED BY <1>1, ImageFinite
<1>3. ASSUME NEW n \in S PROVE IsFiniteSet(units[n])
    <2>1. IsFiniteSet({n})
        BY FS_Singleton
    <2>2. IsFiniteSet(1 .. g.nodes[n].num)
        <3>1. 1 \in Int /\ g.nodes[n].num \in Int
            BY NodeFacts
        <3> QED BY <3>1, FS_Interval
    <2> QED BY <2>1, <2>2, FS_Product
<1>4. IsFiniteSet(UNION all)
    BY <1>2, <1>3, FS_UNION
<1>5. UNION all = UNION {{n} \X (1 .. g.nodes[n].num) : n \in S}
    BY DEF units
<1> QED BY <1>4, <1>5, FS_CardinalityType DEF Weight

LEMMA ValueIsNat ==
    ASSUME NEW g, IsGraph(g), NEW R, NEW n \in DOMAIN g.nodes
    PROVE  Value(g, R, n) \in Nat
<1>1. Adjacent(g, n) \cap R \in SUBSET DOMAIN g.nodes
    BY DEF Adjacent
<1>2. Weight(g, Adjacent(g, n) \cap R) \in Nat
    BY <1>1, WeightIsNat
<1> QED BY <1>2, NodeFacts DEF Value

LEMMA LighterOrder ==
    ASSUME NEW g, IsGraph(g), NEW R
    PROVE  /\ \A a, b \in DOMAIN g.nodes : a # b => Lighter(g, R, a, b) \/ Lighter(g, R, b, a)
           /\ \A a, b, c \in DOMAIN g.nodes :
                  Lighter(g, R, a, b) /\ Lighter(g, R, b, c) => Lighter(g, R, a, c)
<1>1. \A n \in DOMAIN g.nodes :
          Value(g, R, n) \in Nat /\ n \in Nat /\ g.nodes[n].rev \in BOOLEAN
    BY ValueIsNat, NodeFacts
<1>2. ASSUME NEW a \in DOMAIN g.nodes, NEW b \in DOMAIN g.nodes, a # b
      PROVE  Lighter(g, R, a, b) \/ Lighter(g, R, b, a)
    BY <1>1, <1>2 DEF Lighter
<1>3. ASSUME NEW a \in DOMAIN g.nodes, NEW b \in DOMAIN g.nodes, NEW c \in DOMAIN g.nodes,
             Lighter(g, R, a, b), Lighter(g, R, b, c)
      PROVE  Lighter(g, R, a, c)
    BY <1>1, <1>3 DEF Lighter
<1> QED BY <1>2, <1>3

LEMMA LightestExists ==
    ASSUME NEW g, IsGraph(g), NEW R \in SUBSET DOMAIN g.nodes, R # {}
    PROVE  Lightest(g, R) \in R
<1> DEFINE Leads(S, n) == n \in S /\ \A m \in S \ {n} : Lighter(g, R, n, m)
           P == {S \in SUBSET R : S # {} => \E n \in S : Leads(S, n)}
<1>1. IsFiniteSet(R)
    BY FS_Subset, NodeFacts
<1>2. ASSUME NEW S \in SUBSET R, \A n \in S : S \ {n} \in P
      PROVE  S \in P
    <2> SUFFICES ASSUME S # {} PROVE \E n \in S : Leads(S, n)
        OBVIOUS
    <2>1. PICK a \in S : TRUE
        OBVIOUS
    <2>2. CASE S \ {a} = {}
        BY <2>1, <2>2
    <2>3. CASE S \ {a} # {}
        <3>1. PICK b \in S \ {a} : Leads(S \ {a}, b)
            BY <1>2, <2>1, <2>3
        <3>2. a \in DOMAIN g.nodes /\ b \in DOMAIN g.nodes /\ \A m \in S : m \in DOMAIN g.nodes
            OBVIOUS
        <3>3. CASE Lighter(g, R, b, a)
            BY <3>1, <3>3
        <3>4. CASE Lighter(g, R, a, b)
            <4>1. \A m \in S \ {a} : Lighter(g, R, a, m)
                BY <3>1, <3>2, <3>4, LighterOrder
            <4> QED BY <4>1
        <3> QED BY <3>2, <3>3, <3>4, LighterOrder
    <2> QED BY <2>2, <2>3
<1>3. SUBSET R \subseteq P
    <2> HIDE DEF P
    <2> QED BY <1>1, <1>2, SubsetInduction
<1>4. \E n \in R : \A m \in R \ {n} : Lighter(g, R, n, m)
    BY <1>3
<1> QED BY <1>4 DEF Lightest

(* The coloring of the nodes in each set, as the recursion defines it.      *)
IsColorOf(g, max, f) ==
    f = [S \in SUBSET DOMAIN g.nodes |->
            IF S = {} THEN Uncoloured(g)
            ELSE Coloured(g, f[S \ {Lightest(g, S)}], Lightest(g, S), max)]

ColorOf(g, max) == CHOOSE f : IsColorOf(g, max, f)

LEMMA ColoringIs ==
    ASSUME NEW g, NEW max
    PROVE  Coloring(g, max) = ColorOf(g, max)[DOMAIN g.nodes].ids
BY DEF Coloring, ColorOf, IsColorOf

(* It exists: for sets of at most n nodes first, then for those of n + 1.   *)
LEMMA ColorOfExists ==
    ASSUME NEW g, IsGraph(g), NEW max
    PROVE  IsColorOf(g, max, ColorOf(g, max))
<1> DEFINE Sets == SUBSET DOMAIN g.nodes
           D(n) == {S \in Sets : Cardinality(S) <= n}
           Then(f, S) == IF S = {} THEN Uncoloured(g)
                         ELSE Coloured(g, f[S \ {Lightest(g, S)}], Lightest(g, S), max)
           Upto(f, n) == f = [S \in D(n) |-> Then(f, S)]
           N == {n \in Nat : \E f : Upto(f, n)}
<1>1. \A S \in Sets : IsFiniteSet(S) /\ Cardinality(S) \in Nat
    BY FS_Subset, FS_CardinalityType, NodeFacts
<1>2. 0 \in N
    <2> DEFINE f == [S \in D(0) |-> Uncoloured(g)]
    <2>1. \A S \in D(0) : S = {}
        <3>1. \A S \in D(0) : Cardinality(S) = 0
            BY <1>1
        <3> QED BY <1>1, <3>1, FS_EmptySet
    <2>2. Upto(f, 0)
        BY <2>1
    <2> QED BY <2>2
<1>3. ASSUME NEW n \in Nat, n \in N
      PROVE  n + 1 \in N
    <2>1. PICK f : Upto(f, n)
        BY <1>3
    <2> DEFINE h == [S \in D(n + 1) |-> Then(f, S)]
    <2>2. ASSUME NEW S \in D(n + 1), S # {}
          PROVE  S \ {Lightest(g, S)} \in D(n)
        <3>1. Lightest(g, S) \in S
            BY <2>2, LightestExists
        <3>2. Cardinality(S \ {Lightest(g, S)}) = Cardinality(S) - 1
            BY <1>1, <3>1, FS_RemoveElement
        <3> QED BY <1>1, <3>2
    <2>3. ASSUME NEW S \in D(n)
          PROVE  S \in D(n + 1) /\ h[S] = f[S]
        <3>1. S \in D(n + 1)
            BY <1>1
        <3>2. f[S] = Then(f, S)
            BY <2>1
        <3> QED BY <3>1, <3>2
    <2>4. \A S \in D(n + 1) : Then(f, S) = Then(h, S)
        <3> HIDE DEF h
        <3> QED BY <2>2, <2>3
    <2>5. Upto(h, n + 1)
        BY <2>4
    <2>6. n + 1 \in Nat
        OBVIOUS
    <2> QED BY <2>5, <2>6
<1>4. Nat \subseteq N
    <2> HIDE DEF N
    <2> QED BY <1>2, <1>3, Upwards
<1> DEFINE z == Cardinality(DOMAIN g.nodes)
<1>5. z \in Nat /\ D(z) = Sets
    <2>1. z \in Nat /\ IsFiniteSet(DOMAIN g.nodes)
        BY FS_CardinalityType, NodeFacts
    <2>2. \A S \in Sets : Cardinality(S) <= z
        BY <2>1, FS_Subset
    <2> QED BY <2>1, <2>2
<1>6. \E f : Upto(f, z)
    BY <1>4, <1>5
<1>7. \E f : IsColorOf(g, max, f)
    BY <1>5, <1>6 DEF IsColorOf
<1> QED BY <1>7 DEF ColorOf

(* Two numbers have a greatest.                                             *)
LEMMA MaxOfTwo ==
    ASSUME NEW a \in Int, NEW b \in Int
    PROVE  Max({a, b}) \in {a, b} /\ a <= Max({a, b}) /\ b <= Max({a, b})
<1>1. \E x \in {a, b} : \A y \in {a, b} : x >= y
    OBVIOUS
<1> QED BY <1>1 DEF Max

(* What a partial coloring of the nodes S is like: the ids are numbers up   *)
(* to its top, and adjacent nodes have none in common.                      *)
IsColored(g, acc, S) ==
    /\ acc.top \in Nat
    /\ DOMAIN acc.ids = DOMAIN g.nodes
    /\ \A n \in DOMAIN g.nodes :
          /\ acc.ids[n] \subseteq 0 .. acc.top
          /\ n \notin S => acc.ids[n] = {}
          /\ \A m \in Adjacent(g, n) : acc.ids[n] \cap acc.ids[m] = {}

(* getChosenEventIds finds numbers that no neighbour has.                   *)
LEMMA ChosenIdsAreFree ==
    ASSUME NEW g, IsGraph(g), NEW max \in Nat, NEW S, NEW acc, IsColored(g, acc, S),
           NEW n \in DOMAIN g.nodes
    PROVE  /\ ChosenIds(g, acc, n, max) \subseteq Nat
           /\ IsFiniteSet(ChosenIds(g, acc, n, max))
           /\ \A m \in Adjacent(g, n) : ChosenIds(g, acc, n, max) \cap acc.ids[m] = {}
<1> DEFINE num   == g.nodes[n].num
           taken == UNION {acc.ids[m] : m \in Adjacent(g, n)}
           most  == Max({acc.top, max - 1})
           high  == Highest(num, (0 .. most) \ taken)
           above == acc.top + 1 .. acc.top + num - Cardinality(high)
           wide  == 0 .. num + Cardinality(taken)
<1>1. num \in Nat /\ g.nodes[n].rev \in BOOLEAN /\ acc.top \in Nat
    BY NodeFacts DEF IsColored
<1>2. taken \subseteq 0 .. acc.top
    BY DEF IsColored, Adjacent
<1>3. most \in Int
    <2>1. acc.top \in Int /\ max - 1 \in Int
        BY <1>1
    <2>2. most \in {acc.top, max - 1}
        BY <2>1, MaxOfTwo
    <2> QED BY <2>1, <2>2
<1>4. IsFiniteSet(0 .. most) /\ IsFiniteSet(0 .. acc.top)
    BY <1>1, <1>3, FS_Interval
<1>5. high \subseteq (0 .. most) \ taken /\ IsFiniteSet(high)
    <2>1. high \subseteq (0 .. most) \ taken
        BY DEF Highest
    <2>2. high \subseteq 0 .. most
        BY <2>1
    <2> QED BY <2>1, <2>2, <1>4, FS_Subset
<1>6. Cardinality(high) \in Nat /\ Cardinality(taken) \in Nat
    BY <1>2, <1>4, <1>5, FS_Subset, FS_CardinalityType
<1>7. IsFiniteSet(above) /\ above \subseteq Nat /\ above \cap taken = {}
    <2> HIDE DEF high, taken, num
    <2>1. acc.top + 1 \in Int /\ acc.top + num - Cardinality(high) \in Int
        BY <1>1, <1>6
    <2>2. IsFiniteSet(above)
        BY <2>1, FS_Interval
    <2>3. \A x \in above : x \in Nat /\ x > acc.top
        BY <1>1, <2>1
    <2> HIDE DEF above
    <2>4. \A x \in taken : x <= acc.top
        BY <1>1, <1>2
    <2>5. above \cap taken = {}
        BY <1>1, <2>3, <2>4
    <2> QED BY <2>2, <2>3, <2>5
<1>8. IsFiniteSet(wide) /\ wide \subseteq Nat
    <2> HIDE DEF taken
    <2>1. 0 \in Int /\ num + Cardinality(taken) \in Int
        BY <1>1, <1>6
    <2> QED BY <2>1, FS_Interval
<1>9. CASE g.nodes[n].rev
    <2>1. ChosenIds(g, acc, n, max) = high \cup above
        BY <1>9 DEF ChosenIds
    <2>2. high \subseteq Nat /\ high \cap taken = {}
        <3> HIDE DEF high, taken, most
        <3>1. \A x \in 0 .. most : x \in Nat
            BY <1>3
        <3>2. \A x \in high : x \in 0 .. most /\ x \notin taken
            BY <1>5
        <3> QED BY <3>1, <3>2
    <2>3. IsFiniteSet(high \cup above)
        BY <1>5, <1>7, FS_Union
    <2> HIDE DEF high, above
    <2> QED BY <1>7, <2>1, <2>2, <2>3
<1>10. CASE ~g.nodes[n].rev
    <2>1. ChosenIds(g, acc, n, max) = Lowest(num, wide \ taken)
        BY <1>10 DEF ChosenIds
    <2>2. Lowest(num, wide \ taken) \subseteq wide \ taken
        BY DEF Lowest
    <2> HIDE DEF wide, num
    <2>3. ChosenIds(g, acc, n, max) \subseteq wide
        BY <2>1, <2>2
    <2>4. IsFiniteSet(ChosenIds(g, acc, n, max))
        BY <1>8, <2>3, FS_Subset
    <2> QED BY <1>8, <2>1, <2>2, <2>3, <2>4
<1> QED BY <1>1, <1>9, <1>10

LEMMA ColouredIsColored ==
    ASSUME NEW g, IsGraph(g), NEW max \in Nat, NEW S \in SUBSET DOMAIN g.nodes, NEW n \in S,
           NEW acc, IsColored(g, acc, S \ {n})
    PROVE  IsColored(g, Coloured(g, acc, n, max), S)
<1> DEFINE new == ChosenIds(g, acc, n, max)
           c   == Coloured(g, acc, n, max)
<1>1. /\ new \subseteq Nat /\ IsFiniteSet(new)
      /\ \A m \in Adjacent(g, n) : new \cap acc.ids[m] = {}
    BY ChosenIdsAreFree
<1>2. c = [ids |-> [acc.ids EXCEPT ![n] = new], top |-> Max({acc.top} \cup new)]
    BY DEF Coloured
<1> HIDE DEF new, c
<1>3. acc.top \in Nat /\ DOMAIN acc.ids = DOMAIN g.nodes
    BY DEF IsColored
<1>4. c.top \in Nat /\ acc.top <= c.top /\ \A x \in new : x <= c.top
    <2> DEFINE T == {acc.top} \cup new
    <2>1. T \in SUBSET Nat /\ IsFiniteSet(T) /\ T # {}
        <3>1. IsFiniteSet({acc.top})
            BY FS_Singleton
        <3> QED BY <1>1, <1>3, <3>1, FS_Union
    <2>2. Max(T) \in T /\ \A y \in T : y <= Max(T)
        <3> HIDE DEF T
        <3> QED BY <2>1, Greatest
    <2> QED BY <1>2, <2>1, <2>2
<1>5. DOMAIN c.ids = DOMAIN g.nodes
    BY <1>2, <1>3
<1>6. c.ids[n] = new /\ \A m \in DOMAIN g.nodes : m # n => c.ids[m] = acc.ids[m]
    BY <1>2, <1>3
<1>7. ASSUME NEW m \in DOMAIN g.nodes
      PROVE  /\ c.ids[m] \subseteq 0 .. c.top
             /\ m \notin S => c.ids[m] = {}
             /\ \A k \in Adjacent(g, m) : c.ids[m] \cap c.ids[k] = {}
    <2>1. c.ids[m] \subseteq 0 .. c.top
        <3>1. CASE m = n
            <4>1. \A x \in new : x \in 0 .. c.top
                BY <1>1, <1>4
            <4> QED BY <1>6, <3>1, <4>1
        <3>2. CASE m # n
            <4>1. acc.ids[m] \subseteq 0 .. acc.top
                BY DEF IsColored
            <4> QED BY <1>3, <1>4, <1>6, <3>2, <4>1
        <3> QED BY <3>1, <3>2
    <2>2. m \notin S => c.ids[m] = {}
        BY <1>6 DEF IsColored
    <2>3. ASSUME NEW k \in Adjacent(g, m)
          PROVE  c.ids[m] \cap c.ids[k] = {}
        <3>1. k \in DOMAIN g.nodes /\ k # m /\ m \in Adjacent(g, k)
            <4>1. {k, m} = {m, k}
                OBVIOUS
            <4> QED BY <2>3, <4>1 DEF Adjacent
        <3>2. CASE m = n
            BY <1>1, <1>6, <2>3, <3>1, <3>2
        <3>3. CASE k = n
            BY <1>1, <1>6, <3>1, <3>3
        <3>4. CASE m # n /\ k # n
            BY <1>6, <3>1, <3>4 DEF IsColored
        <3> QED BY <3>2, <3>3, <3>4
    <2> QED BY <2>1, <2>2, <2>3
<1> QED BY <1>4, <1>5, <1>7 DEF IsColored, c

(* Adjacent nodes get no id in common, however many ids there are.          *)
LEMMA ColoringIsProper ==
    ASSUME NEW g, IsGraph(g), NEW max \in Nat
    PROVE  /\ IsFiniteSet(IdsIn(Coloring(g, max)))
           /\ \A n \in DOMAIN g.nodes : \A m \in Adjacent(g, n) :
                 Coloring(g, max)[n] \cap Coloring(g, max)[m] = {}
<1> DEFINE f == ColorOf(g, max)
           D == DOMAIN g.nodes
           Sets == SUBSET D
           P == {S \in Sets : IsColored(g, f[S], S)}
<1>1. IsColorOf(g, max, f)
    BY ColorOfExists
<1> HIDE DEF f
<1>2. \A S \in Sets : f[S] = IF S = {} THEN Uncoloured(g)
                            ELSE Coloured(g, f[S \ {Lightest(g, S)}], Lightest(g, S), max)
    BY <1>1 DEF IsColorOf
<1>3. ASSUME NEW S \in Sets, \A n \in S : S \ {n} \in P
      PROVE  S \in P
    <2>1. CASE S = {}
        <3>1. f[S] = [ids |-> [n \in DOMAIN g.nodes |-> {}], top |-> 0]
            BY <1>2, <2>1 DEF Uncoloured
        <3>2. IsColored(g, [ids |-> [n \in DOMAIN g.nodes |-> {}], top |-> 0], S)
            BY DEF IsColored, Adjacent
        <3> QED BY <3>1, <3>2
    <2>2. CASE S # {}
        <3> DEFINE n == Lightest(g, S)
        <3>1. n \in S
            BY <2>2, LightestExists
        <3> HIDE DEF n
        <3>2. IsColored(g, f[S \ {n}], S \ {n})
            BY <1>3, <3>1
        <3>3. IsColored(g, Coloured(g, f[S \ {n}], n, max), S)
            BY <3>1, <3>2, ColouredIsColored
        <3> QED BY <1>2, <2>2, <3>3 DEF n
    <2> QED BY <2>1, <2>2
<1>4. Sets \subseteq P
    <2>1. IsFiniteSet(D)
        BY NodeFacts
    <2> HIDE DEF P, D
    <2> QED BY <1>3, <2>1, SubsetInduction
<1>5. IsColored(g, f[DOMAIN g.nodes], DOMAIN g.nodes)
    BY <1>4
<1>6. Coloring(g, max) = f[DOMAIN g.nodes].ids
    BY ColoringIs DEF f
<1> DEFINE acc == f[DOMAIN g.nodes]
<1>7. IdsIn(Coloring(g, max)) \subseteq 0 .. acc.top
    BY <1>5, <1>6 DEF IdsIn, IsColored
<1>8. IsFiniteSet(0 .. acc.top)
    <2>1. 0 \in Int /\ acc.top \in Int
        BY <1>5 DEF IsColored
    <2> QED BY <2>1, FS_Interval
<1>9. IsFiniteSet(IdsIn(Coloring(g, max)))
    BY <1>7, <1>8, FS_Subset
<1>10. \A n \in DOMAIN g.nodes : \A m \in Adjacent(g, n) :
          Coloring(g, max)[n] \cap Coloring(g, max)[m] = {}
    BY <1>5, <1>6 DEF IsColored
<1> QED BY <1>9, <1>10

(* calcAllEventIds: neighbours in the graph of a channel have no id in      *)
(* common under the maximum that the graph was shrunk to.                   *)
THEOREM FinalIdsAreProper ==
    ASSUME NEW g, IsGraph(g), NEW n \in DOMAIN g.nodes, NEW m \in DOMAIN g.nodes,
           n # m, {n, m} \in g.edges
    PROVE  FinalIds(g)[n] \cap FinalIds(g)[m] = {}
<1>1. HwEventIdNum \in Nat
    BY SyncSolverAssumption
<1>2. ShrunkMax(g) \in Nat
    BY <1>1, ColoringIsProper, FS_CardinalityType DEF ShrunkMax
<1>3. n \in Adjacent(g, m)
    BY DEF Adjacent
<1>4. FinalIds(g)[m] \cap FinalIds(g)[n] = {}
    BY <1>2, <1>3, ColoringIsProper DEF FinalIds
<1> QED BY <1>4
-----------------------------------------------------------------------------
(***************************************************************************)
(* Sequences.                                                               *)
(***************************************************************************)
(* A sequence, of what it holds.                                            *)
Listed(s) == s \in Seq(ToSet(s))

LEMMA SeqOfIts ==
    ASSUME NEW T, NEW s \in Seq(T)
    PROVE  Listed(s) /\ ToSet(s) \subseteq T
<1>1. s \in [1 .. Len(s) -> T] /\ Len(s) \in Nat
    BY LenProperties
<1>2. s \in [1 .. Len(s) -> ToSet(s)]
    BY <1>1 DEF ToSet
<1>3. s \in Seq(ToSet(s))
    <2> DEFINE R == ToSet(s)
    <2> HIDE DEF R
    <2> QED BY <1>1, <1>2, SeqDef
<1> QED BY <1>1, <1>3 DEF ToSet, Listed

LEMMA FunctionIsListed ==
    ASSUME NEW m \in Nat, NEW f, f = [i \in 1 .. m |-> f[i]]
    PROVE  Listed(f) /\ Len(f) = m /\ DOMAIN f = 1 .. m
<1> DEFINE R == {f[i] : i \in 1 .. m}
<1>1. f \in [1 .. m -> R] /\ DOMAIN f = 1 .. m
    <2>1. \A i \in 1 .. m : f[i] \in R
        OBVIOUS
    <2>2. DOMAIN f = 1 .. m
        OBVIOUS
    <2> HIDE DEF R
    <2> QED BY <2>1, <2>2
<1> HIDE DEF R
<1>2. f \in Seq(R)
    BY <1>1, SeqDef
<1>3. Len(f) = m
    <2>1. DOMAIN f = 1 .. Len(f) /\ Len(f) \in Nat
        BY <1>2, LenProperties
    <2> QED BY <1>1, <2>1
<1>4. Listed(f)
    BY <1>2, SeqOfIts
<1> QED BY <1>1, <1>3, <1>4

OfLength(s, n) == Listed(s) /\ DOMAIN s = 1 .. n

IsTail(z, s, m) == Listed(z) /\ DOMAIN z = 1 .. m /\ \A i \in 1 .. m : z[i] = s[i + 1]
OneMore(n, m)   == m \in Nat /\ n = m + 1

LEMMA Tailed ==
    ASSUME NEW m, NEW n, OneMore(n, m), NEW s, OfLength(s, n)
    PROVE  IsTail(Tail(s), s, m)
<1> DEFINE R == ToSet(s)
           z == Tail(s)
<1>1. s \in Seq(R) /\ DOMAIN s = 1 .. n /\ m \in Nat /\ n = m + 1
    BY DEF Listed, OfLength, OneMore
<1> HIDE DEF R
<1>2. Len(s) = m + 1
    BY <1>1, LenProperties
<1>3. s # <<>>
    BY <1>1, <1>2
<1>4. /\ z \in Seq(R) /\ Len(z) = Len(s) - 1
      /\ \A i \in 1 .. Len(z) : z[i] = s[i + 1]
    BY <1>1, <1>3, HeadTailProperties
<1> HIDE DEF z
<1>5. Len(z) = m
    BY <1>1, <1>2, <1>4
<1>6. Listed(z) /\ DOMAIN z = 1 .. m
    BY <1>4, <1>5, SeqOfIts, LenProperties
<1>7. IsTail(z, s, m)
    BY <1>4, <1>5, <1>6 DEF IsTail
<1> QED BY <1>7 DEF z

LEMMA Appended ==
    ASSUME NEW s, Listed(s), NEW e
    PROVE  /\ Listed(Append(s, e))
           /\ ToSet(Append(s, e)) = ToSet(s) \cup {e}
<1> DEFINE T == ToSet(s) \cup {e}
<1>1. s \in Seq(T) /\ e \in T
    <2> DEFINE R == ToSet(s)
    <2>1. s \in Seq(R) /\ R \subseteq T
        BY DEF Listed
    <2> HIDE DEF R, T
    <2> QED BY <2>1 DEF T
<1>2. /\ Append(s, e) \in Seq(T) /\ Len(Append(s, e)) = Len(s) + 1
      /\ \A i \in 1 .. Len(s) : Append(s, e)[i] = s[i]
      /\ Append(s, e)[Len(s) + 1] = e
      /\ Len(s) \in Nat /\ DOMAIN s = 1 .. Len(s)
      /\ DOMAIN Append(s, e) = 1 .. Len(s) + 1
    <2> HIDE DEF T
    <2> QED BY <1>1, AppendProperties, LenProperties
<1>3. T \subseteq ToSet(Append(s, e))
    <2>1. \A i \in 1 .. Len(s) : i \in 1 .. Len(s) + 1
        BY <1>2
    <2>2. Len(s) + 1 \in 1 .. Len(s) + 1
        BY <1>2
    <2> QED BY <1>2, <2>1, <2>2 DEF ToSet
<1>4. ToSet(Append(s, e)) \subseteq T /\ Listed(Append(s, e))
    <2> HIDE DEF T
    <2> QED BY <1>2, SeqOfIts
<1> QED BY <1>3, <1>4

LEMMA Concatenated ==
    ASSUME NEW s, Listed(s), NEW t, Listed(t)
    PROVE  /\ Listed(s \o t)
           /\ ToSet(s \o t) = ToSet(s) \cup ToSet(t)
<1> DEFINE T == ToSet(s) \cup ToSet(t)
<1>1. s \in Seq(T) /\ t \in Seq(T)
    <2> DEFINE R == ToSet(s)
               U == ToSet(t)
    <2>1. s \in Seq(R) /\ t \in Seq(U) /\ R \subseteq T /\ U \subseteq T
        BY DEF Listed
    <2> HIDE DEF R, U, T
    <2> QED BY <2>1
<1>2. /\ s \o t \in Seq(T) /\ Len(s \o t) = Len(s) + Len(t)
      /\ \A i \in 1 .. Len(s) + Len(t) :
            (s \o t)[i] = IF i <= Len(s) THEN s[i] ELSE t[i - Len(s)]
      /\ Len(s) \in Nat /\ DOMAIN s = 1 .. Len(s) /\ Len(t) \in Nat /\ DOMAIN t = 1 .. Len(t)
      /\ DOMAIN (s \o t) = 1 .. Len(s) + Len(t)
    <2> HIDE DEF T
    <2> QED BY <1>1, ConcatProperties, LenProperties
<1>3. T \subseteq ToSet(s \o t)
    <2>1. \A i \in 1 .. Len(s) : i \in 1 .. Len(s) + Len(t) /\ (s \o t)[i] = s[i]
        BY <1>2
    <2>2. \A i \in 1 .. Len(t) : /\ Len(s) + i \in 1 .. Len(s) + Len(t)
                                 /\ (s \o t)[Len(s) + i] = t[i]
        BY <1>2
    <2> DEFINE u == s \o t
    <2>3. \A i \in 1 .. Len(s) : i \in DOMAIN u /\ u[i] = s[i]
        BY <1>2, <2>1
    <2>4. \A i \in 1 .. Len(t) : Len(s) + i \in DOMAIN u /\ u[Len(s) + i] = t[i]
        BY <1>2, <2>2
    <2>5. DOMAIN s = 1 .. Len(s) /\ DOMAIN t = 1 .. Len(t)
        BY <1>2
    <2> HIDE DEF u
    <2>6. T \subseteq ToSet(u)
        BY <2>3, <2>4, <2>5 DEF ToSet
    <2> QED BY <2>6 DEF u
<1>4. ToSet(s \o t) \subseteq T /\ Listed(s \o t)
    <2> HIDE DEF T
    <2> QED BY <1>2, SeqOfIts
<1> QED BY <1>3, <1>4

LEMMA Removed ==
    ASSUME NEW s, Listed(s), NEW n \in DOMAIN s
    PROVE  /\ Listed(RemoveAt(s, n))
           /\ ToSet(RemoveAt(s, n)) \subseteq ToSet(s)
           /\ ToSet(s) \subseteq ToSet(RemoveAt(s, n)) \cup {s[n]}
<1> DEFINE R == ToSet(s)
           f == SubSeq(s, 1, n - 1)
           l == SubSeq(s, n + 1, Len(s))
<1>1. Len(s) \in Nat /\ DOMAIN s = 1 .. Len(s) /\ n \in 1 .. Len(s)
    BY LenProperties DEF Listed
<1>2. \A i \in 1 .. Len(s) : s[i] \in R
    BY <1>1 DEF ToSet
<1>3. /\ f \in Seq(R) /\ Len(f) = n - 1
      /\ \A i \in 1 .. n - 1 : f[i] = s[i]
    <2>1. 1 \in Int /\ n - 1 \in Int /\ \A i \in 1 .. n - 1 : s[i] \in R
        BY <1>1, <1>2
    <2> HIDE DEF R
    <2>2. /\ Len(f) = (IF 1 <= n - 1 THEN n - 1 - 1 + 1 ELSE 0)
          /\ \A i \in 1 .. n - 1 - 1 + 1 : f[i] = s[1 + i - 1]
          /\ f \in Seq(R)
        BY <2>1, SubSeqProperties
    <2> QED BY <1>1, <2>2
<1>4. /\ l \in Seq(R) /\ Len(l) = Len(s) - n
      /\ \A i \in 1 .. Len(s) - n : l[i] = s[n + i]
    <2>1. n + 1 \in Int /\ Len(s) \in Int /\ \A i \in n + 1 .. Len(s) : s[i] \in R
        BY <1>1, <1>2
    <2> HIDE DEF R
    <2>2. /\ Len(l) = (IF n + 1 <= Len(s) THEN Len(s) - (n + 1) + 1 ELSE 0)
          /\ \A i \in 1 .. Len(s) - (n + 1) + 1 : l[i] = s[n + 1 + i - 1]
          /\ l \in Seq(R)
        <3> DEFINE a == n + 1
                   b == Len(s)
        <3>1. a \in Int /\ b \in Int /\ \A i \in a .. b : s[i] \in R
            BY <2>1
        <3>2. l = SubSeq(s, a, b)
            OBVIOUS
        <3> HIDE DEF a, b, l
        <3>3. /\ Len(l) = (IF a <= b THEN b - a + 1 ELSE 0)
              /\ \A i \in 1 .. b - a + 1 : l[i] = s[a + i - 1]
              /\ l \in Seq(R)
            BY <3>1, <3>2, SubSeqProperties
        <3> QED BY <3>3 DEF a, b
    <2>3. Len(s) - (n + 1) + 1 = Len(s) - n /\ \A i \in Int : n + 1 + i - 1 = n + i
        BY <1>1
    <2>4. (IF n + 1 <= Len(s) THEN Len(s) - (n + 1) + 1 ELSE 0) = Len(s) - n
        BY <1>1
    <2> HIDE DEF l
    <2>5. ASSUME NEW i \in 1 .. Len(s) - n PROVE l[i] = s[n + i]
        <3>1. l[i] = s[n + 1 + i - 1]
            BY <2>2, <2>3
        <3>2. n + 1 + i - 1 = n + i
            BY <1>1
        <3> QED BY <3>1, <3>2
    <2> QED BY <2>2, <2>4, <2>5
<1>5. /\ Listed(f) /\ ToSet(f) \subseteq R
      /\ Listed(l) /\ ToSet(l) \subseteq R
    <2> HIDE DEF f, l, R
    <2> QED BY <1>3, <1>4, SeqOfIts
<1>6. RemoveAt(s, n) = f \o l
    BY DEF RemoveAt
<1>7. /\ Listed(f \o l) /\ ToSet(f \o l) = ToSet(f) \cup ToSet(l)
    <2> HIDE DEF f, l
    <2> QED BY <1>5, Concatenated
<1>8. ASSUME NEW i \in 1 .. Len(s), i # n
      PROVE  s[i] \in ToSet(f) \cup ToSet(l)
    <2>1. CASE i < n
        <3>1. i \in 1 .. n - 1 /\ i \in DOMAIN f
            BY <1>1, <1>3, <2>1, LenProperties
        <3> QED BY <1>3, <3>1 DEF ToSet
    <2>2. CASE i > n
        <3>1. i - n \in 1 .. Len(s) - n /\ i - n \in DOMAIN l /\ n + (i - n) = i
            BY <1>1, <1>4, <2>2, LenProperties
        <3> QED BY <1>4, <3>1 DEF ToSet
    <2> QED BY <1>1, <1>8, <2>1, <2>2
<1>9. ToSet(s) \subseteq ToSet(f \o l) \cup {s[n]}
    BY <1>1, <1>7, <1>8 DEF ToSet
<1> QED BY <1>5, <1>6, <1>7, <1>9
-----------------------------------------------------------------------------
(***************************************************************************)
(* The inductive invariant: what is true of the pairs chosen so far, of the *)
(* graphs of the channels and of the counters.  It is stated of their       *)
(* values, so that a step that leaves a value alone keeps what is said of   *)
(* it.                                                                      *)
(***************************************************************************)
ChannelsOf(t) == {c \in PipesOf(t) \X PipesOf(t) : c[1] # c[2]}

IsProgram(p) ==
    /\ WellBuilt(p.ir) /\ Listed(p.plans)
    /\ \A i \in DOMAIN p.plans : IsPlan(p.ir, p.plans[i])

Fields == {"op1", "op2", "set", "wait", "src", "dst", "start", "end", "par1", "par2", "node",
           "num", "loop", "useless", "inner", "mayNotRun", "dontReuse", "dontCheck",
           "mirrorSet", "mirrorWait"}

(* A pair speaks about a stretch of time; one with several ids crosses the  *)
(* visits of a loop; one that need not run is not reused, and the scopes of *)
(* any other are one scope or one after the other.                          *)
PairOk(t, q) ==
    /\ DOMAIN q = Fields
    /\ q.start \in Nat /\ q.end \in Nat /\ q.start <= q.end
    /\ q.num \in Nat \ {0} /\ q.inner \in BOOLEAN /\ (~q.inner => q.num = 1)
    /\ q.mayNotRun \in BOOLEAN /\ q.dontReuse \in BOOLEAN /\ (q.mayNotRun => q.dontReuse)
    /\ ~q.mayNotRun => AlignedScopes(t, q.par1, q.par2)
    /\ q.inner => q.loop \in DOMAIN t.op
    /\ ~IsBarrier(q) => Channel(q) \in ChannelsOf(t)

PairsOk(t, S)  == \A q \in S : PairOk(t, q)

GraphOk(g) == IsGraph(g) /\ UNION g.edges \subseteq DOMAIN g.nodes

GraphsOk(t, gr) ==
    DOMAIN gr = ChannelsOf(t) /\ \A c \in ChannelsOf(t) : GraphOk(gr[c])

(* A pair has a node of the graph of its channel; pairs with nodes that     *)
(* intersect are neighbours there.                                          *)
HasNode(gr, q)    == ~IsBarrier(q) /\ ~q.dontCheck => q.node \in DOMAIN gr[Channel(q)].nodes
HaveNodes(gr, S)  == \A q \in S : HasNode(gr, q)
AreLinked(gr, q, r) ==
    Intersect(q, r) /\ q.node # r.node => {q.node, r.node} \in gr[Channel(q)].edges
Linked(gr, S)     == \A q, r \in S : AreLinked(gr, q, r)

KeyChannel(k) == <<k[4], k[5]>>

SyncedOk(t, gr, sy) ==
    \A k \in DOMAIN sy : /\ KeyChannel(k) \in ChannelsOf(t)
                         /\ sy[k] \in DOMAIN gr[KeyChannel(k)].nodes

ReuseOk(t, ru, re) ==
    /\ ru \in [ChannelsOf(t) -> Nat] /\ re \in [ChannelsOf(t) -> Nat]
    /\ \A c \in ChannelsOf(t) : ru[c] <= re[c] /\ re[c] <= MaxReuseNum

MergedOk(t, m) ==
    DOMAIN m \subseteq DOMAIN t.op /\ \A x \in DOMAIN m : m[x] \subseteq ChannelsOf(t)

BarriersOk(t, ds, bp, bo) == ds \cup bp \subseteq ChannelsOf(t) /\ (bo = {} <=> bp = {})

CountersOk(p, at, n, k, fin) ==
    /\ at \in {"process", "done", "gaveUp"} /\ n \in 1 .. Len(p.plans) + 1
    /\ k \in 1 .. MaxRunNum + 1 /\ fin \in BOOLEAN /\ (k > MaxRunNum => fin)

Core ==
    /\ IsProgram(prog) /\ CountersOk(prog, pc, next, runNum, final)
    /\ Listed(chosen) /\ Listed(persistent)
    /\ PairsOk(ir, ToSet(chosen)) /\ PairsOk(ir, ToSet(persistent))
    /\ \A q \in ToSet(persistent) : IsBarrier(q)
    /\ GraphsOk(ir, graph) /\ HaveNodes(graph, ToSet(chosen)) /\ Linked(graph, ToSet(chosen))
    /\ SyncedOk(ir, graph, synced) /\ ReuseOk(ir, reused, reuse) /\ MergedOk(ir, merged)
    /\ BarriersOk(ir, disabled, barrierPairs, barrierOps)
-----------------------------------------------------------------------------
LEMMA NoPairIs ==
    /\ DOMAIN NoPair = Fields
    /\ NoPair.num = 1 /\ NoPair.inner = FALSE /\ NoPair.mayNotRun = FALSE
    /\ NoPair.dontReuse = FALSE /\ NoPair.dontCheck = FALSE /\ NoPair.useless = FALSE
BY DEF NoPair, Fields

(* The pair as it is placed: what Between changes.                          *)
LEMMA BetweenIs ==
    ASSUME NEW q, DOMAIN q = Fields, NEW s, NEW w, NEW z, z = Between(q, s, w)
    PROVE  /\ DOMAIN z = Fields
           /\ z.set = s /\ z.wait = w /\ z.start = ir.occ[s].end /\ z.end = ir.occ[w].start
           /\ \A f \in Fields \ {"set", "wait", "start", "end"} : z[f] = q[f]
BY DEF Between, Fields

(* The pair handleSetWaitConflict starts from.                              *)
LEMMA MainPairIs ==
    ASSUME NEW q, q = MainPair
    PROVE  /\ DOMAIN q = Fields
           /\ q.op1 = ir.occ[plan.a].op /\ q.op2 = ir.occ[plan.b].op
           /\ q.src = plan.src /\ q.dst = plan.dst
           /\ q.num = (IF plan.inner /\ <<plan.src, plan.dst>> \notin disabled THEN plan.num ELSE 1)
           /\ q.par1 = ir.occ[plan.set].parent /\ q.par2 = ir.occ[plan.wait].parent
           /\ q.loop = (IF plan.backward THEN ir.occ[plan.loop].op ELSE Top)
           /\ q.useless = plan.useless /\ q.inner = plan.inner
           /\ q.mayNotRun = FALSE /\ q.dontReuse = FALSE /\ q.dontCheck = FALSE
           /\ q.set = plan.set /\ q.wait = plan.wait
           /\ q.start = ir.occ[plan.set].end /\ q.end = ir.occ[plan.wait].start
<1> DEFINE num == IF plan.inner /\ <<plan.src, plan.dst>> \notin disabled THEN plan.num ELSE 1
           x1 == ir.occ[plan.a].op
           x2 == ir.occ[plan.b].op
           y1 == ir.occ[plan.set].parent
           y2 == ir.occ[plan.wait].parent
           lp == IF plan.backward THEN ir.occ[plan.loop].op ELSE Top
           r == [NoPair EXCEPT !.op1 = x1, !.op2 = x2,
                            !.src = plan.src, !.dst = plan.dst, !.num = num,
                            !.par1 = y1, !.par2 = y2,
                            !.loop = lp,
                            !.useless = plan.useless, !.inner = plan.inner]
<1>1. q = Between(r, plan.set, plan.wait)
    BY DEF MainPair
<1>2. /\ DOMAIN r = Fields
      /\ r.op1 = x1 /\ r.op2 = x2 /\ r.src = plan.src /\ r.dst = plan.dst /\ r.num = num
      /\ r.par1 = y1 /\ r.par2 = y2 /\ r.loop = lp /\ r.useless = plan.useless
      /\ r.inner = plan.inner
      /\ r.mayNotRun = FALSE /\ r.dontReuse = FALSE /\ r.dontCheck = FALSE
    <2> HIDE DEF num, x1, x2, y1, y2, lp
    <2> DEFINE r1 == [NoPair EXCEPT !.op1 = x1, !.op2 = x2, !.src = plan.src, !.dst = plan.dst]
               r2 == [r1 EXCEPT !.num = num, !.par1 = y1, !.par2 = y2]
               r3 == [r2 EXCEPT !.loop = lp, !.useless = plan.useless, !.inner = plan.inner]
    <2>1. r = r3
        OBVIOUS
    <2>2. /\ DOMAIN r1 = Fields /\ r1.op1 = x1 /\ r1.op2 = x2 /\ r1.src = plan.src
          /\ r1.dst = plan.dst
          /\ \A f \in Fields \ {"op1", "op2", "src", "dst"} : r1[f] = NoPair[f]
        <3> HIDE DEF NoPair
        <3> QED BY NoPairIs DEF Fields
    <2> HIDE DEF r1
    <2>3. /\ DOMAIN r2 = Fields /\ r2.num = num /\ r2.par1 = y1 /\ r2.par2 = y2
          /\ \A f \in Fields \ {"num", "par1", "par2"} : r2[f] = r1[f]
        BY <2>2 DEF Fields
    <2> HIDE DEF r2
    <2>4. /\ DOMAIN r3 = Fields /\ r3.loop = lp /\ r3.useless = plan.useless
          /\ r3.inner = plan.inner
          /\ \A f \in Fields \ {"loop", "useless", "inner"} : r3[f] = r2[f]
        BY <2>3 DEF Fields
    <2> HIDE DEF r3, r
    <2>5. /\ r3.op1 = r1.op1 /\ r3.op2 = r1.op2 /\ r3.src = r1.src /\ r3.dst = r1.dst
          /\ r3.num = r2.num /\ r3.par1 = r2.par1 /\ r3.par2 = r2.par2
          /\ r3.mayNotRun = NoPair.mayNotRun /\ r3.dontReuse = NoPair.dontReuse
          /\ r3.dontCheck = NoPair.dontCheck
        BY <2>2, <2>3, <2>4 DEF Fields
    <2> QED BY <2>1, <2>2, <2>3, <2>4, <2>5, NoPairIs
<1> HIDE DEF r
<1>3. /\ DOMAIN q = Fields
      /\ q.set = plan.set /\ q.wait = plan.wait /\ q.start = ir.occ[plan.set].end
      /\ q.end = ir.occ[plan.wait].start
      /\ \A f \in Fields \ {"set", "wait", "start", "end"} : q[f] = r[f]
    BY <1>1, <1>2, BetweenIs
<1>4. /\ q.op1 = r.op1 /\ q.op2 = r.op2 /\ q.src = r.src /\ q.dst = r.dst /\ q.num = r.num
      /\ q.par1 = r.par1 /\ q.par2 = r.par2 /\ q.loop = r.loop /\ q.useless = r.useless
      /\ q.inner = r.inner /\ q.mayNotRun = r.mayNotRun /\ q.dontReuse = r.dontReuse
      /\ q.dontCheck = r.dontCheck
    BY <1>3 DEF Fields
<1> QED BY <1>2, <1>3, <1>4

StandsAt(t, q, k, pipe) ==
    /\ DOMAIN q = Fields
    /\ q.set = k /\ q.wait = k /\ q.src = pipe /\ q.dst = pipe
    /\ q.start = t.occ[k].start /\ q.end = t.occ[k].start
    /\ q.par1 = t.occ[k].parent /\ q.par2 = t.occ[k].parent
    /\ q.mayNotRun = FALSE /\ q.dontReuse = FALSE /\ q.num = 1 /\ q.inner = FALSE
    /\ IsBarrier(q)

LEMMA BarrierBeforeIs ==
    ASSUME NEW k, NEW pipe, NEW useless
    PROVE  StandsAt(ir, BarrierBefore(k, pipe, useless), k, pipe)
<1> DEFINE q == BarrierBefore(k, pipe, useless)
<1> DEFINE s == ir.occ[k].start
           y == ir.occ[k].parent
<1>1. q = [NoPair EXCEPT !.set = k, !.wait = k, !.src = pipe, !.dst = pipe, !.useless = useless,
                         !.start = s, !.end = s, !.par1 = y, !.par2 = y]
    BY DEF BarrierBefore
<1> HIDE DEF s, y, q
<1> DEFINE r1 == [NoPair EXCEPT !.set = k, !.wait = k, !.src = pipe, !.dst = pipe]
           r2 == [r1 EXCEPT !.useless = useless, !.start = s, !.end = s]
           r3 == [r2 EXCEPT !.par1 = y, !.par2 = y]
<1>2. q = r3
    BY <1>1
<1>3. /\ DOMAIN r1 = Fields /\ r1.set = k /\ r1.wait = k /\ r1.src = pipe /\ r1.dst = pipe
      /\ \A f \in Fields \ {"set", "wait", "src", "dst"} : r1[f] = NoPair[f]
    BY NoPairIs DEF Fields
<1> HIDE DEF r1
<1>4. /\ DOMAIN r2 = Fields /\ r2.start = s /\ r2.end = s
      /\ \A f \in Fields \ {"useless", "start", "end"} : r2[f] = r1[f]
    BY <1>3 DEF Fields
<1> HIDE DEF r2
<1>5. /\ DOMAIN r3 = Fields /\ r3.par1 = y /\ r3.par2 = y
      /\ \A f \in Fields \ {"par1", "par2"} : r3[f] = r2[f]
    BY <1>4 DEF Fields
<1> HIDE DEF r3
<1>6. /\ DOMAIN q = Fields
      /\ q.set = k /\ q.wait = k /\ q.src = pipe /\ q.dst = pipe /\ q.start = s /\ q.end = s
      /\ q.par1 = y /\ q.par2 = y /\ q.mayNotRun = FALSE /\ q.dontReuse = FALSE /\ q.num = 1
      /\ q.inner = FALSE
    <2>1. /\ r3.set = r1.set /\ r3.wait = r1.wait /\ r3.src = r1.src /\ r3.dst = r1.dst
          /\ r3.start = r2.start /\ r3.end = r2.end
          /\ r3.mayNotRun = NoPair.mayNotRun /\ r3.dontReuse = NoPair.dontReuse
          /\ r3.num = NoPair.num /\ r3.inner = NoPair.inner
        BY <1>3, <1>4, <1>5 DEF Fields
    <2> QED BY <1>2, <1>3, <1>4, <1>5, <2>1, NoPairIs
<1> QED BY <1>6 DEF IsBarrier, StandsAt, s, y, q

LEMMA MainPairIsOk ==
    ASSUME IsProgram(prog), next \in DOMAIN plans, plan.kind = "setwait", plan.ok,
           NEW q, q = MainPair
    PROVE  /\ PairOk(ir, q) /\ ~IsBarrier(q) /\ ~q.dontCheck /\ ~q.mayNotRun
           /\ q.num <= plan.num /\ plan.num \in Nat /\ plan.useless \in BOOLEAN
           /\ Channel(q) \in ChannelsOf(ir)
<1>1. WellBuilt(ir) /\ IsPlan(ir, plan)
    BY DEF IsProgram, ir, plan, plans
<1>2. /\ plan.num \in Nat \ {0} /\ plan.inner \in BOOLEAN /\ plan.useless \in BOOLEAN
      /\ plan.src \in PipesOf(ir) /\ plan.dst \in PipesOf(ir)
    BY <1>1, PlanFacts DEF RwPipes, PipesOf
<1>3. /\ plan.src # plan.dst /\ (plan.inner => plan.backward)
    BY <1>1, SetWaitPlanFacts
<1>4. /\ ir.occ[plan.set].end \in Nat /\ ir.occ[plan.wait].start \in Nat
      /\ ir.occ[plan.set].end <= ir.occ[plan.wait].start
      /\ AlignedScopes(ir, ir.occ[plan.set].parent, ir.occ[plan.wait].parent)
      /\ plan.backward => plan.loop # Top
    BY <1>1, MainPlace
<1>5. plan.inner => ir.occ[plan.loop].op \in DOMAIN ir.op
    BY <1>1, <1>3, <1>4, PlanLoop, OccFacts
<1>6. <<plan.src, plan.dst>> \in ChannelsOf(ir)
    BY <1>2, <1>3 DEF ChannelsOf
<1>7. /\ DOMAIN q = Fields
      /\ q.src = plan.src /\ q.dst = plan.dst
      /\ q.num = (IF plan.inner /\ <<plan.src, plan.dst>> \notin disabled THEN plan.num ELSE 1)
      /\ q.par1 = ir.occ[plan.set].parent /\ q.par2 = ir.occ[plan.wait].parent
      /\ q.loop = (IF plan.backward THEN ir.occ[plan.loop].op ELSE Top)
      /\ q.inner = plan.inner /\ q.mayNotRun \in BOOLEAN /\ q.dontReuse \in BOOLEAN
      /\ ~q.mayNotRun /\ ~q.dontReuse /\ ~q.dontCheck
      /\ q.start = ir.occ[plan.set].end /\ q.end = ir.occ[plan.wait].start
    BY MainPairIs
<1>8. q.num \in Nat \ {0} /\ q.num <= plan.num /\ (~q.inner => q.num = 1)
    BY <1>2, <1>7
<1>9. ~IsBarrier(q) /\ Channel(q) \in ChannelsOf(ir)
    BY <1>3, <1>6, <1>7 DEF IsBarrier, Channel
<1>10. q.inner => q.loop \in DOMAIN ir.op
    BY <1>3, <1>5, <1>7
<1> QED BY <1>2, <1>4, <1>7, <1>8, <1>9, <1>10 DEF PairOk

LEMMA BarrierIsOk ==
    ASSUME WellBuilt(ir), NEW k \in DOMAIN ir.occ, NEW pipe, NEW useless,
           NEW q, q = BarrierBefore(k, pipe, useless)
    PROVE  PairOk(ir, q) /\ IsBarrier(q)
<1>1. ir.occ[k].start \in Nat
    BY Built, TimeFacts
<1>2. StandsAt(ir, q, k, pipe)
    BY BarrierBeforeIs
<1>3. /\ q.mayNotRun \in BOOLEAN /\ q.dontReuse \in BOOLEAN /\ q.inner \in BOOLEAN
      /\ ~q.inner /\ ~q.mayNotRun
    BY <1>2 DEF StandsAt
<1> QED BY <1>1, <1>2, <1>3 DEF PairOk, AlignedScopes, StandsAt

(* A pair that stands for the crossing pairs inside a loop or condition.    *)
LEMMA MergedPairIsOk ==
    ASSUME WellBuilt(ir), NEW k \in DOMAIN ir.occ, NEW c \in ChannelsOf(ir),
           NEW q, q = MergedPair(c, k)
    PROVE  PairOk(ir, q) /\ q.dontCheck = TRUE
<1> DEFINE y == ir.occ[k].parent
           around == IF KindOf(ir, k) = "loop"
                     THEN Between(NoPair, BeforeLoop(k), AfterLoop(ir, k))
                     ELSE [NoPair EXCEPT !.start = ir.occ[k].start, !.end = ir.occ[k].end]
           r1 == [around EXCEPT !.src = c[1], !.dst = c[2], !.par1 = y, !.par2 = y]
           r2 == [r1 EXCEPT !.useless = TRUE, !.dontReuse = TRUE, !.dontCheck = TRUE]
<1>1. q = r2
    BY DEF MergedPair
<1>2. /\ DOMAIN around = Fields
      /\ around.start \in Nat /\ around.end \in Nat /\ around.start <= around.end
      /\ \A f \in Fields \ {"set", "wait", "start", "end"} : around[f] = NoPair[f]
    <2>1. CASE KindOf(ir, k) = "loop"
        <3> DEFINE bl == BeforeLoop(k)
                   al == AfterLoop(ir, k)
        <3>1. /\ bl \in DOMAIN ir.occ /\ al \in DOMAIN ir.occ
              /\ ir.occ[bl].end < ir.occ[k].start /\ ir.occ[k].end < ir.occ[al].start
            BY <2>1, LoopFacts
        <3> HIDE DEF bl, al
        <3>2. /\ ir.occ[bl].end \in Nat /\ ir.occ[k].start \in Nat /\ ir.occ[k].end \in Nat
              /\ ir.occ[al].start \in Nat /\ ir.occ[k].start < ir.occ[k].end
            BY <3>1, Built, TimeFacts
        <3>3. ir.occ[bl].end <= ir.occ[al].start
            BY <3>1, <3>2
        <3>4. around = Between(NoPair, bl, al)
            BY <2>1 DEF bl, al
        <3> HIDE DEF around
        <3>5. /\ DOMAIN around = Fields
              /\ around.start = ir.occ[bl].end /\ around.end = ir.occ[al].start
              /\ \A f \in Fields \ {"set", "wait", "start", "end"} : around[f] = NoPair[f]
            BY <3>4, NoPairIs, BetweenIs
        <3> QED BY <3>2, <3>3, <3>5
    <2>2. CASE KindOf(ir, k) # "loop"
        <3> DEFINE s == ir.occ[k].start
                   e == ir.occ[k].end
        <3>1. s \in Nat /\ e \in Nat /\ s < e
            BY Built, TimeFacts
        <3>2. around = [NoPair EXCEPT !.start = s, !.end = e]
            BY <2>2
        <3> HIDE DEF s, e, around
        <3>3. /\ DOMAIN around = Fields /\ around.start = s /\ around.end = e
              /\ \A f \in Fields \ {"set", "wait", "start", "end"} : around[f] = NoPair[f]
            BY <3>2, NoPairIs DEF Fields
        <3> QED BY <3>1, <3>3
    <2> QED BY <2>1, <2>2
<1> HIDE DEF around
<1>3. /\ DOMAIN r1 = Fields /\ r1.src = c[1] /\ r1.dst = c[2] /\ r1.par1 = y /\ r1.par2 = y
      /\ \A f \in Fields \ {"src", "dst", "par1", "par2"} : r1[f] = around[f]
    BY <1>2 DEF Fields
<1> HIDE DEF r1
<1>4. /\ DOMAIN r2 = Fields /\ r2.dontReuse = TRUE /\ r2.dontCheck = TRUE
      /\ \A f \in Fields \ {"useless", "dontReuse", "dontCheck"} : r2[f] = r1[f]
    BY <1>3 DEF Fields
<1> HIDE DEF r2
<1>5. /\ r2.src = c[1] /\ r2.dst = c[2] /\ r2.par1 = r2.par2
      /\ r2.start = around.start /\ r2.end = around.end
      /\ r2.num = NoPair.num /\ r2.inner = NoPair.inner /\ r2.mayNotRun = NoPair.mayNotRun
    <2>1. {"start", "end", "num", "inner", "mayNotRun"} \subseteq Fields
        BY DEF Fields
    <2>2. /\ r2.src = r1.src /\ r2.dst = r1.dst /\ r2.par1 = r1.par1 /\ r2.par2 = r1.par2
          /\ r2.start = r1.start /\ r2.end = r1.end /\ r2.num = r1.num /\ r2.inner = r1.inner
          /\ r2.mayNotRun = r1.mayNotRun
        BY <1>4 DEF Fields
    <2>3. /\ r1.start = around.start /\ r1.end = around.end /\ r1.num = around.num
          /\ r1.inner = around.inner /\ r1.mayNotRun = around.mayNotRun
        BY <1>3 DEF Fields
    <2>4. /\ around.num = NoPair.num /\ around.inner = NoPair.inner
          /\ around.mayNotRun = NoPair.mayNotRun
        BY <1>2 DEF Fields
    <2> QED BY <1>3, <2>2, <2>3, <2>4
<1>6. <<c[1], c[2]>> = c
    BY DEF ChannelsOf
<1>7. /\ r2.mayNotRun \in BOOLEAN /\ ~r2.mayNotRun /\ r2.inner \in BOOLEAN /\ ~r2.inner
      /\ r2.dontReuse \in BOOLEAN /\ r2.num = 1
    BY <1>4, <1>5, NoPairIs
<1>8. PairOk(ir, r2)
    BY <1>7, <1>2, <1>4, <1>5, <1>6, NoPairIs DEF PairOk, AlignedScopes, Channel
<1> QED BY <1>1, <1>4, <1>8

(* A pair that only reserves ids: insertExtraConflictPair.                  *)
MadeFrom(main, x) ==
    [Between(main, x.set, x.wait) EXCEPT
        !.useless = TRUE, !.dontReuse = TRUE, !.mayNotRun = x.mayNotRun,
        !.par1 = IF x.scope = Top THEN @ ELSE x.scope,
        !.par2 = IF x.scope = Top THEN @ ELSE x.scope]

LEMMA MadeIsOk ==
    ASSUME WellBuilt(ir), NEW main, PairOk(ir, main), ~main.mayNotRun, NEW x \in Spots(ir),
           NEW q, q = MadeFrom(main, x)
    PROVE  /\ PairOk(ir, q) /\ q.src = main.src /\ q.dst = main.dst
           /\ q.dontCheck = main.dontCheck
<1> DEFINE b == Between(main, x.set, x.wait)
           p1 == IF x.scope = Top THEN b.par1 ELSE x.scope
           p2 == IF x.scope = Top THEN b.par2 ELSE x.scope
           r1 == [b EXCEPT !.useless = TRUE, !.dontReuse = TRUE, !.mayNotRun = x.mayNotRun]
           r2 == [r1 EXCEPT !.par1 = p1, !.par2 = p2]
<1>1. DOMAIN main = Fields
    BY DEF PairOk
<1>2. /\ DOMAIN b = Fields
      /\ b.start = ir.occ[x.set].end /\ b.end = ir.occ[x.wait].start
      /\ \A f \in Fields \ {"set", "wait", "start", "end"} : b[f] = main[f]
    <2> HIDE DEF b
    <2>1. b = Between(main, x.set, x.wait)
        BY DEF b
    <2> QED BY <1>1, <2>1, BetweenIs
<1> HIDE DEF b
<1>3. q = r2
    <2>1. q = [b EXCEPT
        !.useless = TRUE, !.dontReuse = TRUE, !.mayNotRun = x.mayNotRun,
        !.par1 = IF x.scope = Top THEN @ ELSE x.scope,
        !.par2 = IF x.scope = Top THEN @ ELSE x.scope]
        BY DEF MadeFrom, b
    <2>2. /\ r1.par1 = b.par1 /\ r1.par2 = b.par2
        BY <1>2 DEF Fields
    <2>3. [r1 EXCEPT !.par1 = p1].par2 = r1.par2
        BY <1>2 DEF Fields
    <2> QED BY <2>1, <2>2, <2>3
<1>4. /\ DOMAIN r1 = Fields /\ r1.dontReuse = TRUE /\ r1.mayNotRun = x.mayNotRun
      /\ \A f \in Fields \ {"useless", "dontReuse", "mayNotRun"} : r1[f] = b[f]
    BY <1>2 DEF Fields
<1> HIDE DEF r1
<1>5. /\ DOMAIN r2 = Fields /\ r2.par1 = p1 /\ r2.par2 = p2
      /\ \A f \in Fields \ {"par1", "par2"} : r2[f] = r1[f]
    BY <1>4 DEF Fields
<1> HIDE DEF r2
<1>6. /\ r2.dontReuse = TRUE /\ r2.mayNotRun = x.mayNotRun
      /\ r2.start = ir.occ[x.set].end /\ r2.end = ir.occ[x.wait].start
      /\ r2.num = main.num /\ r2.inner = main.inner /\ r2.loop = main.loop
      /\ r2.src = main.src /\ r2.dst = main.dst /\ r2.dontCheck = main.dontCheck
    <2>1. /\ r2.dontReuse = r1.dontReuse /\ r2.mayNotRun = r1.mayNotRun
          /\ r2.start = r1.start /\ r2.end = r1.end /\ r2.num = r1.num /\ r2.inner = r1.inner
          /\ r2.loop = r1.loop /\ r2.src = r1.src /\ r2.dst = r1.dst
          /\ r2.dontCheck = r1.dontCheck
        BY <1>5 DEF Fields
    <2>2. /\ r1.start = b.start /\ r1.end = b.end /\ r1.num = b.num /\ r1.inner = b.inner
          /\ r1.loop = b.loop /\ r1.src = b.src /\ r1.dst = b.dst /\ r1.dontCheck = b.dontCheck
        BY <1>4 DEF Fields
    <2>3. /\ b.num = main.num /\ b.inner = main.inner /\ b.loop = main.loop /\ b.src = main.src
          /\ b.dst = main.dst /\ b.dontCheck = main.dontCheck
        BY <1>2 DEF Fields
    <2> QED BY <1>2, <1>4, <2>1, <2>2, <2>3
<1>7. /\ x.set \in DOMAIN ir.occ /\ x.wait \in DOMAIN ir.occ /\ x.mayNotRun \in BOOLEAN
      /\ ir.occ[x.set].end <= ir.occ[x.wait].start
    BY DEF Spots
<1>8. ir.occ[x.set].end \in Nat /\ ir.occ[x.wait].start \in Nat
    BY <1>7, Built, TimeFacts
<1>9. AlignedScopes(ir, p1, p2)
    <2>1. b.par1 = main.par1 /\ b.par2 = main.par2
        BY <1>2 DEF Fields
    <2>2. AlignedScopes(ir, main.par1, main.par2)
        BY DEF PairOk
    <2> QED BY <2>1, <2>2 DEF AlignedScopes
<1> HIDE DEF p1, p2
<1>10. ~IsBarrier(q) => Channel(q) \in ChannelsOf(ir)
    BY <1>3, <1>6 DEF PairOk, IsBarrier, Channel
<1> QED BY <1>3, <1>5, <1>6, <1>7, <1>8, <1>9, <1>10 DEF PairOk

LEMMA ExtraPairsAre ==
    ASSUME IsProgram(prog), next \in DOMAIN plans, plan.kind = "setwait", plan.ok,
           NEW main, main = MainPair
    PROVE  /\ Listed(ExtraPairs(main))
           /\ \A q \in ToSet(ExtraPairs(main)) :
                 /\ PairOk(ir, q) /\ q.src = main.src /\ q.dst = main.dst
                 /\ q.dontCheck = main.dontCheck
<1> DEFINE xs == Extras(ir, plan, main.num)
           es == [i \in DOMAIN xs |-> MadeFrom(main, xs[i])]
           R  == {es[i] : i \in DOMAIN xs}
<1>1. ExtraPairs(main) = es
    BY DEF ExtraPairs, MadeFrom
<1>2. WellBuilt(ir) /\ IsPlan(ir, plan)
    BY DEF IsProgram, ir, plan, plans
<1>3. xs \in Seq(Spots(ir))
    BY <1>2, ExtrasAreSpots
<1>4. DOMAIN xs = 1 .. Len(xs) /\ Len(xs) \in Nat /\ \A i \in DOMAIN xs : xs[i] \in Spots(ir)
    <2> DEFINE T == Spots(ir)
    <2>1. xs \in Seq(T)
        BY <1>3
    <2> HIDE DEF xs, T
    <2>2. DOMAIN xs = 1 .. Len(xs) /\ Len(xs) \in Nat /\ \A i \in DOMAIN xs : xs[i] \in T
        BY <2>1
    <2> QED BY <2>2 DEF T
<1> HIDE DEF xs
<1>5. PairOk(ir, main) /\ ~main.mayNotRun
    BY MainPairIsOk
<1>6. ASSUME NEW i \in DOMAIN xs
      PROVE  /\ PairOk(ir, es[i]) /\ es[i].src = main.src /\ es[i].dst = main.dst
             /\ es[i].dontCheck = main.dontCheck
    <2> DEFINE x == xs[i]
               q == MadeFrom(main, x)
    <2>1. x \in Spots(ir)
        BY <1>4
    <2> HIDE DEF x, q
    <2>2. /\ PairOk(ir, q) /\ q.src = main.src /\ q.dst = main.dst
          /\ q.dontCheck = main.dontCheck
        <3>1. q = MadeFrom(main, x)
            BY DEF q
        <3> QED BY <1>2, <1>5, <2>1, <3>1, MadeIsOk
    <2> QED BY <2>2 DEF q, x
<1>7. es \in Seq(R)
    <2>1. es \in [1 .. Len(xs) -> R]
        BY <1>4
    <2> HIDE DEF es, R
    <2> QED BY <1>4, <2>1, SeqDef
<1> HIDE DEF es
<1>8. Listed(es) /\ ToSet(es) \subseteq R
    <2> HIDE DEF R
    <2> QED BY <1>7, SeqOfIts
<1>9. \A q \in R : \E i \in DOMAIN xs : q = es[i]
    OBVIOUS
<1> QED BY <1>1, <1>6, <1>8, <1>9

(* A pair with its node, and with or without its mirrors.                   *)
Like(q, r, n) ==
    /\ DOMAIN q = Fields /\ q.node = n
    /\ \A f \in Fields \ {"node", "mirrorSet", "mirrorWait"} : q[f] = r[f]

LEMMA LikeFacts ==
    ASSUME NEW q, NEW r, NEW n, Like(q, r, n), NEW t
    PROVE  /\ Channel(q) = Channel(r) /\ q.dontCheck = r.dontCheck
           /\ (IsBarrier(q) <=> IsBarrier(r))
           /\ PairOk(t, r) => PairOk(t, q)
           /\ \A x : Intersect(q, x) <=> Intersect(r, x)
<1>1. /\ DOMAIN q = Fields /\ q.start = r.start /\ q.end = r.end /\ q.num = r.num
      /\ q.inner = r.inner /\ q.mayNotRun = r.mayNotRun /\ q.dontReuse = r.dontReuse
      /\ q.par1 = r.par1 /\ q.par2 = r.par2 /\ q.loop = r.loop /\ q.src = r.src
      /\ q.dst = r.dst /\ q.dontCheck = r.dontCheck
    BY DEF Like, Fields
<1>2. Channel(q) = Channel(r) /\ (IsBarrier(q) <=> IsBarrier(r))
    BY <1>1 DEF Channel, IsBarrier
<1>3. PairOk(t, r) => PairOk(t, q)
    BY <1>1, <1>2 DEF PairOk
<1>4. \A x : Intersect(q, x) <=> Intersect(r, x)
    BY <1>1, <1>2 DEF Intersect
<1> QED BY <1>1, <1>2, <1>3, <1>4

Kept(pairs, n) == [i \in DOMAIN pairs |-> [pairs[i] EXCEPT !.node = n]]

(* The first of them is that of `main', the others those of `extras'.       *)
AreKept(kept, pairs, main, extras, n) ==
    /\ Like(WithMirrors(kept[1]), main, n) /\ pairs[1] = main
    /\ Listed(Tail(kept))
    /\ \A q \in ToSet(Tail(kept)) : \E i \in DOMAIN pairs :
          pairs[i] \in ToSet(extras) /\ Like(q, pairs[i], n)
    /\ DOMAIN pairs = 1 .. Len(pairs) /\ Len(pairs) \in Nat \ {0}
    /\ \A i \in DOMAIN pairs : pairs[i] = main \/ pairs[i] \in ToSet(extras)

LEMMA KeptAreLike ==
    ASSUME NEW main, DOMAIN main = Fields, NEW extras, Listed(extras),
           \A q \in ToSet(extras) : DOMAIN q = Fields, NEW n,
           NEW pairs, pairs = <<main>> \o extras, NEW kept, kept = Kept(pairs, n)
    PROVE  AreKept(kept, pairs, main, extras, n)
<1> DEFINE m == Len(extras)
<1>1. kept = [i \in DOMAIN pairs |-> [pairs[i] EXCEPT !.node = n]]
    BY DEF Kept
<1>2. m \in Nat /\ DOMAIN extras = 1 .. m /\ \A i \in 1 .. m : extras[i] \in ToSet(extras)
    <2>1. extras \in Seq(ToSet(extras))
        BY DEF Listed
    <2> DEFINE T == ToSet(extras)
    <2> HIDE DEF T
    <2>2. m \in Nat /\ DOMAIN extras = 1 .. m /\ \A i \in 1 .. m : extras[i] \in T
        BY <2>1, LenProperties DEF T
    <2> QED BY <2>2 DEF T
<1>3. /\ DOMAIN pairs = 1 .. m + 1 /\ Len(pairs) = m + 1 /\ pairs[1] = main
      /\ \A i \in 1 .. m : pairs[i + 1] = extras[i]
    <2> DEFINE U == {main} \cup ToSet(extras)
    <2>1. <<main>> \in Seq(U) /\ Len(<<main>>) = 1 /\ <<main>>[1] = main
        <3>1. main \in U
            OBVIOUS
        <3> HIDE DEF U
        <3> QED BY <3>1, OneInSeq
    <2>2. extras \in Seq(U)
        <3>1. extras \in Seq(ToSet(extras)) /\ ToSet(extras) \subseteq U
            BY DEF Listed
        <3> DEFINE T == ToSet(extras)
        <3> HIDE DEF T, U
        <3> QED BY <3>1 DEF T
    <2> HIDE DEF U
    <2>3. /\ pairs \in Seq(U) /\ Len(pairs) = 1 + m
          /\ \A i \in 1 .. 1 + m : pairs[i] = IF i <= 1 THEN <<main>>[i] ELSE extras[i - 1]
        BY <2>1, <2>2, ConcatProperties
    <2>4. DOMAIN pairs = 1 .. m + 1 /\ Len(pairs) = m + 1
        BY <1>2, <2>3, LenProperties
    <2>5. pairs[1] = main
        BY <1>2, <2>1, <2>3
    <2>6. ASSUME NEW i \in 1 .. m PROVE pairs[i + 1] = extras[i]
        <3>1. i + 1 \in 1 .. 1 + m /\ ~(i + 1 <= 1) /\ i + 1 - 1 = i
            BY <1>2
        <3> QED BY <2>3, <3>1
    <2> QED BY <2>4, <2>5, <2>6
<1>4. \A i \in DOMAIN pairs : pairs[i] = main \/ pairs[i] \in ToSet(extras)
    <2> SUFFICES ASSUME NEW i \in DOMAIN pairs, i # 1
                 PROVE  pairs[i] \in ToSet(extras)
        BY <1>3
    <2>1. i - 1 \in 1 .. m /\ (i - 1) + 1 = i
        BY <1>2, <1>3
    <2> QED BY <1>2, <1>3, <2>1
<1>5. \A i \in DOMAIN pairs : DOMAIN pairs[i] = Fields
    BY <1>4
<1>6. /\ DOMAIN kept = 1 .. m + 1
      /\ \A i \in DOMAIN pairs : Like(kept[i], pairs[i], n)
    <2>1. ASSUME NEW i \in DOMAIN pairs
          PROVE  Like([pairs[i] EXCEPT !.node = n], pairs[i], n)
        <3> DEFINE q == pairs[i]
        <3>1. DOMAIN q = Fields
            BY <1>5
        <3> HIDE DEF q
        <3>2. Like([q EXCEPT !.node = n], q, n)
            BY <3>1 DEF Like, Fields
        <3> QED BY <3>2 DEF q
    <2> QED BY <1>1, <1>3, <2>1
<1>7. Like(WithMirrors(kept[1]), main, n)
    <2> DEFINE q == kept[1]
    <2>1. Like(q, main, n)
        BY <1>2, <1>3, <1>6
    <2> HIDE DEF q
    <2>2. Like(WithMirrors(q), main, n)
        <3> DEFINE v == MirrorSetOcc(ir, plan)
                   w == MirrorWaitOcc(ir, plan)
                   z == [q EXCEPT !.mirrorSet = v, !.mirrorWait = w]
        <3>1. Like(z, main, n)
            <4> HIDE DEF v, w
            <4> QED BY <2>1 DEF Like, Fields
        <3>2. WithMirrors(q) = IF plan.inside THEN z ELSE q
            BY DEF WithMirrors
        <3> HIDE DEF z
        <3> QED BY <2>1, <3>1, <3>2
    <2> QED BY <2>2 DEF q
<1> HIDE DEF m
<1>8. Listed(kept)
    <2> DEFINE k == m + 1
    <2>1. k \in Nat /\ kept = [i \in 1 .. k |-> kept[i]]
        <3>1. kept = [i \in DOMAIN kept |-> kept[i]]
            BY <1>1
        <3>2. DOMAIN kept = 1 .. k
            BY <1>6
        <3>3. k \in Nat
            BY <1>2
        <3> HIDE DEF k
        <3> QED BY <3>1, <3>2, <3>3
    <2> HIDE DEF k
    <2> QED BY <2>1, FunctionIsListed
<1>9. /\ Listed(Tail(kept)) /\ DOMAIN Tail(kept) = 1 .. m
      /\ \A i \in 1 .. m : Tail(kept)[i] = kept[i + 1]
    <2> DEFINE k == m + 1
    <2>1. OneMore(k, m)
        BY <1>2 DEF OneMore
    <2>2. OfLength(kept, k)
        BY <1>6, <1>8 DEF OfLength
    <2> HIDE DEF k
    <2>3. IsTail(Tail(kept), kept, m)
        BY <2>1, <2>2, Tailed
    <2> QED BY <2>3 DEF IsTail
<1>10. \A q \in ToSet(Tail(kept)) : \E i \in DOMAIN pairs :
          pairs[i] \in ToSet(extras) /\ Like(q, pairs[i], n)
    <2> DEFINE s == Tail(kept)
    <2>1. DOMAIN s = 1 .. m /\ \A i \in 1 .. m : s[i] = kept[i + 1]
        BY <1>9
    <2> HIDE DEF s
    <2>2. ASSUME NEW j \in 1 .. m
          PROVE  \E i \in DOMAIN pairs :
                            pairs[i] \in ToSet(extras) /\ Like(s[j], pairs[i], n)
        <3>1. j + 1 \in 1 .. m + 1
            BY <1>2
        <3>2. j + 1 \in DOMAIN pairs /\ pairs[j + 1] = extras[j] /\ s[j] = kept[j + 1]
            BY <1>3, <2>1, <3>1
        <3>3. pairs[j + 1] \in ToSet(extras)
            BY <1>2, <3>2
        <3> QED BY <1>6, <3>2, <3>3
    <2>3. \A q \in ToSet(s) : \E j \in 1 .. m : q = s[j]
        BY <2>1 DEF ToSet
    <2>4. \A q \in ToSet(s) : \E i \in DOMAIN pairs :
              pairs[i] \in ToSet(extras) /\ Like(q, pairs[i], n)
        BY <2>2, <2>3
    <2> QED BY <2>4 DEF s
<1>11. DOMAIN pairs = 1 .. Len(pairs) /\ Len(pairs) \in Nat \ {0}
    BY <1>2, <1>3
<1> QED BY <1>3, <1>4, <1>7, <1>9, <1>10, <1>11 DEF AreKept
-----------------------------------------------------------------------------
(***************************************************************************)
(* The graphs of the channels only grow within a run.                       *)
(***************************************************************************)
Grows(t, gr, hr) ==
    /\ DOMAIN hr = ChannelsOf(t)
    /\ \A c \in ChannelsOf(t) : /\ DOMAIN gr[c].nodes \subseteq DOMAIN hr[c].nodes
                                /\ gr[c].edges \subseteq hr[c].edges

LEMMA GrowingKeeps ==
    ASSUME NEW t, NEW gr, NEW hr, Grows(t, gr, hr), NEW S, PairsOk(t, S),
           HaveNodes(gr, S), Linked(gr, S), NEW sy, SyncedOk(t, gr, sy)
    PROVE  HaveNodes(hr, S) /\ Linked(hr, S) /\ SyncedOk(t, hr, sy)
<1>1. \A q \in S : ~IsBarrier(q) => Channel(q) \in ChannelsOf(t)
    BY DEF PairsOk, PairOk
<1>2. HaveNodes(hr, S)
    BY <1>1 DEF HaveNodes, HasNode, Grows
<1>3. Linked(hr, S)
    BY <1>1 DEF Linked, AreLinked, Grows, Intersect
<1>4. SyncedOk(t, hr, sy)
    BY DEF SyncedOk, Grows
<1> QED BY <1>2, <1>3, <1>4

LEMMA IntersectCommutes ==
    ASSUME NEW q, NEW r
    PROVE  Intersect(q, r) <=> Intersect(r, q)
BY DEF Intersect

(* Pairs of one node, linked with those before, are linked together.        *)
LEMMA LinkedTogether ==
    ASSUME NEW gr, NEW S, Linked(gr, S), NEW T, NEW n, \A q \in T : q.node = n,
           \A q \in T, r \in S : AreLinked(gr, q, r)
    PROVE  Linked(gr, S \cup T)
<1> SUFFICES ASSUME NEW q \in S \cup T, NEW r \in S \cup T
             PROVE  AreLinked(gr, q, r)
    BY DEF Linked
<1>1. CASE q \in S /\ r \in S
    BY <1>1 DEF Linked
<1>2. CASE q \in T /\ r \in T
    BY <1>2 DEF AreLinked
<1>3. CASE q \in T /\ r \in S
    BY <1>3
<1>4. CASE q \in S /\ r \in T
    <2>1. AreLinked(gr, r, q)
        BY <1>4
    <2>2. Intersect(q, r) => Intersect(r, q) /\ Channel(q) = Channel(r)
        BY IntersectCommutes DEF Intersect
    <2>3. {q.node, r.node} = {r.node, q.node}
        OBVIOUS
    <2> QED BY <2>1, <2>2, <2>3 DEF AreLinked
<1> QED BY <1>1, <1>2, <1>3, <1>4

(* The graph of a channel with the node of a new pair, and its edges.       *)
LEMMA WithEdgesIs ==
    ASSUME GraphsOk(ir, graph), HaveNodes(graph, ToSet(chosen)), SyncedOk(ir, graph, synced),
           NEW main, PairOk(ir, main), ~IsBarrier(main),
           NEW pairs, NEW k, \A i \in 1 .. k : Channel(pairs[i]) = Channel(main),
           NEW n, n = NodeOf(main), NEW g, g = WithEdges(main, pairs, k)
    PROVE  /\ GraphOk(g) /\ n \in DOMAIN g.nodes
           /\ DOMAIN graph[Channel(main)].nodes \subseteq DOMAIN g.nodes
           /\ graph[Channel(main)].edges \subseteq g.edges
           /\ \A i \in 1 .. k : \A r \in ToSet(chosen) :
                 Intersect(pairs[i], r) /\ n # r.node => {n, r.node} \in g.edges
<1> DEFINE c == Channel(main)
           old == graph[c]
           others == (UNION {IntersectingNodes(pairs[i]) : i \in 1 .. k}) \ {n}
           nodes == IF n \in DOMAIN old.nodes THEN old.nodes
                    ELSE Append(old.nodes, [num |-> main.num, rev |-> ReversedPriority])
           edges == old.edges \cup {{n, m} : m \in others}
<1>1. g = [nodes |-> nodes, edges |-> edges]
    BY DEF WithEdges
<1>2. c \in ChannelsOf(ir) /\ main.num \in Nat
    BY DEF PairOk
<1>3. GraphOk(old)
    BY <1>2 DEF GraphsOk
<1>4. others \subseteq DOMAIN old.nodes
    <2> SUFFICES ASSUME NEW i \in 1 .. k, NEW r \in ToSet(chosen), Intersect(pairs[i], r)
                 PROVE  r.node \in DOMAIN old.nodes
        BY DEF IntersectingNodes
    <2>1. Channel(r) = c /\ ~IsBarrier(r) /\ ~r.dontCheck
        BY DEF Intersect
    <2>2. HasNode(graph, r)
        BY DEF HaveNodes
    <2> QED BY <2>1, <2>2 DEF HasNode
<1>5. \A i \in 1 .. k : \A r \in ToSet(chosen) :
         Intersect(pairs[i], r) /\ n # r.node => {n, r.node} \in edges
    <2> TAKE i \in 1 .. k
    <2> TAKE r \in ToSet(chosen)
    <2> HAVE Intersect(pairs[i], r) /\ n # r.node
    <2>1. r.node \in IntersectingNodes(pairs[i])
        BY DEF IntersectingNodes
    <2>2. r.node \in others
        BY <2>1
    <2> HIDE DEF others
    <2> QED BY <2>2
<1>6. n \in DOMAIN old.nodes \/ n = Len(old.nodes) + 1
    <2>1. CASE Key(main) \in DOMAIN synced
        <3>1. KeyChannel(Key(main)) = Channel(main)
            BY DEF KeyChannel, Key, Channel
        <3> QED BY <2>1, <3>1 DEF NodeOf, SyncedOk
    <2>2. CASE Key(main) \notin DOMAIN synced
        BY <2>2 DEF NodeOf
    <2> QED BY <2>1, <2>2
<1> HIDE DEF others
<1>7. /\ nodes \in Seq(NodeType) /\ n \in DOMAIN nodes
      /\ DOMAIN old.nodes \subseteq DOMAIN nodes
    <2> DEFINE s == old.nodes
               e == [num |-> main.num, rev |-> ReversedPriority]
               T == NodeType
    <2>1. s \in Seq(T)
        BY <1>3 DEF GraphOk, IsGraph
    <2>2. e \in T
        BY <1>2 DEF NodeType, ReversedPriority
    <2>3. n \in DOMAIN s \/ n = Len(s) + 1
        BY <1>6
    <2> HIDE DEF s, e, T
    <2>4. /\ Append(s, e) \in Seq(T) /\ DOMAIN Append(s, e) = 1 .. Len(s) + 1
          /\ DOMAIN s = 1 .. Len(s) /\ Len(s) \in Nat
        BY <2>1, <2>2, AppendProperties, LenProperties
    <2>5. Len(s) + 1 \in 1 .. Len(s) + 1 /\ 1 .. Len(s) \subseteq 1 .. Len(s) + 1
        BY <2>4
    <2>6. nodes = IF n \in DOMAIN s THEN s ELSE Append(s, e)
        BY DEF s, e
    <2>7. nodes \in Seq(T) /\ n \in DOMAIN nodes /\ DOMAIN s \subseteq DOMAIN nodes
        BY <2>1, <2>3, <2>4, <2>5, <2>6
    <2> QED BY <2>7 DEF s, T
<1> HIDE DEF nodes
<1>8. UNION edges \subseteq DOMAIN nodes
    <2>1. UNION old.edges \subseteq DOMAIN old.nodes
        BY <1>3 DEF GraphOk
    <2> QED BY <1>4, <1>7, <2>1
<1> HIDE DEF edges
<1>9. g.nodes = nodes /\ g.edges = edges
    BY <1>1
<1>10. old.edges \subseteq edges
    BY DEF edges
<1> QED BY <1>5, <1>7, <1>8, <1>9, <1>10 DEF GraphOk, IsGraph
-----------------------------------------------------------------------------
(***************************************************************************)
(* The barriers over all pipes, and the pairs a run starts from.            *)
(***************************************************************************)
LEMMA FlatOf ==
    ASSUME NEW m \in Nat, NEW T, NEW seqs, seqs = [i \in 1 .. m |-> seqs[i]],
           \A i \in 1 .. m : Listed(seqs[i]) /\ ToSet(seqs[i]) \subseteq T
    PROVE  /\ Listed(FlattenSeq(seqs)) /\ ToSet(FlattenSeq(seqs)) \subseteq T
           /\ \A i \in 1 .. m : ToSet(seqs[i]) \subseteq ToSet(FlattenSeq(seqs))
<1>1. Listed(seqs) /\ Len(seqs) = m /\ DOMAIN seqs = 1 .. m
    BY FunctionIsListed
<1>2. m = 0 => seqs = <<>>
    <2> DEFINE R == ToSet(seqs)
    <2>1. seqs \in Seq(R)
        BY <1>1 DEF Listed
    <2> HIDE DEF R
    <2> QED BY <1>1, <2>1, EmptySeq
<1>3. ASSUME NEW i \in 1 .. m PROVE seqs[i] \in Seq(T)
    <2> DEFINE s == seqs[i]
               R == ToSet(s)
    <2>1. s \in Seq(R) /\ R \subseteq T
        BY DEF Listed
    <2> HIDE DEF R, s
    <2>2. s \in Seq(T)
        BY <2>1
    <2> QED BY <2>2 DEF s
<1>4. /\ FlattenSeq(seqs) \in Seq(T)
      /\ \A i \in 1 .. m : ToSet(seqs[i]) \subseteq ToSet(FlattenSeq(seqs))
    BY <1>1, <1>2, <1>3, Flattened
<1> QED BY <1>4, SeqOfIts

LEMMA Singled ==
    ASSUME NEW e
    PROVE  Listed(<<e>>) /\ ToSet(<<e>>) = {e} /\ Listed(<<>>) /\ ToSet(<<>>) = {}
BY DEF Listed, ToSet

LEMMA OccSequence ==
    ASSUME WellBuilt(ir)
    PROVE  /\ Len(ir.occ) \in Nat /\ DOMAIN ir.occ = 1 .. Len(ir.occ)
           /\ Len(ir.op) \in Nat /\ DOMAIN ir.op = 1 .. Len(ir.op)
BY DEF WellBuilt, IsTree

LEMMA OccurrencesAre ==
    ASSUME WellBuilt(ir), NEW x
    PROVE  /\ Listed(Occurrences(x))
           /\ \A k : k \in ToSet(Occurrences(x)) <=> k \in DOMAIN ir.occ /\ ir.occ[k].op = x
<1> DEFINE m == Len(ir.occ)
           T == {k \in DOMAIN ir.occ : ir.occ[k].op = x}
           seqs == [k \in DOMAIN ir.occ |-> IF ir.occ[k].op = x THEN <<k>> ELSE <<>>]
<1>1. m \in Nat /\ DOMAIN ir.occ = 1 .. m
    BY OccSequence
<1>2. ASSUME NEW k \in 1 .. m
      PROVE  /\ Listed(seqs[k]) /\ ToSet(seqs[k]) \subseteq T
             /\ ir.occ[k].op = x => ToSet(seqs[k]) = {k}
    <2> DEFINE s == seqs[k]
    <2>1. s = IF ir.occ[k].op = x THEN <<k>> ELSE <<>>
        BY <1>1
    <2>2. ir.occ[k].op = x => k \in T
        BY <1>1
    <2> HIDE DEF s, T
    <2>3. Listed(s) /\ ToSet(s) \subseteq T /\ (ir.occ[k].op = x => ToSet(s) = {k})
        BY <2>1, <2>2, Singled
    <2> QED BY <2>3 DEF s
<1>3. seqs = [i \in 1 .. m |-> seqs[i]]
    BY <1>1
<1>4. Occurrences(x) = FlattenSeq(seqs)
    BY DEF Occurrences
<1>5. \A k : k \in T <=> k \in 1 .. m /\ ir.occ[k].op = x
    BY <1>1
<1> HIDE DEF seqs, T, m
<1>6. /\ Listed(FlattenSeq(seqs)) /\ ToSet(FlattenSeq(seqs)) \subseteq T
      /\ \A i \in 1 .. m : ToSet(seqs[i]) \subseteq ToSet(FlattenSeq(seqs))
    BY <1>1, <1>2, <1>3, FlatOf
<1>7. \A k \in 1 .. m : ir.occ[k].op = x => k \in ToSet(FlattenSeq(seqs))
    BY <1>2, <1>6
<1> QED BY <1>1, <1>4, <1>5, <1>6, <1>7

LEMMA BarrierAllAre ==
    ASSUME WellBuilt(ir), NEW x, NEW useless, NEW bs, bs = BarrierAllBefore(x, useless)
    PROVE  /\ Listed(bs)
           /\ \A q \in ToSet(bs) : PairOk(ir, q) /\ IsBarrier(q)
           /\ \A k \in DOMAIN ir.occ : ir.occ[k].op = x =>
                 \E q \in ToSet(bs) : StandsAt(ir, q, k, All)
<1> DEFINE ks == Occurrences(x)
           m == Len(ks)
<1>1. /\ Listed(ks)
      /\ \A k : k \in ToSet(ks) <=> k \in DOMAIN ir.occ /\ ir.occ[k].op = x
    BY OccurrencesAre
<1>2. bs = [i \in DOMAIN ks |-> BarrierBefore(ks[i], All, useless \/ i > 1)]
    BY DEF BarrierAllBefore
<1> HIDE DEF ks
<1>3. m \in Nat /\ DOMAIN ks = 1 .. m
    <2> DEFINE R == ToSet(ks)
    <2>1. ks \in Seq(R)
        BY <1>1 DEF Listed
    <2> HIDE DEF R
    <2> QED BY <2>1
<1> HIDE DEF m
<1>4. bs = [i \in 1 .. m |-> bs[i]]
    BY <1>2, <1>3
<1>5. Listed(bs) /\ DOMAIN bs = 1 .. m
    BY <1>3, <1>4, FunctionIsListed
<1>6. ASSUME NEW i \in 1 .. m
      PROVE  /\ PairOk(ir, bs[i]) /\ IsBarrier(bs[i]) /\ StandsAt(ir, bs[i], ks[i], All)
    <2> DEFINE k == ks[i]
               b == useless \/ i > 1
               q == bs[i]
    <2>1. k \in DOMAIN ir.occ
        BY <1>1, <1>3 DEF ToSet
    <2>2. q = BarrierBefore(k, All, b)
        BY <1>2, <1>3
    <2> HIDE DEF k, b, q
    <2>3. PairOk(ir, q) /\ IsBarrier(q) /\ StandsAt(ir, q, k, All)
        BY <2>1, <2>2, BarrierIsOk, BarrierBeforeIs
    <2> QED BY <2>3 DEF q, k
<1>7. ASSUME NEW k \in DOMAIN ir.occ, ir.occ[k].op = x
      PROVE  \E q \in ToSet(bs) : StandsAt(ir, q, k, All)
    <2>1. k \in ToSet(ks)
        BY <1>1, <1>7
    <2>2. PICK i \in 1 .. m : ks[i] = k
        BY <1>3, <2>1 DEF ToSet
    <2>3. bs[i] \in ToSet(bs)
        BY <1>5 DEF ToSet
    <2> QED BY <1>6, <2>2, <2>3
<1>8. \A q \in ToSet(bs) : \E i \in 1 .. m : q = bs[i]
    BY <1>5 DEF ToSet
<1> QED BY <1>5, <1>6, <1>7, <1>8

LEMMA SetListed ==
    ASSUME NEW S, IsFiniteSet(S)
    PROVE  /\ Listed(SetToSeq(S)) /\ ToSet(SetToSeq(S)) \subseteq S
           /\ Len(SetToSeq(S)) \in Nat /\ DOMAIN SetToSeq(S) = 1 .. Len(SetToSeq(S))
<1> DEFINE m == Cardinality(S)
           f == SetToSeq(S)
<1>1. m \in Nat
    BY FS_CardinalityType
<1>2. ExistsBijection(1 .. m, S)
    BY FS_CardinalityType
<1>3. \E h \in [1 .. m -> S] : IsInjective(h)
    BY <1>2 DEF ExistsBijection, Bijection, Injection
<1>4. f \in [1 .. m -> S]
    BY <1>3 DEF SetToSeq
<1> HIDE DEF m, f
<1>5. f \in Seq(S)
    BY <1>1, <1>4, SeqDef
<1>6. Listed(f) /\ ToSet(f) \subseteq S
    BY <1>5, SeqOfIts
<1>7. Len(f) \in Nat /\ DOMAIN f = 1 .. Len(f)
    BY <1>5
<1> QED BY <1>6, <1>7 DEF f

LEMMA ChannelsFinite ==
    ASSUME WellBuilt(ir)
    PROVE  IsFiniteSet(ChannelsOf(ir))
<1> DEFINE D == {y \in DOMAIN ir.op : IsRw(ir.op, y)}
           pipe == [x \in D |-> ir.op[x].pipe]
           R == {pipe[x] : x \in D}
<1>1. IsFiniteSet(D)
    <2>1. Len(ir.op) \in Int /\ 1 \in Int
        BY OccSequence
    <2>2. IsFiniteSet(1 .. Len(ir.op))
        BY <2>1, FS_Interval
    <2>3. D \subseteq 1 .. Len(ir.op)
        BY OccSequence
    <2> HIDE DEF D
    <2> QED BY <2>2, <2>3, FS_Subset
<1>2. PipesOf(ir) = R
    BY DEF PipesOf
<1> HIDE DEF D, pipe
<1>3. IsFiniteSet(R)
    BY <1>1, ImageFinite
<1> HIDE DEF R
<1>4. IsFiniteSet(R \X R)
    BY <1>3, FS_Product
<1>5. ChannelsOf(ir) \subseteq R \X R
    BY <1>2 DEF ChannelsOf
<1> QED BY <1>4, <1>5, FS_Subset

LEMMA MergedPairsAre ==
    ASSUME WellBuilt(ir), NEW m, MergedOk(ir, m)
    PROVE  /\ Listed(MergedPairs(m))
           /\ \A q \in ToSet(MergedPairs(m)) : PairOk(ir, q) /\ q.dontCheck = TRUE
<1> DEFINE n == Len(ir.occ)
           Here(k) == LET x == ir.occ[k].op IN IF x \in DOMAIN m THEN m[x] ELSE {}
           T == {MergedPair(t[1], t[2]) : t \in ChannelsOf(ir) \X DOMAIN ir.occ}
           PairsAt(k) == LET cs == SetToSeq(Here(k)) IN [i \in DOMAIN cs |-> MergedPair(cs[i], k)]
           seqs == [k \in DOMAIN ir.occ |-> PairsAt(k)]
<1>1. n \in Nat /\ DOMAIN ir.occ = 1 .. n
    BY OccSequence
<1>2. MergedPairs(m) = FlattenSeq(seqs)
    BY DEF MergedPairs
<1>3. ASSUME NEW k \in 1 .. n
      PROVE  Listed(seqs[k]) /\ ToSet(seqs[k]) \subseteq T
    <2> DEFINE H == Here(k)
               cs == SetToSeq(H)
               s == [i \in DOMAIN cs |-> MergedPair(cs[i], k)]
    <2>1. H \subseteq ChannelsOf(ir)
        BY DEF MergedOk
    <2>2. seqs[k] = s
        BY <1>1
    <2> HIDE DEF H
    <2>3. IsFiniteSet(H)
        BY <2>1, ChannelsFinite, FS_Subset
    <2>4. /\ Listed(cs) /\ ToSet(cs) \subseteq H
          /\ Len(cs) \in Nat /\ DOMAIN cs = 1 .. Len(cs)
        BY <2>3, SetListed
    <2> HIDE DEF cs
    <2> DEFINE l == Len(cs)
    <2>5. l \in Nat /\ s = [i \in 1 .. l |-> s[i]]
        BY <2>4
    <2>6. \A i \in 1 .. l : s[i] = MergedPair(cs[i], k) /\ cs[i] \in H
        BY <2>4 DEF ToSet
    <2> HIDE DEF s, l
    <2>7. Listed(s) /\ DOMAIN s = 1 .. l
        BY <2>5, FunctionIsListed
    <2>8. ASSUME NEW i \in 1 .. l PROVE s[i] \in T
        <3> DEFINE c == cs[i]
        <3>1. c \in ChannelsOf(ir) /\ s[i] = MergedPair(c, k) /\ k \in DOMAIN ir.occ
            BY <1>1, <2>1, <2>6
        <3> HIDE DEF c
        <3>2. <<c, k>> \in ChannelsOf(ir) \X DOMAIN ir.occ /\ <<c, k>>[1] = c /\ <<c, k>>[2] = k
            BY <3>1
        <3> QED BY <3>1, <3>2
    <2>9. ToSet(s) \subseteq T
        <3> HIDE DEF T
        <3> QED BY <2>7, <2>8 DEF ToSet
    <2> QED BY <2>2, <2>7, <2>9
<1>4. ASSUME NEW q \in T
      PROVE  PairOk(ir, q) /\ q.dontCheck = TRUE
    <2>1. PICK t \in ChannelsOf(ir) \X DOMAIN ir.occ : q = MergedPair(t[1], t[2])
        OBVIOUS
    <2> DEFINE c == t[1]
               k == t[2]
    <2>2. c \in ChannelsOf(ir) /\ k \in DOMAIN ir.occ /\ q = MergedPair(c, k)
        BY <2>1
    <2> HIDE DEF c, k
    <2> QED BY <2>2, MergedPairIsOk
<1>5. seqs = [i \in 1 .. n |-> seqs[i]]
    BY <1>1
<1> HIDE DEF seqs, T, n
<1>6. Listed(FlattenSeq(seqs)) /\ ToSet(FlattenSeq(seqs)) \subseteq T
    BY <1>1, <1>3, <1>5, FlatOf
<1> QED BY <1>2, <1>4, <1>6
-----------------------------------------------------------------------------
(***************************************************************************)
(* What is moved out of a loop or condition is kept by operation.           *)
(***************************************************************************)
EventsFrom(ops, placed, fixed, start, f, x) ==
    IF x > Len(ops) THEN start
    ELSE IF ops[x].kind \in {"loop", "if"} THEN MergeAt(ops, placed, fixed, f[x + 1], x)
    ELSE f[x + 1]

AreEventsFrom(f, ops, placed, fixed, start, lo) ==
    f = [x \in lo .. Len(ops) + 1 |-> EventsFrom(ops, placed, fixed, start, f, x)]

LEMMA EventsExist ==
    ASSUME NEW ops, Len(ops) \in Nat, NEW placed, NEW fixed, NEW start
    PROVE  \E f : AreEventsFrom(f, ops, placed, fixed, start, 1)
<1> DEFINE L == Len(ops)
           P == {n \in Nat : n <= L => \E f : AreEventsFrom(f, ops, placed, fixed, start, L + 1 - n)}
<1>1. 0 \in P
    <2> DEFINE f == [x \in {L + 1} |-> start]
    <2>1. L + 1 - 0 = L + 1 /\ (L + 1) .. (L + 1) = {L + 1} /\ L + 1 > L
        OBVIOUS
    <2>2. f = [x \in L + 1 .. L + 1 |-> EventsFrom(ops, placed, fixed, start, f, x)]
        BY <2>1 DEF EventsFrom
    <2> HIDE DEF f
    <2>3. AreEventsFrom(f, ops, placed, fixed, start, L + 1 - 0)
        BY <2>1, <2>2 DEF AreEventsFrom
    <2> QED BY <2>3
<1>2. ASSUME NEW n \in Nat, n \in P PROVE n + 1 \in P
    <2> SUFFICES ASSUME n + 1 <= L
                 PROVE  \E f : AreEventsFrom(f, ops, placed, fixed, start, L + 1 - (n + 1))
        OBVIOUS
    <2> DEFINE lo == L + 1 - (n + 1)
    <2>1. lo \in Int /\ lo + 1 = L + 1 - n /\ n <= L /\ lo <= L
        OBVIOUS
    <2>2. PICK f : AreEventsFrom(f, ops, placed, fixed, start, lo + 1)
        BY <1>2, <2>1
    <2> HIDE DEF lo
    <2> DEFINE g == [x \in lo .. L + 1 |->
                        IF x = lo THEN EventsFrom(ops, placed, fixed, start, f, x) ELSE f[x]]
    <2>3. \A x \in lo .. L + 1 : x <= L => g[x + 1] = f[x + 1]
        BY <2>1
    <2>4. \A x \in lo + 1 .. L + 1 : f[x] = EventsFrom(ops, placed, fixed, start, f, x)
        BY <2>2 DEF AreEventsFrom
    <2>5. ASSUME NEW x \in lo .. L + 1
          PROVE  g[x] = EventsFrom(ops, placed, fixed, start, g, x)
        <3>1. g[x] = EventsFrom(ops, placed, fixed, start, f, x)
            <4>1. CASE x = lo
                BY <4>1
            <4>2. CASE x # lo
                <5>1. x \in lo + 1 .. L + 1
                    BY <2>1, <4>2
                <5> QED BY <2>4, <4>2, <5>1
            <4> QED BY <4>1, <4>2
        <3>2. x <= L => g[x + 1] = f[x + 1]
            BY <2>3
        <3>3. ~(x > L) => x <= L
            BY <2>1
        <3> HIDE DEF g
        <3> QED BY <3>1, <3>2, <3>3 DEF EventsFrom
    <2>6. g = [x \in lo .. L + 1 |-> g[x]]
        OBVIOUS
    <2> HIDE DEF g
    <2>7. AreEventsFrom(g, ops, placed, fixed, start, lo)
        BY <2>5, <2>6 DEF AreEventsFrom
    <2> QED BY <2>7 DEF lo
<1>3. Nat \subseteq P
    <2> HIDE DEF P
    <2> QED BY <1>1, <1>2, Upwards
<1>4. L \in P /\ L + 1 - L = 1
    <2> HIDE DEF P
    <2> QED BY <1>3
<1> QED BY <1>4

LEMMA EventsAre ==
    ASSUME NEW ops, Len(ops) \in Nat \ {0}, DOMAIN ops = 1 .. Len(ops), NEW placed, NEW fixed,
           \A q \in ToSet(placed) : q.loop \in DOMAIN ops \cup {Top}
    PROVE  BackwardSyncEvents(ops, placed, fixed).keys \subseteq DOMAIN ops
<1> DEFINE L == Len(ops)
           crossing == {q \in Signals(placed) : q.loop # Top}
           start == [ev   |-> UNION {{<<q.loop, Of(q), e>> : e \in q.ids} : q \in crossing},
                     keys |-> {q.loop : q \in crossing}]
           f == CHOOSE h : AreEventsFrom(h, ops, placed, fixed, start, 1)
           P == {n \in Nat : n <= L => f[L + 1 - n].keys \subseteq DOMAIN ops}
<1>1. start.keys \subseteq DOMAIN ops
    BY DEF Signals
<1>2. BackwardSyncEvents(ops, placed, fixed) = f[1]
    BY DEF BackwardSyncEvents, AreEventsFrom, EventsFrom
<1> HIDE DEF start
<1>3. AreEventsFrom(f, ops, placed, fixed, start, 1)
    BY EventsExist
<1> HIDE DEF f
<1>4. \A x \in 1 .. L + 1 : f[x] = EventsFrom(ops, placed, fixed, start, f, x)
    BY <1>3 DEF AreEventsFrom
<1>5. 0 \in P
    <2>1. L + 1 - 0 = L + 1 /\ L + 1 \in 1 .. L + 1 /\ L + 1 > L
        OBVIOUS
    <2>2. f[L + 1] = start
        BY <1>4, <2>1 DEF EventsFrom
    <2> QED BY <1>1, <2>1, <2>2
<1>6. ASSUME NEW n \in Nat, n \in P PROVE n + 1 \in P
    <2> SUFFICES ASSUME n + 1 <= L
                 PROVE  f[L + 1 - (n + 1)].keys \subseteq DOMAIN ops
        OBVIOUS
    <2> DEFINE x == L + 1 - (n + 1)
               k == f[x + 1]
    <2>1. x \in 1 .. L /\ x \in 1 .. L + 1 /\ ~(x > L) /\ x + 1 = L + 1 - n /\ n <= L
        OBVIOUS
    <2>2. k.keys \subseteq DOMAIN ops
        BY <1>6, <2>1
    <2>3. f[x] = EventsFrom(ops, placed, fixed, start, f, x)
        BY <1>4, <2>1
    <2>4. f[x] = MergeAt(ops, placed, fixed, k, x) \/ f[x] = k
        <3> HIDE DEF x
        <3> QED BY <2>1, <2>3 DEF EventsFrom
    <2> HIDE DEF x, k
    <2>5. MergeAt(ops, placed, fixed, k, x).keys \subseteq k.keys \cup {x}
        <3> DEFINE K == MergeAt(ops, placed, fixed, k, x).keys
        <3>1. K = k.keys \/ K = k.keys \cup {x}
            BY DEF MergeAt
        <3> QED BY <3>1
    <2>6. f[x].keys \subseteq DOMAIN ops
        BY <2>1, <2>2, <2>4, <2>5
    <2> QED BY <2>6 DEF x
<1>7. Nat \subseteq P
    <2> HIDE DEF P
    <2> QED BY <1>5, <1>6, Upwards
<1>8. L \in P /\ L + 1 - L = 1
    <2> HIDE DEF P
    <2> QED BY <1>7
<1> QED BY <1>2, <1>8

LEMMA ListLength ==
    ASSUME NEW s, Listed(s)
    PROVE  /\ Len(s) \in Nat /\ DOMAIN s = 1 .. Len(s)
           /\ \A q : q \in ToSet(s) <=> \E i \in 1 .. Len(s) : q = s[i]
<1> DEFINE R == ToSet(s)
<1>1. s \in Seq(R)
    BY DEF Listed
<1> HIDE DEF R
<1>2. Len(s) \in Nat /\ DOMAIN s = 1 .. Len(s)
    BY <1>1
<1> QED BY <1>2 DEF ToSet

(* The ids, and where they go, of the pair q.                               *)
PlacedOf(ids, q) ==
    LET OpsAt(ks) == {ir.occ[k].op : k \in ks \ {Top}}
    IN  Placed(q.src, q.dst, IF IsBarrier(q) THEN {} ELSE ids[Channel(q)][q.node],
               OpsAt({q.set, q.mirrorSet}), OpsAt({q.wait, q.mirrorWait}),
               IF q.inner THEN q.loop ELSE Top)

LEMMA PlacedPairsAre ==
    ASSUME Core
    PROVE  \A z \in ToSet(PlacedPairs) : z.loop \in DOMAIN ir.op \cup {Top}
<1> DEFINE all == chosen \o persistent
           m == Len(all)
           ids == [c \in Channels |-> FinalIds(graph[c])]
           seqs == [i \in DOMAIN all |->
                       IF all[i].useless THEN <<>> ELSE <<PlacedOf(ids, all[i])>>]
           T == {PlacedOf(ids, q) : q \in ToSet(all)}
<1>1. PlacedPairs = FlattenSeq(seqs)
    BY DEF PlacedPairs, PlacedOf
<1> HIDE DEF ids
<1>2. Listed(all) /\ ToSet(all) = ToSet(chosen) \cup ToSet(persistent)
    BY Concatenated DEF Core
<1>3. \A q \in ToSet(all) : PairOk(ir, q)
    BY <1>2 DEF Core, PairsOk
<1> HIDE DEF all
<1>4. m \in Nat /\ DOMAIN all = 1 .. m /\ \A i \in 1 .. m : all[i] \in ToSet(all)
    BY <1>2, ListLength
<1> HIDE DEF m
<1>5. ASSUME NEW i \in 1 .. m
      PROVE  Listed(seqs[i]) /\ ToSet(seqs[i]) \subseteq T
    <2> DEFINE s == seqs[i]
               e == PlacedOf(ids, all[i])
    <2>1. s = <<>> \/ s = <<e>>
        BY <1>4
    <2>2. e \in T
        BY <1>4
    <2> HIDE DEF s, e, T
    <2>3. Listed(s) /\ ToSet(s) \subseteq T
        BY <2>1, <2>2, Singled
    <2> QED BY <2>3 DEF s
<1>6. seqs = [i \in 1 .. m |-> seqs[i]]
    BY <1>4
<1>7. \A z \in T : z.loop \in DOMAIN ir.op \cup {Top}
    <2> SUFFICES ASSUME NEW q \in ToSet(all)
                 PROVE  PlacedOf(ids, q).loop \in DOMAIN ir.op \cup {Top}
        OBVIOUS
    <2>1. PlacedOf(ids, q).loop = IF q.inner THEN q.loop ELSE Top
        BY DEF PlacedOf, Placed
    <2>2. q.inner => q.loop \in DOMAIN ir.op
        BY <1>3 DEF PairOk
    <2> QED BY <2>1, <2>2
<1> HIDE DEF seqs, T
<1>8. ToSet(FlattenSeq(seqs)) \subseteq T
    BY <1>4, <1>5, <1>6, FlatOf
<1> QED BY <1>1, <1>7, <1>8

LEMMA OuterIsOk ==
    ASSUME Core
    PROVE  MergedOk(ir, StillMoved(Events)) /\ MergedOk(ir, WithOuter(Events))
<1> DEFINE events == Events
<1>1. WellBuilt(ir) /\ MergedOk(ir, merged)
    BY DEF Core, IsProgram, ir
<1>2. events.keys \subseteq DOMAIN ir.op
    <2> DEFINE ops == ir.op
               placed == PlacedPairs
               fixed == Fixed
    <2>1. Len(ops) \in Nat \ {0} /\ DOMAIN ops = 1 .. Len(ops)
        BY <1>1, OccSequence DEF WellBuilt, IsTree
    <2>2. \A z \in ToSet(placed) : z.loop \in DOMAIN ops \cup {Top}
        BY PlacedPairsAre
    <2>3. events = BackwardSyncEvents(ops, placed, fixed)
        BY DEF Events
    <2> HIDE DEF ops, placed, fixed, events
    <2>4. events.keys \subseteq DOMAIN ops
        BY <2>1, <2>2, <2>3, EventsAre
    <2> QED BY <2>4 DEF ops
<1> HIDE DEF events
<1>3. \A x \in DOMAIN merged : StillMoved(events)[x] \subseteq merged[x]
    BY DEF StillMoved
<1>4. DOMAIN StillMoved(events) = DOMAIN merged
    BY DEF StillMoved
<1>5. MergedOk(ir, StillMoved(events))
    BY <1>1, <1>3, <1>4 DEF MergedOk
<1>6. MergedOk(ir, WithOuter(events))
    <2> DEFINE at(x) == {c \in Channels : \E v \in events.ev : v[1] = x /\ v[2] = c}
               new == {x \in Innermost(events.keys \ DOMAIN merged) : at(x) # {}}
               m == [x \in new \cup DOMAIN merged |->
                        IF x \in new THEN at(x) ELSE StillMoved(events)[x]]
    <2>1. WithOuter(events) = m
        BY DEF WithOuter
    <2>2. new \subseteq DOMAIN ir.op
        BY <1>2 DEF Innermost
    <2>3. \A x : at(x) \subseteq ChannelsOf(ir)
        BY DEF Channels, ChannelsOf
    <2> HIDE DEF at, new
    <2>4. DOMAIN m = new \cup DOMAIN merged
        OBVIOUS
    <2>5. \A x \in DOMAIN m : m[x] \subseteq ChannelsOf(ir)
        BY <1>1, <1>3, <2>3 DEF MergedOk
    <2> HIDE DEF m
    <2>6. MergedOk(ir, m)
        BY <1>1, <2>2, <2>4, <2>5 DEF MergedOk
    <2> QED BY <2>1, <2>6
<1> QED BY <1>5, <1>6 DEF events
-----------------------------------------------------------------------------
(***************************************************************************)
(* Every action keeps the invariant.                                        *)
(***************************************************************************)
(* An action that goes on to the next order.                                *)
LEMMA ContinueCounts ==
    ASSUME Core, ProcessingOrder, Continue, UNCHANGED <<prog, runNum, final>>
    PROVE  /\ ir' = ir /\ IsProgram(prog') /\ CountersOk(prog', pc', next', runNum', final')
           /\ next \in DOMAIN plans /\ IsPlan(ir, plan) /\ WellBuilt(ir)
<1>1. ir' = ir /\ IsProgram(prog) /\ CountersOk(prog, pc, next, runNum, final)
    BY DEF Core, ir
<1>2. Listed(prog.plans)
    BY <1>1 DEF IsProgram
<1>3. Len(prog.plans) \in Nat /\ DOMAIN prog.plans = 1 .. Len(prog.plans)
    BY <1>2, ListLength
<1>4. next \in 1 .. Len(prog.plans) /\ next \in Nat
    BY <1>1, <1>3 DEF CountersOk, ProcessingOrder, plans
<1>5. next + 1 \in 1 .. Len(prog.plans) + 1
    BY <1>3, <1>4
<1>6. CountersOk(prog', pc', next', runNum', final')
    BY <1>1, <1>5 DEF CountersOk, Continue
<1> QED BY <1>1, <1>3, <1>4, <1>6 DEF IsProgram, plans, plan, ir

LEMMA PassingKeepsCore ==
    ASSUME Core, ProcessingOrder, Continue,
           UNCHANGED <<prog, runNum, final, persistent, options, chosen, graph, synced,
                       replaced, reused, barrierPairs, barrierOps>>
    PROVE  Core'
<1>1. /\ ir' = ir /\ IsProgram(prog') /\ CountersOk(prog', pc', next', runNum', final')
    BY ContinueCounts
<1> QED BY <1>1 DEF Core, options

(* What is chosen with some barriers, or with other pairs that have no node. *)
LEMMA BarriersHaveNoNode ==
    ASSUME NEW gr, NEW S, HaveNodes(gr, S), Linked(gr, S), NEW T,
           \A q \in T : IsBarrier(q) \/ q.dontCheck = TRUE
    PROVE  HaveNodes(gr, S \cup T) /\ Linked(gr, S \cup T)
BY DEF HaveNodes, HasNode, Linked, AreLinked, Intersect

LEMMA BarrierKeepsCore ==
    ASSUME Core, HandleBarrierConflict
    PROVE  Core'
<1>1. /\ ir' = ir /\ IsProgram(prog') /\ CountersOk(prog', pc', next', runNum', final')
      /\ next \in DOMAIN plans /\ IsPlan(ir, plan) /\ WellBuilt(ir)
    BY ContinueCounts DEF HandleBarrierConflict
<1> DEFINE q == BarrierBefore(plan.wait, plan.src, plan.useless)
<1>2. plan.wait \in DOMAIN ir.occ
    <2>1. plan.wait = plan.bar /\ plan.bar = BarrierWaitOcc(ir, plan.a, plan.b)
          /\ IsOrder(ir, plan.a, plan.b)
        BY <1>1, PlanFacts DEF HandleBarrierConflict
    <2> QED BY <1>1, <2>1, BarrierWaitOccIsGood
<1>3. PairOk(ir, q) /\ IsBarrier(q)
    BY <1>1, <1>2, BarrierIsOk
<1>4. chosen' = Append(chosen, q)
    BY DEF HandleBarrierConflict
<1> HIDE DEF q
<1>5. Listed(chosen') /\ ToSet(chosen') = ToSet(chosen) \cup {q}
    BY <1>4, Appended DEF Core
<1>6. PairsOk(ir, ToSet(chosen'))
    BY <1>3, <1>5 DEF Core, PairsOk
<1>7. HaveNodes(graph, ToSet(chosen')) /\ Linked(graph, ToSet(chosen'))
    <2> DEFINE S == ToSet(chosen)
               T == {q}
    <2>1. HaveNodes(graph, S) /\ Linked(graph, S) /\ ToSet(chosen') = S \cup T
        BY <1>5 DEF Core
    <2>2. \A x \in T : IsBarrier(x) \/ x.dontCheck = TRUE
        BY <1>3
    <2> HIDE DEF S, T
    <2>3. HaveNodes(graph, S \cup T) /\ Linked(graph, S \cup T)
        BY <2>1, <2>2, BarriersHaveNoNode
    <2> QED BY <2>1, <2>3
<1>8. UNCHANGED <<persistent, graph, synced, reuse, reused, merged, disabled, barrierPairs, barrierOps>>
    BY DEF HandleBarrierConflict, options
<1> QED BY <1>1, <1>5, <1>6, <1>7, <1>8 DEF Core

(* The pair that is reused stays what it is, but that it starts later.      *)
LEMMA ExtendedIs ==
    ASSUME NEW r, DOMAIN r = Fields, NEW q, NEW z, z = Extended(r, q)
    PROVE  /\ DOMAIN z = Fields /\ z.set = q.set /\ z.start = q.start
           /\ \A f \in Fields \ {"set", "start", "mirrorSet", "mirrorWait"} : z[f] = r[f]
BY DEF Extended, Fields

LEMMA ExtendedIsOk ==
    ASSUME NEW r, PairOk(ir, r), NEW q, q.start \in Nat, r.start < q.start, q.start <= r.end,
           NEW z, z = Extended(r, q)
    PROVE  /\ PairOk(ir, z) /\ z.node = r.node /\ Channel(z) = Channel(r)
           /\ z.start = q.start /\ z.end = r.end /\ z.src = r.src /\ z.dst = r.dst
           /\ (IsBarrier(z) <=> IsBarrier(r)) /\ z.dontCheck = r.dontCheck
           /\ \A x : PairOk(ir, x) => (Intersect(z, x) => Intersect(r, x))
<1>1. DOMAIN r = Fields
    BY DEF PairOk
<1>2. /\ DOMAIN z = Fields /\ z.start = q.start
      /\ \A f \in Fields \ {"set", "start", "mirrorSet", "mirrorWait"} : z[f] = r[f]
    BY <1>1, ExtendedIs
<1>3. /\ z.end = r.end /\ z.num = r.num /\ z.inner = r.inner /\ z.mayNotRun = r.mayNotRun
      /\ z.dontReuse = r.dontReuse /\ z.par1 = r.par1 /\ z.par2 = r.par2 /\ z.loop = r.loop
      /\ z.src = r.src /\ z.dst = r.dst /\ z.dontCheck = r.dontCheck /\ z.node = r.node
    BY <1>2 DEF Fields
<1>4. Channel(z) = Channel(r) /\ (IsBarrier(z) <=> IsBarrier(r))
    BY <1>3 DEF Channel, IsBarrier
<1>5. PairOk(ir, z)
    BY <1>2, <1>3, <1>4 DEF PairOk
<1>6. ASSUME NEW x, PairOk(ir, x), Intersect(z, x)
      PROVE  Intersect(r, x)
    <2>1. x.end \in Nat /\ r.start \in Nat /\ x.end >= z.start
        BY <1>6 DEF PairOk, Intersect
    <2>2. x.end >= r.start
        BY <1>2, <2>1
    <2> QED BY <1>3, <1>4, <1>6, <2>2 DEF Intersect
<1> QED BY <1>2, <1>3, <1>4, <1>5, <1>6

(* A pair in place of another of the same node, that intersects no more.    *)
LEMMA ReplacedKeeps ==
    ASSUME NEW gr, NEW S, PairsOk(ir, S), HaveNodes(gr, S), Linked(gr, S), NEW r \in S, NEW z,
           z.node = r.node, Channel(z) = Channel(r), (IsBarrier(z) <=> IsBarrier(r)),
           z.dontCheck = r.dontCheck,
           \A x : PairOk(ir, x) => (Intersect(z, x) => Intersect(r, x)),
           NEW T, T \subseteq S \cup {z}
    PROVE  HaveNodes(gr, T) /\ Linked(gr, T)
<1>1. HaveNodes(gr, S \cup {z})
    BY DEF HaveNodes, HasNode
<1>2. \A x \in S : AreLinked(gr, z, x)
    BY DEF Linked, AreLinked, PairsOk
<1> DEFINE Z == {z}
           n == r.node
<1>3. \A q \in Z : q.node = n
    OBVIOUS
<1>4. \A q \in Z, x \in S : AreLinked(gr, q, x)
    BY <1>2
<1> HIDE DEF Z, n
<1>5. Linked(gr, S \cup Z)
    BY <1>3, <1>4, LinkedTogether
<1>6. T \subseteq S \cup Z
    BY DEF Z
<1> QED BY <1>1, <1>5, <1>6 DEF HaveNodes, Linked, Z

(* What a pair that is reused is like.                                      *)
LEMMA ReusedPair ==
    ASSUME Core, NEW r, ReuseConflictPair(r), NEW q, q = MainPair
    PROVE  /\ r \in ToSet(chosen) /\ r.start < q.start /\ q.start <= r.end /\ q.start \in Nat
           /\ r.end <= q.end /\ q.end \in Nat
           /\ Channel(q) \in ChannelsOf(ir) /\ q.useless \in BOOLEAN
           /\ Channel(r) = Channel(q) /\ ~IsBarrier(r) /\ ~r.dontReuse
           /\ r.num <= q.num
           /\ InScopesOf(q, r)
           /\ PairOk(ir, r) /\ PairOk(ir, q) /\ q.num <= plan.num
           /\ (~q.useless => reused[Channel(q)] < reuse[Channel(q)])
           /\ next \in DOMAIN plans /\ IsPlan(ir, plan) /\ WellBuilt(ir) /\ plan.ok
           /\ plan.kind = "setwait"
<1>1. ProcessingOrder /\ Continue /\ UNCHANGED <<prog, runNum, final>>
    BY DEF ReuseConflictPair, SetWaitOrder
<1>2. /\ IsProgram(prog) /\ next \in DOMAIN plans /\ IsPlan(ir, plan) /\ WellBuilt(ir)
    BY <1>1, ContinueCounts DEF Core
<1>3. plan.kind = "setwait" /\ plan.ok /\ PairAsserts(q)
    BY DEF ReuseConflictPair, SetWaitOrder, SoundPlan
<1>4. /\ PairOk(ir, q) /\ ~IsBarrier(q) /\ q.num <= plan.num /\ plan.useless \in BOOLEAN
      /\ Channel(q) \in ChannelsOf(ir)
    BY <1>2, <1>3, MainPairIsOk
<1>5. q.useless = plan.useless
    BY MainPairIs
<1>6. MayReuse(q) /\ r \in BestOf(Reusable(q))
    BY DEF ReuseConflictPair
<1>7. r \in Reusable(q) /\ ReuseAsserts(q, r)
    BY <1>3, <1>6 DEF BestOf, PairAsserts
<1>8. /\ r \in ToSet(chosen) /\ InScopesOf(q, r) /\ ~r.dontReuse /\ Intersect(q, r)
      /\ r.start < q.start /\ r.num <= q.num
    BY <1>7 DEF Reusable
<1>9. q.start <= r.end /\ r.end <= q.end
    BY <1>7 DEF ReuseAsserts
<1>10. PairOk(ir, r)
    BY <1>8 DEF Core, PairsOk
<1>11. Channel(r) = Channel(q) /\ ~IsBarrier(r)
    BY <1>8 DEF Intersect
<1>12. q.start \in Nat /\ q.end \in Nat
    BY <1>4 DEF PairOk
<1>13. ~q.useless => reused[Channel(q)] < reuse[Channel(q)]
    <2> SUFFICES ASSUME ~q.useless PROVE reused[Channel(q)] < reuse[Channel(q)]
        OBVIOUS
    <2>1. reuse[Channel(q)] > reused[Channel(q)]
        BY <1>6 DEF MayReuse
    <2>2. reuse[Channel(q)] \in Nat /\ reused[Channel(q)] \in Nat
        BY <1>4 DEF Core, ReuseOk
    <2> QED BY <2>1, <2>2
<1> QED BY <1>2, <1>3, <1>4, <1>5, <1>8, <1>9, <1>10, <1>11, <1>12, <1>13

(* What is chosen then.                                                     *)
LEMMA ReuseChooses ==
    ASSUME Core, NEW r, ReuseConflictPair(r), NEW z, z = Extended(r, MainPair)
    PROVE  /\ Listed(chosen') /\ ToSet(chosen') \subseteq ToSet(chosen) \cup {z}
           /\ ToSet(chosen) \cup {z} \subseteq ToSet(chosen') \cup {r}
<1> DEFINE s == chosen
           i == CHOOSE j \in DOMAIN s : s[j] = r
           t == RemoveAt(s, i)
<1>1. r \in ToSet(s) /\ Listed(s)
    BY ReusedPair DEF Core
<1>2. i \in DOMAIN s /\ s[i] = r
    <2>1. \E j \in DOMAIN s : s[j] = r
        BY <1>1 DEF ToSet
    <2> HIDE DEF s
    <2> QED BY <2>1
<1>3. chosen' = Append(t, z)
    BY DEF ReuseConflictPair
<1> HIDE DEF s, i
<1>4. /\ Listed(t) /\ ToSet(t) \subseteq ToSet(s) /\ ToSet(s) \subseteq ToSet(t) \cup {r}
    BY <1>1, <1>2, Removed
<1> HIDE DEF t
<1>5. Listed(chosen') /\ ToSet(chosen') = ToSet(t) \cup {z}
    BY <1>3, <1>4, Appended
<1> QED BY <1>4, <1>5 DEF s

LEMMA ReuseKeepsCore ==
    ASSUME Core, NEW r, ReuseConflictPair(r)
    PROVE  Core'
<1> DEFINE q == MainPair
           z == Extended(r, q)
           c == Channel(q)
<1>1. ProcessingOrder /\ Continue /\ UNCHANGED <<prog, runNum, final>>
    BY DEF ReuseConflictPair, SetWaitOrder
<1>2. /\ ir' = ir /\ IsProgram(prog') /\ CountersOk(prog', pc', next', runNum', final')
    BY <1>1, ContinueCounts
<1>3. /\ r \in ToSet(chosen) /\ r.start < q.start /\ q.start <= r.end /\ q.start \in Nat
      /\ c \in ChannelsOf(ir) /\ PairOk(ir, r) /\ q.useless \in BOOLEAN
      /\ (~q.useless => reused[c] < reuse[c])
    BY ReusedPair
<1>4. /\ Listed(chosen') /\ ToSet(chosen') \subseteq ToSet(chosen) \cup {z}
    BY ReuseChooses
<1>5. reused' = IF q.useless THEN reused ELSE [reused EXCEPT ![c] = @ + 1]
    BY DEF ReuseConflictPair
<1> HIDE DEF q, c
<1>6. /\ PairOk(ir, z) /\ z.node = r.node /\ Channel(z) = Channel(r)
      /\ (IsBarrier(z) <=> IsBarrier(r)) /\ z.dontCheck = r.dontCheck
      /\ \A x : PairOk(ir, x) => (Intersect(z, x) => Intersect(r, x))
    BY <1>3, ExtendedIsOk
<1> HIDE DEF z
<1>7. PairsOk(ir, ToSet(chosen'))
    BY <1>4, <1>6 DEF Core, PairsOk
<1>8. HaveNodes(graph, ToSet(chosen')) /\ Linked(graph, ToSet(chosen'))
    <2> DEFINE S == ToSet(chosen)
               T == ToSet(chosen')
    <2>1. PairsOk(ir, S) /\ HaveNodes(graph, S) /\ Linked(graph, S) /\ r \in S /\ T \subseteq S \cup {z}
        BY <1>3, <1>4 DEF Core
    <2> HIDE DEF S, T
    <2>2. HaveNodes(graph, T) /\ Linked(graph, T)
        BY <1>6, <2>1, ReplacedKeeps
    <2> QED BY <2>2 DEF T
<1>9. UNCHANGED <<persistent, graph, synced, reuse, merged, disabled, barrierPairs, barrierOps>>
    BY DEF ReuseConflictPair, options
<1>10. ReuseOk(ir, reused', reuse)
    <2>1. ReuseOk(ir, reused, reuse)
        BY DEF Core
    <2>2. CASE q.useless
        BY <1>3, <1>5, <2>1, <2>2
    <2>3. CASE ~q.useless
        <3>1. reused' = [reused EXCEPT ![c] = @ + 1]
            BY <1>3, <1>5, <2>3
        <3>2. /\ reused \in [ChannelsOf(ir) -> Nat] /\ reuse \in [ChannelsOf(ir) -> Nat]
              /\ \A d \in ChannelsOf(ir) : reused[d] <= reuse[d] /\ reuse[d] <= MaxReuseNum
            BY <2>1 DEF ReuseOk
        <3>3. reused' \in [ChannelsOf(ir) -> Nat]
            BY <1>3, <3>1, <3>2
        <3>4. \A d \in ChannelsOf(ir) : reused'[d] <= reuse[d]
            BY <1>3, <2>3, <3>1, <3>2
        <3> QED BY <3>2, <3>3, <3>4 DEF ReuseOk
    <2> QED BY <1>3, <2>2, <2>3
<1> QED BY <1>2, <1>4, <1>7, <1>8, <1>9, <1>10 DEF Core

(* The pairs that handleSetWaitConflict adds are those it judges, with a    *)
(* node.                                                                    *)
AddedPairs(pairs, n) ==
    LET kept == Kept(pairs, n) IN <<WithMirrors(kept[1])>> \o Tail(kept)

(* Sequence s is S with the pairs added: like those, with node n.           *)
IsAdded(S, s, main, pairs, n) ==
    /\ Len(pairs) \in Nat \ {0} /\ DOMAIN pairs = 1 .. Len(pairs)
    /\ \A i \in 1 .. Len(pairs) :
          /\ PairOk(ir, pairs[i]) /\ Channel(pairs[i]) = Channel(main)
          /\ ~pairs[i].dontCheck
    /\ Listed(s) /\ Listed(AddedPairs(pairs, n))
    /\ \E T : /\ ToSet(s) = ToSet(S) \cup T
              /\ \E q \in T : Like(q, main, n)
              /\ \A q \in T : \E i \in 1 .. Len(pairs) : Like(q, pairs[i], n)

LEMMA AddedAre ==
    ASSUME IsProgram(prog), next \in DOMAIN plans, plan.kind = "setwait", plan.ok,
           NEW main, main = MainPair, NEW pairs, pairs = <<main>> \o ExtraPairs(main), NEW n,
           NEW S, Listed(S), NEW s, s = S \o AddedPairs(pairs, n)
    PROVE  IsAdded(S, s, main, pairs, n)
<1> DEFINE extras == ExtraPairs(main)
           kept == Kept(pairs, n)
           a == WithMirrors(kept[1])
           b == Tail(kept)
<1>1. PairOk(ir, main) /\ ~main.dontCheck
    BY MainPairIsOk
<1>2. /\ Listed(extras)
      /\ \A q \in ToSet(extras) : /\ PairOk(ir, q) /\ q.src = main.src /\ q.dst = main.dst
                                  /\ q.dontCheck = main.dontCheck
    BY ExtraPairsAre
<1>3. DOMAIN main = Fields /\ \A q \in ToSet(extras) : DOMAIN q = Fields
    BY <1>1, <1>2 DEF PairOk
<1>4. pairs = <<main>> \o extras
    OBVIOUS
<1>5. s = S \o (<<a>> \o b)
    BY DEF AddedPairs
<1> HIDE DEF extras
<1>6. /\ Like(a, main, n) /\ pairs[1] = main /\ Listed(b)
      /\ \A q \in ToSet(b) : \E i \in DOMAIN pairs :
            pairs[i] \in ToSet(extras) /\ Like(q, pairs[i], n)
      /\ DOMAIN pairs = 1 .. Len(pairs) /\ Len(pairs) \in Nat \ {0}
      /\ \A i \in DOMAIN pairs : pairs[i] = main \/ pairs[i] \in ToSet(extras)
    <2>1. kept = Kept(pairs, n)
        OBVIOUS
    <2> HIDE DEF kept
    <2>2. AreKept(kept, pairs, main, extras, n)
        BY <1>2, <1>3, <1>4, <2>1, KeptAreLike
    <2> QED BY <2>2 DEF AreKept, kept
<1>7. \A i \in 1 .. Len(pairs) : /\ PairOk(ir, pairs[i]) /\ Channel(pairs[i]) = Channel(main)
                                 /\ ~pairs[i].dontCheck
    <2> SUFFICES ASSUME NEW i \in 1 .. Len(pairs), NEW q, q = pairs[i]
                 PROVE  /\ PairOk(ir, q) /\ Channel(q) = Channel(main) /\ ~q.dontCheck
        OBVIOUS
    <2>1. q = main \/ q \in ToSet(extras)
        BY <1>6
    <2>2. CASE q = main
        BY <1>1, <2>2
    <2>3. CASE q \in ToSet(extras)
        BY <1>1, <1>2, <2>3 DEF Channel
    <2> QED BY <2>1, <2>2, <2>3
<1> HIDE DEF a, b
<1>8. Listed(<<a>>) /\ ToSet(<<a>>) = {a}
    BY Singled
<1>9. Listed(<<a>> \o b) /\ ToSet(<<a>> \o b) = {a} \cup ToSet(b)
    BY <1>6, <1>8, Concatenated
<1> DEFINE new == <<a>> \o b
           T == {a} \cup ToSet(b)
<1>10. s = S \o new /\ Listed(new) /\ ToSet(new) = T
    BY <1>5, <1>9
<1>11. a \in T /\ \A q \in T : \E i \in 1 .. Len(pairs) : Like(q, pairs[i], n)
    <2>1. \A q \in ToSet(b) : \E i \in 1 .. Len(pairs) : Like(q, pairs[i], n)
        BY <1>6
    <2>2. 1 \in 1 .. Len(pairs) /\ Like(a, pairs[1], n)
        BY <1>6
    <2> QED BY <2>1, <2>2
<1> HIDE DEF new, T
<1>12. Listed(s) /\ ToSet(s) = ToSet(S) \cup T
    BY <1>10, Concatenated
<1>13. Listed(AddedPairs(pairs, n))
    BY <1>10 DEF new, a, b, AddedPairs
<1>14. \E U : /\ ToSet(s) = ToSet(S) \cup U
              /\ \E q \in U : Like(q, main, n)
              /\ \A q \in U : \E i \in 1 .. Len(pairs) : Like(q, pairs[i], n)
    <2>1. Like(a, main, n)
        BY <1>6
    <2> QED BY <1>11, <1>12, <2>1
<1> QED BY <1>6, <1>7, <1>12, <1>13, <1>14 DEF IsAdded

LEMMA SetWaitContext ==
    ASSUME Core, HandleSetWaitConflict
    PROVE  /\ ir' = ir /\ IsProgram(prog') /\ CountersOk(prog', pc', next', runNum', final')
           /\ IsProgram(prog) /\ next \in DOMAIN plans /\ IsPlan(ir, plan) /\ WellBuilt(ir)
           /\ plan.kind = "setwait" /\ plan.ok
           /\ UNCHANGED <<persistent, reuse, reused, merged, disabled>>
<1>1. /\ ProcessingOrder /\ Continue
      /\ UNCHANGED <<prog, runNum, final, persistent, options, replaced, reused>>
      /\ plan.kind = "setwait" /\ plan.ok
    BY DEF HandleSetWaitConflict, SetWaitOrder, SoundPlan
<1> QED BY <1>1, ContinueCounts DEF options, Core

(* The pairs are added with a node, and the edges between those that        *)
(* intersect ...                                                            *)
AddsPairs(main, pairs, n) ==
    /\ chosen' = chosen \o AddedPairs(pairs, n)
    /\ graph' = [graph EXCEPT ![Channel(main)] = WithEdges(main, pairs, Len(pairs))]
    /\ synced' = Put(synced, Key(main), n)
    /\ UNCHANGED <<barrierPairs, barrierOps>>

(* ... or the ids do not suffice.                                           *)
AddsBarrierAll(main) ==
    LET x == ir.occ[plan.bar].op
    IN  /\ chosen' = chosen \o BarrierAllBefore(x, main.useless)
        /\ barrierPairs' = barrierPairs \cup {Channel(main)}
        /\ barrierOps' = barrierOps \cup {x}
        /\ UNCHANGED <<graph, synced>>

LEMMA SetWaitCases ==
    ASSUME HandleSetWaitConflict, NEW main, main = MainPair
    PROVE  \/ AddsPairs(main, <<main>> \o ExtraPairs(main), NodeOf(main))
           \/ AddsBarrierAll(main)
<1> DEFINE pairs == <<main>> \o ExtraPairs(main)
           n == NodeOf(main)
           kept == Kept(pairs, n)
           w == WithMirrors(kept[1])
           fits == \A k \in DOMAIN pairs : Colorable(WithEdges(main, pairs, k))
<1>1. IF fits
      THEN /\ chosen' = chosen \o (<<w>> \o Tail(kept))
           /\ graph' = [graph EXCEPT ![Channel(main)] = WithEdges(main, pairs, Len(pairs))]
           /\ synced' = Put(synced, Key(main), n)
           /\ UNCHANGED <<barrierPairs, barrierOps>>
      ELSE AddsBarrierAll(main)
    BY DEF HandleSetWaitConflict, AddsBarrierAll, Kept
<1>2. <<w>> \o Tail(kept) = AddedPairs(pairs, n)
    BY DEF AddedPairs
<1> HIDE DEF pairs, n, kept, w, fits
<1>3. AddsPairs(main, pairs, n) \/ AddsBarrierAll(main)
    BY <1>1, <1>2 DEF AddsPairs
<1> QED BY <1>3 DEF pairs, n

LEMMA AddingKeepsCore ==
    ASSUME Core, HandleSetWaitConflict, NEW main, main = MainPair,
           NEW pairs, pairs = <<main>> \o ExtraPairs(main), NEW n, n = NodeOf(main),
           AddsPairs(main, pairs, n)
    PROVE  Core'
<1> DEFINE c == Channel(main)
           m == Len(pairs)
           g == WithEdges(main, pairs, m)
           S == ToSet(chosen)
<1>1. /\ ir' = ir /\ IsProgram(prog') /\ CountersOk(prog', pc', next', runNum', final')
      /\ IsProgram(prog) /\ next \in DOMAIN plans /\ WellBuilt(ir)
      /\ plan.kind = "setwait" /\ plan.ok
      /\ UNCHANGED <<persistent, reuse, reused, merged, disabled>>
    BY SetWaitContext
<1>2. PairOk(ir, main) /\ ~IsBarrier(main) /\ ~main.dontCheck /\ c \in ChannelsOf(ir)
    BY <1>1, MainPairIsOk
<1>3. /\ chosen' = chosen \o AddedPairs(pairs, n)
      /\ graph' = [graph EXCEPT ![c] = g]
      /\ synced' = Put(synced, Key(main), n)
      /\ UNCHANGED <<barrierPairs, barrierOps>>
    BY DEF AddsPairs
<1>0. /\ m \in Nat \ {0}
      /\ \A i \in 1 .. m : /\ PairOk(ir, pairs[i]) /\ Channel(pairs[i]) = c
                           /\ ~pairs[i].dontCheck
      /\ Listed(chosen')
      /\ \E T : /\ ToSet(chosen') = S \cup T
                /\ \A q \in T : \E i \in 1 .. m : Like(q, pairs[i], n)
    <2> DEFINE s == chosen
               u == chosen'
    <2>1. Listed(s) /\ u = s \o AddedPairs(pairs, n)
        BY <1>3 DEF Core
    <2> HIDE DEF s, u
    <2>2. /\ IsProgram(prog) /\ next \in DOMAIN plans /\ plan.kind = "setwait" /\ plan.ok
          /\ main = MainPair /\ pairs = <<main>> \o ExtraPairs(main)
        BY <1>1
    <2>3. IsAdded(s, u, main, pairs, n)
        BY <2>1, <2>2, AddedAre
    <2>4. PICK T : /\ ToSet(u) = ToSet(s) \cup T
                   /\ \A q \in T : \E i \in 1 .. Len(pairs) : Like(q, pairs[i], n)
        BY <2>3 DEF IsAdded
    <2> QED BY <2>3, <2>4 DEF IsAdded, s, u
<1>4. /\ m \in Nat \ {0}
      /\ \A i \in 1 .. m : /\ PairOk(ir, pairs[i]) /\ Channel(pairs[i]) = c
                           /\ ~pairs[i].dontCheck
      /\ Listed(chosen')
    BY <1>0
<1>5. PICK T : /\ ToSet(chosen') = S \cup T
               /\ \A q \in T : \E i \in 1 .. m : Like(q, pairs[i], n)
    BY <1>0
<1>6. /\ GraphsOk(ir, graph) /\ HaveNodes(graph, S) /\ SyncedOk(ir, graph, synced)
      /\ Linked(graph, S) /\ PairsOk(ir, S)
    BY DEF Core
<1>7. /\ GraphOk(g) /\ n \in DOMAIN g.nodes
      /\ DOMAIN graph[c].nodes \subseteq DOMAIN g.nodes /\ graph[c].edges \subseteq g.edges
      /\ \A i \in 1 .. m : \A r \in S :
            Intersect(pairs[i], r) /\ n # r.node => {n, r.node} \in g.edges
    <2> DEFINE k == m
    <2>1. \A i \in 1 .. k : Channel(pairs[i]) = Channel(main)
        BY <1>4
    <2>2. g = WithEdges(main, pairs, k)
        OBVIOUS
    <2> HIDE DEF g, k
    <2>3. /\ GraphOk(g) /\ n \in DOMAIN g.nodes
          /\ DOMAIN graph[Channel(main)].nodes \subseteq DOMAIN g.nodes
          /\ graph[Channel(main)].edges \subseteq g.edges
          /\ \A i \in 1 .. k : \A r \in ToSet(chosen) :
                Intersect(pairs[i], r) /\ n # r.node => {n, r.node} \in g.edges
        BY <1>2, <1>6, <2>1, <2>2, WithEdgesIs
    <2> QED BY <2>3 DEF k
<1> HIDE DEF g, m, S, c
<1>8. DOMAIN graph = ChannelsOf(ir)
    BY <1>6 DEF GraphsOk
<1>9. /\ DOMAIN graph' = ChannelsOf(ir) /\ graph'[c] = g
      /\ \A d \in ChannelsOf(ir) : d # c => graph'[d] = graph[d]
    BY <1>2, <1>3, <1>8
<1>10. Grows(ir, graph, graph') /\ GraphsOk(ir, graph')
    <2>1. ASSUME NEW d \in ChannelsOf(ir)
          PROVE  /\ DOMAIN graph[d].nodes \subseteq DOMAIN graph'[d].nodes
                 /\ graph[d].edges \subseteq graph'[d].edges /\ GraphOk(graph'[d])
        <3>1. CASE d = c
            BY <1>7, <1>9, <3>1
        <3>2. CASE d # c
            BY <1>6, <1>9, <3>2 DEF GraphsOk
        <3> QED BY <3>1, <3>2
    <2> QED BY <1>9, <2>1 DEF Grows, GraphsOk
<1>11. HaveNodes(graph', S) /\ Linked(graph', S) /\ SyncedOk(ir, graph', synced)
    BY <1>6, <1>10, GrowingKeeps
<1>12. ASSUME NEW q \in T
       PROVE  /\ PairOk(ir, q) /\ HasNode(graph', q) /\ q.node = n
              /\ \A r \in S : AreLinked(graph', q, r)
    <2>1. PICK i \in 1 .. m : Like(q, pairs[i], n)
        BY <1>5
    <2> DEFINE p == pairs[i]
    <2>2. PairOk(ir, p) /\ Channel(p) = c /\ ~p.dontCheck /\ Like(q, p, n)
        BY <1>4, <2>1
    <2>3. \A r \in S : Intersect(p, r) /\ n # r.node => {n, r.node} \in g.edges
        BY <1>7, <2>1
    <2> HIDE DEF p
    <2>4. /\ PairOk(ir, q) /\ Channel(q) = c /\ \A x : Intersect(q, x) <=> Intersect(p, x)
        BY <2>2, LikeFacts
    <2>5. q.node = n
        BY <2>2 DEF Like
    <2>6. HasNode(graph', q)
        BY <1>7, <1>9, <2>4, <2>5 DEF HasNode
    <2>7. \A r \in S : AreLinked(graph', q, r)
        BY <1>9, <2>3, <2>4, <2>5 DEF AreLinked
    <2> QED BY <2>4, <2>5, <2>6, <2>7
<1>13. PairsOk(ir, ToSet(chosen')) /\ HaveNodes(graph', ToSet(chosen'))
    BY <1>5, <1>6, <1>11, <1>12 DEF PairsOk, HaveNodes
<1>14. Linked(graph', S \cup T)
    BY <1>11, <1>12, LinkedTogether
<1>15. SyncedOk(ir, graph', synced')
    <2> DEFINE key == Key(main)
    <2>1. KeyChannel(key) = c
        BY DEF KeyChannel, Key, Channel, c
    <2>2. synced' = Put(synced, key, n)
        BY <1>3
    <2> HIDE DEF key
    <2>3. /\ DOMAIN synced' = DOMAIN synced \cup {key} /\ synced'[key] = n
          /\ \A k \in DOMAIN synced : k # key => synced'[k] = synced[k]
        BY <2>2 DEF Put
    <2> QED BY <1>2, <1>7, <1>9, <1>11, <2>1, <2>3 DEF SyncedOk
<1> QED BY <1>1, <1>3, <1>4, <1>5, <1>10, <1>13, <1>14, <1>15 DEF Core

LEMMA BarrierAllKeepsCore ==
    ASSUME Core, HandleSetWaitConflict, NEW main, main = MainPair, AddsBarrierAll(main)
    PROVE  Core'
<1> DEFINE x == ir.occ[plan.bar].op
           bs == BarrierAllBefore(x, main.useless)
           S == ToSet(chosen)
           T == ToSet(bs)
<1>1. /\ ir' = ir /\ IsProgram(prog') /\ CountersOk(prog', pc', next', runNum', final')
      /\ IsProgram(prog) /\ next \in DOMAIN plans /\ WellBuilt(ir)
      /\ plan.kind = "setwait" /\ plan.ok
      /\ UNCHANGED <<persistent, reuse, reused, merged, disabled>>
    BY SetWaitContext
<1>2. Channel(main) \in ChannelsOf(ir)
    BY <1>1, MainPairIsOk
<1>3. /\ chosen' = chosen \o bs /\ barrierPairs' = barrierPairs \cup {Channel(main)}
      /\ barrierOps' = barrierOps \cup {x} /\ UNCHANGED <<graph, synced>>
    BY DEF AddsBarrierAll
<1> HIDE DEF x
<1>4. Listed(bs) /\ \A q \in T : PairOk(ir, q) /\ IsBarrier(q)
    BY <1>1, BarrierAllAre
<1> HIDE DEF bs
<1>5. Listed(chosen') /\ ToSet(chosen') = S \cup T
    BY <1>3, <1>4, Concatenated DEF Core
<1> HIDE DEF T, S
<1>6. PairsOk(ir, S) /\ HaveNodes(graph, S) /\ Linked(graph, S)
    BY DEF Core, S
<1>7. PairsOk(ir, S \cup T)
    BY <1>4, <1>6 DEF PairsOk
<1>8. HaveNodes(graph, S \cup T) /\ Linked(graph, S \cup T)
    BY <1>4, <1>6, BarriersHaveNoNode
<1>9. BarriersOk(ir, disabled, barrierPairs', barrierOps')
    <2>1. BarriersOk(ir, disabled, barrierPairs, barrierOps)
        BY DEF Core
    <2> QED BY <1>2, <1>3, <2>1 DEF BarriersOk
<1> QED BY <1>1, <1>3, <1>5, <1>7, <1>8, <1>9 DEF Core

LEMMA SetWaitKeepsCore ==
    ASSUME Core, HandleSetWaitConflict
    PROVE  Core'
<1> DEFINE main == MainPair
           pairs == <<main>> \o ExtraPairs(main)
           n == NodeOf(main)
<1>1. CASE AddsPairs(main, pairs, n)
    <2> HIDE DEF main, pairs, n
    <2>1. main = MainPair /\ pairs = <<main>> \o ExtraPairs(main) /\ n = NodeOf(main)
        BY DEF main, pairs, n
    <2> QED BY <1>1, <2>1, AddingKeepsCore
<1>2. CASE AddsBarrierAll(main)
    BY <1>2, BarrierAllKeepsCore
<1> QED BY <1>1, <1>2, SetWaitCases

(* A run begins: only the merged pairs are chosen, and no node exists.      *)
LEMMA EmptyGraphs ==
    ASSUME NEW gr, gr = [c \in Channels |-> NoGraph]
    PROVE  GraphsOk(ir, gr)
<1>1. Channels = ChannelsOf(ir)
    BY DEF Channels, ChannelsOf
<1>2. NoGraph.nodes = <<>> /\ NoGraph.edges = {}
    BY DEF NoGraph
<1>3. GraphOk(NoGraph)
    BY <1>2 DEF GraphOk, IsGraph
<1> HIDE DEF NoGraph
<1> QED BY <1>1, <1>3 DEF GraphsOk

LEMMA UnlinkedAreLinked ==
    ASSUME NEW gr, NEW S, \A q \in S : q.dontCheck = TRUE
    PROVE  HaveNodes(gr, S) /\ Linked(gr, S)
BY DEF HaveNodes, HasNode, Linked, AreLinked, Intersect

LEMMA BeginRunKeepsCore ==
    ASSUME Core, NEW m, BeginRun(m), MergedOk(ir, m), prog' = prog,
           CountersOk(prog, pc', 1, runNum', final'),
           Listed(persistent'), PairsOk(ir, ToSet(persistent')),
           \A q \in ToSet(persistent') : IsBarrier(q),
           reuse' \in [ChannelsOf(ir) -> Nat],
           \A c \in ChannelsOf(ir) : reuse'[c] <= MaxReuseNum,
           disabled' \subseteq ChannelsOf(ir)
    PROVE  Core'
<1>1. ir' = ir /\ IsProgram(prog) /\ WellBuilt(ir)
    BY DEF ir, Core, IsProgram
<1>2. /\ next' = 1 /\ chosen' = MergedPairs(m) /\ merged' = m
      /\ graph' = [c \in Channels |-> NoGraph] /\ synced' = <<>>
      /\ reused' = [c \in Channels |-> 0] /\ barrierPairs' = {} /\ barrierOps' = {}
    BY DEF BeginRun
<1>3. /\ Listed(chosen') /\ \A q \in ToSet(chosen') : PairOk(ir, q) /\ q.dontCheck = TRUE
    BY <1>1, <1>2, MergedPairsAre
<1>4. HaveNodes(graph', ToSet(chosen')) /\ Linked(graph', ToSet(chosen'))
    BY <1>3, UnlinkedAreLinked
<1>5. GraphsOk(ir, graph')
    BY <1>2, EmptyGraphs
<1>6. SyncedOk(ir, graph', synced')
    BY <1>2 DEF SyncedOk
<1>7. ReuseOk(ir, reused', reuse')
    <2>1. reused' = [c \in ChannelsOf(ir) |-> 0]
        BY <1>2 DEF Channels, ChannelsOf
    <2>2. reused' \in [ChannelsOf(ir) -> Nat] /\ \A c \in ChannelsOf(ir) : reused'[c] <= reuse'[c]
        BY <2>1
    <2> QED BY <2>2 DEF ReuseOk
<1>8. BarriersOk(ir, disabled', barrierPairs', barrierOps')
    BY <1>2 DEF BarriersOk
<1>9. PairsOk(ir, ToSet(chosen'))
    BY <1>3 DEF PairsOk
<1> QED BY <1>1, <1>2, <1>3, <1>4, <1>5, <1>6, <1>7, <1>8, <1>9 DEF Core

LEMMA NextRunCounts ==
    ASSUME Core, RunEnded, ~final, NextRun
    PROVE  prog' = prog /\ CountersOk(prog, pc', 1, runNum', final')
<1>1. CountersOk(prog, pc, next, runNum, final) /\ IsProgram(prog)
    BY DEF Core
<1>2. Len(prog.plans) \in Nat
    BY <1>1, ListLength DEF IsProgram
<1>3. /\ runNum \in 1 .. MaxRunNum + 1 /\ MaxRunNum \in Nat /\ ~(runNum > MaxRunNum)
      /\ pc \in {"process", "done", "gaveUp"}
    BY <1>1, SyncSolverAssumption DEF CountersOk
<1>4. 1 \in 1 .. Len(prog.plans) + 1 /\ runNum + 1 \in 1 .. MaxRunNum + 1
    BY <1>2, <1>3
<1>5. /\ runNum' = runNum + 1 /\ final' = (runNum = MaxRunNum) /\ prog' = prog /\ pc' = pc
    BY DEF NextRun
<1>6. final' \in BOOLEAN /\ (runNum' > MaxRunNum => final')
    <2>1. CASE runNum = MaxRunNum
        <3>1. final' = TRUE
            BY <1>5, <2>1
        <3> QED BY <3>1
    <2>2. CASE runNum # MaxRunNum
        <3>1. final' = FALSE
            BY <1>5, <2>2
        <3>2. runNum < MaxRunNum /\ runNum' = runNum + 1 /\ runNum \in Nat
            BY <1>3, <1>5, <2>2
        <3>3. ~(runNum' > MaxRunNum)
            BY <1>3, <3>2
        <3> QED BY <3>1, <3>3
    <2> QED BY <2>1, <2>2
<1> QED BY <1>3, <1>4, <1>5, <1>6 DEF CountersOk

LEMMA NothingMerged ==
    ASSUME NEW m, m = <<>> PROVE MergedOk(ir, m)
BY DEF MergedOk

LEMMA StartingOverKeepsCore ==
    ASSUME Core, StartOver
    PROVE  Core'
<1>1. /\ ReuseOk(ir, reused, reuse) /\ BarriersOk(ir, disabled, barrierPairs, barrierOps)
      /\ Listed(persistent) /\ PairsOk(ir, ToSet(persistent))
      /\ \A q \in ToSet(persistent) : IsBarrier(q)
    BY DEF Core
<1>2. /\ reuse \in [ChannelsOf(ir) -> Nat] /\ \A c \in ChannelsOf(ir) : reuse[c] <= MaxReuseNum
      /\ disabled \subseteq ChannelsOf(ir) /\ barrierPairs \subseteq ChannelsOf(ir)
    BY <1>1 DEF ReuseOk, BarriersOk
<1>3. MergedOk(ir, StillMoved(Events)) /\ MergedOk(ir, WithOuter(Events))
    BY OuterIsOk
<1>4. Channels = ChannelsOf(ir)
    BY DEF Channels, ChannelsOf
<1>5. CASE ConsiderOuter
    <2>1. /\ BeginRun(WithOuter(Events)) /\ RunEnded /\ ~final /\ NextRun
          /\ persistent' = persistent /\ reuse' = reuse /\ disabled' = disabled
        BY <1>5 DEF ConsiderOuter
    <2> QED BY <1>1, <1>2, <1>3, <2>1, NextRunCounts, BeginRunKeepsCore
<1>6. CASE ReuseToSaveIds
    <2>1. /\ BeginRun(<<>>) /\ RunEnded /\ ~final /\ NextRun
          /\ persistent' = persistent /\ disabled' = disabled
          /\ reuse' = [c \in Channels |-> IF c \in Growing THEN reuse[c] + 1 ELSE reuse[c]]
        BY <1>6 DEF ReuseToSaveIds, OuterSettled
    <2>2. MaxReuseNum \in Nat /\ \A c \in Growing : reuse[c] < MaxReuseNum
        BY SyncSolverAssumption DEF Growing
    <2>3. reuse' \in [ChannelsOf(ir) -> Nat]
        BY <1>2, <1>4, <2>1
    <2>4. \A c \in ChannelsOf(ir) : reuse'[c] <= MaxReuseNum
        BY <1>2, <1>4, <2>1, <2>2
    <2> QED BY <1>1, <1>2, <2>1, <2>3, <2>4, NothingMerged, NextRunCounts, BeginRunKeepsCore
<1>7. CASE DisableMultiEventId
    <2>1. /\ BeginRun(<<>>) /\ RunEnded /\ ~final /\ NextRun
          /\ persistent' = persistent /\ reuse' = reuse /\ disabled' = disabled \cup barrierPairs
        BY <1>7 DEF DisableMultiEventId, OuterSettled
    <2> QED BY <1>1, <1>2, <2>1, NothingMerged, NextRunCounts, BeginRunKeepsCore
<1>8. CASE PickBarrierAll
    <2> DEFINE bs == BarrierAllBefore(Min(barrierOps), FALSE)
    <2>1. /\ BeginRun(<<>>) /\ RunEnded /\ ~final /\ NextRun
          /\ persistent' = persistent \o bs
          /\ reuse' = [c \in Channels |-> 0] /\ disabled' = {}
        BY <1>8 DEF PickBarrierAll, OuterSettled
    <2>2. Listed(bs) /\ \A q \in ToSet(bs) : PairOk(ir, q) /\ IsBarrier(q)
        <3>1. WellBuilt(ir)
            BY DEF Core, IsProgram, ir
        <3> QED BY <3>1, BarrierAllAre
    <2> HIDE DEF bs
    <2>3. Listed(persistent') /\ ToSet(persistent') = ToSet(persistent) \cup ToSet(bs)
        BY <1>1, <2>1, <2>2, Concatenated
    <2>4. PairsOk(ir, ToSet(persistent')) /\ \A q \in ToSet(persistent') : IsBarrier(q)
        BY <1>1, <2>2, <2>3 DEF PairsOk
    <2>5. /\ reuse' \in [ChannelsOf(ir) -> Nat]
          /\ \A c \in ChannelsOf(ir) : reuse'[c] <= MaxReuseNum
        BY <1>4, <2>1, SyncSolverAssumption
    <2> QED BY <2>1, <2>3, <2>4, <2>5, NothingMerged, NextRunCounts, BeginRunKeepsCore
<1>9. CASE Settle
    <2>1. /\ BeginRun(StillMoved(Events)) /\ final' = TRUE
          /\ UNCHANGED <<prog, pc, runNum, persistent, reuse, disabled>>
        BY <1>9 DEF Settle
    <2>2. CountersOk(prog, pc', 1, runNum', final')
        <3>1. CountersOk(prog, pc, next, runNum, final) /\ IsProgram(prog)
            BY DEF Core
        <3>2. Len(prog.plans) \in Nat
            BY <3>1, ListLength DEF IsProgram
        <3>3. 1 \in 1 .. Len(prog.plans) + 1
            BY <3>2
        <3> QED BY <2>1, <3>1, <3>3 DEF CountersOk
    <2> QED BY <1>1, <1>2, <1>3, <2>1, <2>2, BeginRunKeepsCore
<1> QED BY <1>5, <1>6, <1>7, <1>8, <1>9 DEF StartOver

LEMMA FinishKeepsCore ==
    ASSUME Core, Finish
    PROVE  Core'
<1>1. /\ pc' \in {"process", "done", "gaveUp"}
      /\ UNCHANGED <<prog, runNum, final, persistent, perRun, options>>
    BY DEF Finish
<1>2. ir' = ir
    BY <1>1 DEF ir
<1> QED BY <1>1, <1>2 DEF Core, CountersOk, perRun, options
-----------------------------------------------------------------------------
(* The plans of a function, from its orders, and for the second version     *)
(* from those of its groups.                                                *)
AreOrders(t, orders) ==
    /\ Listed(orders)
    /\ \A o \in ToSet(orders) : IsOrder(t, o.a, o.b) /\ o.useless \in BOOLEAN

LEMMA NeededPlansAre ==
    ASSUME NEW t, WellBuilt(t), NEW orders, AreOrders(t, orders)
    PROVE  /\ Listed(NeededPlans(t, orders))
           /\ \A p \in ToSet(NeededPlans(t, orders)) : IsPlan(t, p)
<1> DEFINE m == Len(orders)
           T == {Plan(t, o) : o \in {o \in ToSet(orders) : NeedsSync(t, o)}}
           seqs == [i \in DOMAIN orders |->
                       IF NeedsSync(t, orders[i]) THEN <<Plan(t, orders[i])>> ELSE <<>>]
<1>1. m \in Nat /\ DOMAIN orders = 1 .. m /\ \A i \in 1 .. m : orders[i] \in ToSet(orders)
    BY ListLength DEF AreOrders
<1> HIDE DEF m
<1>2. NeededPlans(t, orders) = FlattenSeq(seqs)
    BY DEF NeededPlans
<1>3. ASSUME NEW i \in 1 .. m
      PROVE  Listed(seqs[i]) /\ ToSet(seqs[i]) \subseteq T
    <2> DEFINE s == seqs[i]
               e == Plan(t, orders[i])
    <2>1. s = IF NeedsSync(t, orders[i]) THEN <<e>> ELSE <<>>
        BY <1>1
    <2>2. NeedsSync(t, orders[i]) => e \in T
        BY <1>1
    <2> HIDE DEF s, e, T
    <2>3. Listed(s) /\ ToSet(s) \subseteq T
        BY <2>1, <2>2, Singled
    <2> QED BY <2>3 DEF s
<1>4. seqs = [i \in 1 .. m |-> seqs[i]]
    BY <1>1
<1>5. \A p \in T : IsPlan(t, p)
    BY DEF IsPlan, AreOrders
<1> HIDE DEF seqs, T
<1>6. Listed(FlattenSeq(seqs)) /\ ToSet(FlattenSeq(seqs)) \subseteq T
    BY <1>1, <1>3, <1>4, FlatOf
<1> QED BY <1>2, <1>5, <1>6

LEMMA AccessOrders ==
    ASSUME NEW t, NEW orders, OrdersOfAccesses(t, orders)
    PROVE  AreOrders(t, orders) /\ Len(orders) \in Nat /\ DOMAIN orders = 1 .. Len(orders)
<1>1. Listed(orders)
    BY DEF OrdersOfAccesses, Listed
<1>2. \A i \in DOMAIN orders : /\ IsOrder(t, orders[i].a, orders[i].b)
                               /\ orders[i].useless \in BOOLEAN
    BY DEF OrdersOfAccesses, IsOrder, IsAccess, KindOf, IsRw
<1>3. AreOrders(t, orders)
    BY <1>1, <1>2 DEF AreOrders, ToSet
<1> QED BY <1>1, <1>3, ListLength

GroupOrder(g, o) ==
    [a |-> o.a, b |-> o.b, useless |-> o.useless, queued |-> o.queued,
     par1 |-> o.par1, par2 |-> o.par2, group |-> g]

LEMMA GroupedOrdersAre ==
    ASSUME NEW t, NEW groups, Listed(groups),
           \A g \in DOMAIN groups : OrdersOfAccesses(t, groups[g])
    PROVE  AreOrders(t, GroupedOrders(groups))
<1> DEFINE m == Len(groups)
           T == UNION {{GroupOrder(g, o) : o \in ToSet(groups[g])} : g \in DOMAIN groups}
           In(g) == [i \in DOMAIN groups[g] |-> GroupOrder(g, groups[g][i])]
           seqs == [g \in DOMAIN groups |-> In(g)]
<1>1. m \in Nat /\ DOMAIN groups = 1 .. m
    BY ListLength
<1>2. GroupedOrders(groups) = FlattenSeq(seqs)
    BY DEF GroupedOrders, GroupOrder
<1> HIDE DEF m
<1>3. ASSUME NEW g \in 1 .. m
      PROVE  Listed(seqs[g]) /\ ToSet(seqs[g]) \subseteq T
    <2> DEFINE os == groups[g]
               s == [i \in DOMAIN os |-> GroupOrder(g, os[i])]
               n == Len(os)
    <2>1. seqs[g] = s
        BY <1>1
    <2>2. \A o \in ToSet(os) : GroupOrder(g, o) \in T
        BY <1>1
    <2>3. n \in Nat /\ DOMAIN os = 1 .. n
        BY <1>1, AccessOrders
    <2> HIDE DEF os, T, n
    <2>4. s = [i \in 1 .. n |-> s[i]] /\ \A i \in 1 .. n : s[i] = GroupOrder(g, os[i])
        BY <2>3
    <2> HIDE DEF s
    <2>5. Listed(s) /\ DOMAIN s = 1 .. n
        BY <2>3, <2>4, FunctionIsListed
    <2>6. ToSet(s) \subseteq T
        BY <2>2, <2>3, <2>4, <2>5 DEF ToSet
    <2> QED BY <2>1, <2>5, <2>6
<1>4. seqs = [g \in 1 .. m |-> seqs[g]]
    BY <1>1
<1>5. ASSUME NEW z \in T
      PROVE  IsOrder(t, z.a, z.b) /\ z.useless \in BOOLEAN
    <2>1. PICK g \in DOMAIN groups : \E o \in ToSet(groups[g]) : z = GroupOrder(g, o)
        OBVIOUS
    <2>2. PICK o \in ToSet(groups[g]) : z = GroupOrder(g, o)
        BY <2>1
    <2>3. IsOrder(t, o.a, o.b) /\ o.useless \in BOOLEAN
        BY <2>1, <2>2, AccessOrders DEF AreOrders
    <2>4. z.a = o.a /\ z.b = o.b /\ z.useless = o.useless
        BY <2>2 DEF GroupOrder
    <2> QED BY <2>3, <2>4
<1> HIDE DEF seqs, T
<1>6. Listed(FlattenSeq(seqs)) /\ ToSet(FlattenSeq(seqs)) \subseteq T
    BY <1>1, <1>3, <1>4, FlatOf
<1> QED BY <1>2, <1>5, <1>6 DEF AreOrders

LEMMA ProgramsAre ==
    ASSUME NEW f \in Functions
    PROVE  IsProgram(Solvable(f)) /\ IsProgram(SolvableV2(f))
<1>1. /\ WellBuilt(f.ir) /\ OrdersOfAccesses(f.ir, f.orders) /\ Listed(f.groups)
      /\ \A g \in DOMAIN f.groups : OrdersOfAccesses(f.ir, f.groups[g])
    BY FunctionsAssumption DEF Listed
<1>2. AreOrders(f.ir, f.orders) /\ AreOrders(f.ir, GroupedOrders(f.groups))
    BY <1>1, AccessOrders, GroupedOrdersAre
<1>3. /\ Listed(NeededPlans(f.ir, f.orders))
      /\ \A p \in ToSet(NeededPlans(f.ir, f.orders)) : IsPlan(f.ir, p)
      /\ Listed(NeededPlans(f.ir, GroupedOrders(f.groups)))
      /\ \A p \in ToSet(NeededPlans(f.ir, GroupedOrders(f.groups))) : IsPlan(f.ir, p)
    BY <1>1, <1>2, NeededPlansAre
<1>4. Solvable(f).ir = f.ir /\ Solvable(f).plans = NeededPlans(f.ir, f.orders)
    BY DEF Solvable
<1>5. /\ SolvableV2(f).ir = f.ir
      /\ SolvableV2(f).plans = NeededPlans(f.ir, GroupedOrders(f.groups))
    BY DEF SolvableV2
<1> QED BY <1>1, <1>3, <1>4, <1>5 DEF IsProgram, ToSet
-----------------------------------------------------------------------------
(***************************************************************************)
(* The invariant holds throughout, in either version.                       *)
(***************************************************************************)
LEMMA BeginningIsCore ==
    ASSUME IsProgram(prog), Begin
    PROVE  Core
<1>1. WellBuilt(ir) /\ Len(prog.plans) \in Nat
    BY ListLength DEF IsProgram, ir
<1>2. 1 \in 1 .. Len(prog.plans) + 1 /\ 1 \in 1 .. MaxRunNum + 1 /\ ~(1 > MaxRunNum)
    BY <1>1, SyncSolverAssumption
<1>3. CountersOk(prog, pc, next, runNum, final)
    BY <1>2 DEF Begin, CountersOk
<1>4. /\ Listed(chosen) /\ ToSet(chosen) = {} /\ Listed(persistent) /\ ToSet(persistent) = {}
    BY Singled DEF Begin
<1>5. GraphsOk(ir, graph)
    BY EmptyGraphs DEF Begin
<1>6. SyncedOk(ir, graph, synced) /\ MergedOk(ir, merged)
    BY DEF Begin, SyncedOk, MergedOk
<1>7. Channels = ChannelsOf(ir)
    BY DEF Channels, ChannelsOf
<1>8. ReuseOk(ir, reused, reuse)
    <2>1. reuse = [c \in ChannelsOf(ir) |-> 0] /\ reused = [c \in ChannelsOf(ir) |-> 0]
        BY <1>7 DEF Begin
    <2>2. /\ reuse \in [ChannelsOf(ir) -> Nat] /\ reused \in [ChannelsOf(ir) -> Nat]
          /\ \A c \in ChannelsOf(ir) : reused[c] <= reuse[c] /\ reuse[c] <= MaxReuseNum
        BY <2>1, SyncSolverAssumption
    <2> QED BY <2>2 DEF ReuseOk
<1>9. BarriersOk(ir, disabled, barrierPairs, barrierOps)
    BY DEF Begin, BarriersOk
<1>10. /\ PairsOk(ir, ToSet(chosen)) /\ PairsOk(ir, ToSet(persistent))
       /\ HaveNodes(graph, ToSet(chosen)) /\ Linked(graph, ToSet(chosen))
       /\ \A q \in ToSet(persistent) : IsBarrier(q)
    BY <1>4 DEF PairsOk, HaveNodes, Linked
<1> QED BY <1>3, <1>4, <1>5, <1>6, <1>8, <1>9, <1>10 DEF Core

LEMMA ConflictKeepsCore ==
    ASSUME Core, HandleConflict
    PROVE  Core'
BY BarrierKeepsCore, ReuseKeepsCore, SetWaitKeepsCore DEF HandleConflict

LEMMA StepKeepsCore ==
    ASSUME Core, [NextSolver]_varsSolver
    PROVE  Core'
<1>1. CASE SkipOrder
    BY <1>1, PassingKeepsCore DEF SkipOrder
<1>2. CASE HandleConflict
    BY <1>2, ConflictKeepsCore
<1>3. CASE StartOver
    BY <1>3, StartingOverKeepsCore
<1>4. CASE Finish
    BY <1>4, FinishKeepsCore
<1>5. CASE SkipHandled
    BY <1>5, PassingKeepsCore DEF SkipHandled
<1>6. CASE SkipEnforced
    BY <1>6, PassingKeepsCore DEF SkipEnforced, Due
<1>7. CASE UNCHANGED varsSolver
    <2>1. ir' = ir
        BY <1>7 DEF varsSolver, varsV2, vars, ir
    <2> QED BY <1>7, <2>1 DEF varsSolver, varsV2, vars, perRun, options, Core
<1>8. Next => SkipOrder \/ HandleConflict \/ StartOver \/ Finish
    BY DEF Next, ProcessOrder
<1>9. NextV2 => SkipHandled \/ SkipEnforced \/ HandleConflict \/ StartOver \/ Finish
    BY DEF NextV2, Handle, ReuseOne, HandleConflict
<1> QED BY <1>1, <1>2, <1>3, <1>4, <1>5, <1>6, <1>7, <1>8, <1>9 DEF NextSolver

(* The inductive invariant: through reuse, retries, merging and barriers    *)
(* the pairs that processOrders chooses stay pairs of the program with a    *)
(* node each, and wherever two of them intersect their nodes are joined.    *)
THEOREM CoreHolds == SpecSolver => []Core
<1>1. InitSolver => Core
    <2>1. InitSolver => Begin /\ IsProgram(prog)
        BY ProgramsAre DEF InitSolver, Init, InitV2
    <2> QED BY <2>1, BeginningIsCore
<1>2. Core /\ [NextSolver]_varsSolver => Core'
    BY StepKeepsCore
<1> QED BY <1>1, <1>2, PTL DEF SpecSolver

(* The types of the solver, and that each pair that needs ids has its node. *)
THEOREM TypesAreKept == SpecSolver => []TypeOK
<1>1. Core => TypeOK
    <2> SUFFICES ASSUME Core PROVE TypeOK
        OBVIOUS
    <2>1. /\ Channels = ChannelsOf(ir) /\ plans = prog.plans
        BY DEF Channels, ChannelsOf, plans
    <2>2. /\ pc \in {"process", "done", "gaveUp"} /\ next \in 1 .. Len(plans) + 1
          /\ runNum \in 1 .. MaxRunNum + 1 /\ final \in BOOLEAN
        BY <2>1 DEF Core, CountersOk
    <2>3. \A c \in Channels : /\ UNION graph[c].edges \subseteq DOMAIN graph[c].nodes
                              /\ reused[c] <= reuse[c] /\ reuse[c] <= MaxReuseNum
        BY <2>1 DEF Core, GraphsOk, GraphOk, ReuseOk
    <2>4. \A q \in ToSet(chosen) \cup ToSet(persistent) :
             /\ q.start <= q.end
             /\ ~IsBarrier(q) /\ ~q.dontCheck => q.node \in DOMAIN graph[Channel(q)].nodes
        BY DEF Core, PairsOk, PairOk, HaveNodes, HasNode
    <2>5. /\ disabled \cup barrierPairs \subseteq Channels
          /\ DOMAIN merged \subseteq DOMAIN ir.op
          /\ barrierOps = {} <=> barrierPairs = {}
        BY <2>1 DEF Core, BarriersOk, MergedOk
    <2> QED BY <2>2, <2>3, <2>4, <2>5 DEF TypeOK
<1> QED BY <1>1, CoreHolds, PTL

(* Two pairs of a channel whose flags may be pending at the same time have  *)
(* no event id in common.                                                   *)
THEOREM IdsAreApart == SpecSolver => []IdsApart
<1>1. Core => IdsApart
    <2> SUFFICES ASSUME Core, NEW q \in ToSet(chosen), NEW r \in ToSet(chosen),
                        Intersect(q, r), q.node # r.node
                 PROVE  FinalIds(graph[Channel(q)])[q.node]
                            \cap FinalIds(graph[Channel(q)])[r.node] = {}
        BY DEF IdsApart
    <2> DEFINE g == graph[Channel(q)]
               n == q.node
               m == r.node
    <2>1. /\ ~IsBarrier(q) /\ ~q.dontCheck /\ ~IsBarrier(r) /\ ~r.dontCheck
          /\ Channel(r) = Channel(q)
        BY DEF Intersect
    <2>2. n \in DOMAIN g.nodes /\ m \in DOMAIN g.nodes
        BY <2>1 DEF Core, HaveNodes, HasNode
    <2>3. {n, m} \in g.edges
        BY DEF Core, Linked, AreLinked
    <2>4. IsGraph(g)
        <3>1. Channel(q) \in ChannelsOf(ir)
            BY <2>1 DEF Core, PairsOk, PairOk
        <3> QED BY <3>1 DEF Core, GraphsOk, GraphOk
    <2> HIDE DEF g, n, m
    <2>5. n # m
        BY DEF n, m
    <2>6. FinalIds(g)[n] \cap FinalIds(g)[m] = {}
        BY <2>2, <2>3, <2>4, <2>5, FinalIdsAreProper
    <2> QED BY <2>6 DEF g, n, m
<1> QED BY <1>1, CoreHolds, PTL
=============================================================================
