------------------------- MODULE PipeMachineProofs -------------------------
(***************************************************************************)
(* What holds of every program on every number of pipes: a synchronised    *)
(* program is free of races, one that runs in the order it is written      *)
(* never gets stuck, and one that waits for every set leaves no flag.      *)
(*                                                                         *)
(* The argument is one inductive invariant: the instructions taken so far  *)
(* are closed under what has to come before them, the flags count their    *)
(* sets and waits, and none of them that finishes an access leaves that    *)
(* access running.                                                         *)
(***************************************************************************)
EXTENDS PipeMachine, FiniteSetTheorems, WellFoundedInduction, TLAPS

Taken == DOMAIN code \ pending

InOrder == \A j \in Taken : \A i \in DOMAIN code : i < j /\ Serial(i, j) => i \in Taken

Counted == \A f \in Flags :
    flags[f] = Cardinality(SetsIn(Taken, f)) - Cardinality(WaitsIn(Taken, f))

Finished == \A s \in Taken : \A i \in running : ~Finishes(s, i)

IInv == TypeOK /\ InOrder /\ Counted /\ Finished
-----------------------------------------------------------------------------
(* Positions of a program are numbers, and there are finitely many.         *)
LEMMA Positions ==
    ASSUME TypeOK
    PROVE  /\ DOMAIN code \subseteq Nat
           /\ \A D \in SUBSET DOMAIN code : IsFiniteSet(D) /\ Cardinality(D) \in Nat
<1>1. DOMAIN code = 1 .. Len(code) /\ Len(code) \in Nat
  BY DEF TypeOK
<1>2. IsFiniteSet(DOMAIN code)
  BY <1>1, FS_Interval
<1>3. ASSUME NEW D \in SUBSET DOMAIN code
      PROVE  IsFiniteSet(D) /\ Cardinality(D) \in Nat
  BY <1>2, FS_Subset, FS_CardinalityType
<1> QED
  BY <1>1, <1>3

(* What kind of instruction there is at a position.                         *)
LEMMA Kinds ==
    ASSUME TypeOK, NEW i \in DOMAIN code
    PROVE  /\ code[i].kind \in {"rw", "set", "wait", "barrier"}
           /\ code[i].kind = "set" =>
                 /\ code[i].flag \in Flags /\ code[i] = Set(code[i].flag)
                 /\ code[i].pipe \in Pipes
           /\ code[i].kind = "wait" => code[i].flag \in Flags /\ code[i] = Wait(code[i].flag)
           /\ code[i].kind \in {"rw", "barrier"} =>
                 \A f \in Flags : code[i] # Set(f) /\ code[i] # Wait(f)
           /\ \A f \in Flags : /\ code[i] = Set(f) => code[i].kind = "set" /\ code[i].flag = f
                               /\ code[i] = Wait(f) => /\ code[i].kind = "wait" /\ code[i].flag = f
                                                       /\ code[i].pipe = f[2]
<1>1. WellFormed(code[i])
  BY DEF TypeOK
<1>2. ASSUME NEW f \in Flags
      PROVE  f[1] \in Pipes /\ f[2] \in Pipes
  BY DEF Flags
<1> QED
  BY <1>1, <1>2 DEF WellFormed, Access, Set, Wait, BarrierOn, Instr

(* What happens to the instructions taken when one more is.                 *)
LEMMA TakenNext ==
    ASSUME TypeOK, NEW i \in pending, Take(i)
    PROVE  /\ Taken' = Taken \cup {i} /\ i \notin Taken
           /\ Taken \subseteq DOMAIN code /\ i \in DOMAIN code
BY DEF TypeOK, Take, Taken

(* Sets and waits are counted one at a time.                                *)
LEMMA OneMore ==
    ASSUME TypeOK, NEW D \in SUBSET DOMAIN code, NEW i \in DOMAIN code \ D, NEW f \in Flags
    PROVE  /\ Cardinality(SetsIn(D \cup {i}, f)) =
                 Cardinality(SetsIn(D, f)) + (IF code[i] = Set(f) THEN 1 ELSE 0)
           /\ Cardinality(WaitsIn(D \cup {i}, f)) =
                 Cardinality(WaitsIn(D, f)) + (IF code[i] = Wait(f) THEN 1 ELSE 0)
<1>1. ASSUME NEW S \in SUBSET D
      PROVE  IsFiniteSet(S) /\ i \notin S /\ Cardinality(S \cup {i}) = Cardinality(S) + 1
  BY Positions, FS_AddElement
<1>2. SetsIn(D, f) \in SUBSET D /\ WaitsIn(D, f) \in SUBSET D
  BY DEF SetsIn, WaitsIn
<1>3. Cardinality(SetsIn(D, f)) \in Nat /\ Cardinality(WaitsIn(D, f)) \in Nat
  BY <1>2, Positions
<1>4. SetsIn(D \cup {i}, f) = IF code[i] = Set(f) THEN SetsIn(D, f) \cup {i} ELSE SetsIn(D, f)
  BY DEF SetsIn
<1>5. WaitsIn(D \cup {i}, f) = IF code[i] = Wait(f) THEN WaitsIn(D, f) \cup {i} ELSE WaitsIn(D, f)
  BY DEF WaitsIn
<1> QED
  BY <1>1, <1>2, <1>3, <1>4, <1>5
-----------------------------------------------------------------------------
LEMMA InitIInv == Init => IInv
<1> SUFFICES ASSUME Init PROVE IInv
  OBVIOUS
<1>1. TypeOK
  BY DEF Init, Start, TypeOK
<1>2. Taken = {} /\ running = {}
  BY DEF Init, Start, Taken
<1>3. InOrder /\ Finished
  BY <1>2 DEF InOrder, Finished
<1>4. \A f \in Flags : SetsIn(Taken, f) = {} /\ WaitsIn(Taken, f) = {}
  BY <1>2 DEF SetsIn, WaitsIn
<1>5. Counted
  <2> SUFFICES ASSUME NEW f \in Flags
               PROVE  flags[f] = Cardinality(SetsIn(Taken, f)) - Cardinality(WaitsIn(Taken, f))
    BY DEF Counted
  <2>1. flags[f] = 0
    BY DEF Init, Start
  <2>2. Cardinality(SetsIn(Taken, f)) = 0 /\ Cardinality(WaitsIn(Taken, f)) = 0
    BY <1>4, FS_EmptySet
  <2> QED
    BY <2>1, <2>2
<1> QED
  BY <1>1, <1>3, <1>5 DEF IInv

(* A step takes an instruction whose turn it is.                            *)
LEMMA InOrderNext ==
    ASSUME TypeOK, InOrder, NEW i \in pending, Ready(i), Take(i)
    PROVE  InOrder'
<1> SUFFICES ASSUME NEW j \in Taken', NEW k \in DOMAIN code', k < j, Serial(k, j)'
             PROVE  k \in Taken'
  BY DEF InOrder
<1>1. /\ Taken' = Taken \cup {i} /\ i \notin Taken
      /\ Taken \subseteq DOMAIN code /\ i \in DOMAIN code /\ code' = code
  BY TakenNext DEF Take
<1>2. Serial(k, j)
  BY <1>1 DEF Serial
<1>3. CASE j \in Taken
  BY <1>1, <1>2, <1>3 DEF InOrder
<1>4. CASE j = i
  <2>1. Serial(i, k) /\ k < i /\ k \in DOMAIN code
    BY <1>1, <1>2, <1>4 DEF Serial
  <2>2. k \notin pending
    BY <2>1 DEF Ready
  <2> QED
    BY <1>1, <2>1, <2>2 DEF Taken
<1> QED
  BY <1>1, <1>3, <1>4

(* How the flags have to change with the instruction that is taken.         *)
LEMMA CountedNext ==
    ASSUME TypeOK, Counted, NEW i \in pending, Take(i),
           \A f \in Flags : flags'[f] = flags[f] + (IF code[i] = Set(f) THEN 1 ELSE 0)
                                                 - (IF code[i] = Wait(f) THEN 1 ELSE 0)
    PROVE  Counted'
<1> SUFFICES ASSUME NEW f \in Flags
             PROVE  flags'[f] = Cardinality(SetsIn(Taken, f)') - Cardinality(WaitsIn(Taken, f)')
  BY DEF Counted, Flags
<1>1. /\ Taken' = Taken \cup {i} /\ i \notin Taken
      /\ Taken \in SUBSET DOMAIN code /\ i \in DOMAIN code /\ code' = code
  BY TakenNext DEF Take
<1>2. SetsIn(Taken, f)' = SetsIn(Taken \cup {i}, f) /\ WaitsIn(Taken, f)' = WaitsIn(Taken \cup {i}, f)
  BY <1>1 DEF SetsIn, WaitsIn
<1>3. /\ SetsIn(Taken, f) \in SUBSET DOMAIN code
      /\ WaitsIn(Taken, f) \in SUBSET DOMAIN code
  BY <1>1 DEF SetsIn, WaitsIn
<1>4. Cardinality(SetsIn(Taken, f)) \in Nat /\ Cardinality(WaitsIn(Taken, f)) \in Nat
  BY <1>3, Positions
<1>5. flags[f] = Cardinality(SetsIn(Taken, f)) - Cardinality(WaitsIn(Taken, f))
  BY DEF Counted
<1>6. /\ Cardinality(SetsIn(Taken \cup {i}, f)) =
            Cardinality(SetsIn(Taken, f)) + (IF code[i] = Set(f) THEN 1 ELSE 0)
      /\ Cardinality(WaitsIn(Taken \cup {i}, f)) =
            Cardinality(WaitsIn(Taken, f)) + (IF code[i] = Wait(f) THEN 1 ELSE 0)
  BY <1>1, OneMore
<1> QED
  BY <1>2, <1>4, <1>5, <1>6

(* What is still running was finished by nothing taken, when the new        *)
(* instruction is an access or ends those that it finishes.                 *)
LEMMA FinishedNext ==
    ASSUME TypeOK, InOrder, Finished, NEW i \in pending, Ready(i), Take(i),
           \/ code[i].kind \in {"rw", "wait"} /\ running' \subseteq running \cup {i}
           \/ running' \subseteq {k \in running : ~Finishes(i, k)}
    PROVE  Finished'
<1> SUFFICES ASSUME NEW s \in Taken', NEW k \in running', Finishes(s, k)'
             PROVE  FALSE
  BY DEF Finished
<1>1. /\ Taken' = Taken \cup {i} /\ i \notin Taken
      /\ Taken \subseteq DOMAIN code /\ i \in DOMAIN code /\ code' = code
  BY TakenNext DEF Take
<1>2. Finishes(s, k)
  BY <1>1 DEF Finishes
<1>3. CASE s \in Taken /\ k \in running
  BY <1>2, <1>3 DEF Finished
<1>4. CASE s \in Taken /\ k = i
  <2>1. i < s /\ Serial(i, s)
    BY <1>2, <1>4 DEF Finishes, Serial
  <2> QED
    BY <1>1, <1>4, <2>1 DEF InOrder
<1>5. CASE s = i
  BY <1>2, <1>5 DEF Finishes
<1> QED
  BY <1>1, <1>3, <1>4, <1>5
-----------------------------------------------------------------------------
LEMMA IssueStep ==
    ASSUME IInv, NEW i \in pending, Issue(i)
    PROVE  IInv'
<1> USE DEF IInv
<1>1. Ready(i) /\ Take(i) /\ code[i].kind = "rw" /\ i \in DOMAIN code
  BY DEF Issue, TypeOK
<1>2. TypeOK'
  BY <1>1 DEF Issue, Take, TypeOK
<1>3. \A f \in Flags : code[i] # Set(f) /\ code[i] # Wait(f)
  BY <1>1, Kinds
<1>4. \A f \in Flags : flags[f] \in Nat /\ flags'[f] = flags[f]
  BY DEF Issue, TypeOK
<1>5. Counted'
  BY <1>1, <1>3, <1>4, CountedNext
<1>6. InOrder'
  BY <1>1, InOrderNext
<1>7. Finished'
  <2>1. running' \subseteq running \cup {i}
    BY DEF Issue
  <2> QED
    BY <1>1, <2>1, FinishedNext
<1> QED
  BY <1>2, <1>5, <1>6, <1>7

LEMMA SetFlagStep ==
    ASSUME IInv, NEW i \in pending, SetFlag(i)
    PROVE  IInv'
<1> USE DEF IInv
<1>1. Ready(i) /\ Take(i) /\ code[i].kind = "set" /\ i \in DOMAIN code
  BY DEF SetFlag, TypeOK
<1>2. code[i].flag \in Flags /\ code[i] = Set(code[i].flag) /\ code[i].pipe \in Pipes
  BY <1>1, Kinds
<1>3. flags' = [flags EXCEPT ![code[i].flag] = flags[code[i].flag] + 1] /\ flags \in [Flags -> Nat]
  BY DEF SetFlag, TypeOK
<1>4. running' = running \ OnPipe(code[i].pipe)
  BY DEF SetFlag
<1>5. TypeOK'
  <2>1. flags' \in [Flags -> Nat]
    BY <1>2, <1>3
  <2> QED
    BY <1>1, <1>4, <2>1 DEF Take, TypeOK
<1>6. ASSUME NEW f \in Flags
      PROVE  flags'[f] = flags[f] + (IF code[i] = Set(f) THEN 1 ELSE 0)
                                  - (IF code[i] = Wait(f) THEN 1 ELSE 0)
  <2>1. code[i] # Wait(f)
    BY <1>1, Kinds
  <2>2. code[i] = Set(f) <=> f = code[i].flag
    BY <1>1, <1>2, Kinds
  <2>3. flags[f] \in Nat
    BY <1>3
  <2>4. CASE f = code[i].flag
    BY <1>3, <2>1, <2>2, <2>3, <2>4
  <2>5. CASE f # code[i].flag
    BY <1>3, <2>1, <2>2, <2>3, <2>5
  <2> QED
    BY <2>4, <2>5
<1>7. Counted'
  BY <1>1, <1>6, CountedNext
<1>8. InOrder'
  BY <1>1, InOrderNext
<1>9. Finished'
  <2>1. running' \subseteq {k \in running : ~Finishes(i, k)}
    <3> SUFFICES ASSUME NEW k \in running, k \notin OnPipe(code[i].pipe), Finishes(i, k)
                 PROVE  FALSE
      BY <1>4
    <3>1. k \in DOMAIN code /\ code[i].pipe # All
      BY <1>2, MachineAssumption DEF TypeOK
    <3> QED
      BY <3>1 DEF Finishes, OnPipe
  <2> QED
    BY <1>1, <2>1, FinishedNext
<1> QED
  BY <1>5, <1>7, <1>8, <1>9

LEMMA WaitFlagStep ==
    ASSUME IInv, NEW i \in pending, WaitFlag(i)
    PROVE  IInv'
<1> USE DEF IInv
<1>1. Ready(i) /\ Take(i) /\ code[i].kind = "wait" /\ i \in DOMAIN code
  BY DEF WaitFlag, TypeOK
<1>2. code[i].flag \in Flags /\ code[i] = Wait(code[i].flag)
  BY <1>1, Kinds
<1>3. /\ flags' = [flags EXCEPT ![code[i].flag] = flags[code[i].flag] - 1]
      /\ flags \in [Flags -> Nat] /\ flags[code[i].flag] > 0 /\ running' = running
  BY DEF WaitFlag, TypeOK
<1>5. TypeOK'
  <2>1. flags' \in [Flags -> Nat]
    BY <1>2, <1>3
  <2> QED
    BY <1>1, <1>3, <2>1 DEF Take, TypeOK
<1>6. ASSUME NEW f \in Flags
      PROVE  flags'[f] = flags[f] + (IF code[i] = Set(f) THEN 1 ELSE 0)
                                  - (IF code[i] = Wait(f) THEN 1 ELSE 0)
  <2>1. code[i] # Set(f)
    BY <1>1, Kinds
  <2>2. code[i] = Wait(f) <=> f = code[i].flag
    BY <1>1, <1>2, Kinds
  <2>3. flags[f] \in Nat
    BY <1>3
  <2>4. CASE f = code[i].flag
    BY <1>3, <2>1, <2>2, <2>3, <2>4
  <2>5. CASE f # code[i].flag
    BY <1>3, <2>1, <2>2, <2>3, <2>5
  <2> QED
    BY <2>4, <2>5
<1>7. Counted'
  BY <1>1, <1>6, CountedNext
<1>8. InOrder'
  BY <1>1, InOrderNext
<1>9. Finished'
  BY <1>1, <1>3, FinishedNext
<1> QED
  BY <1>5, <1>7, <1>8, <1>9

LEMMA BarrierStep ==
    ASSUME IInv, NEW i \in pending, Barrier(i)
    PROVE  IInv'
<1> USE DEF IInv
<1>1. Ready(i) /\ Take(i) /\ code[i].kind = "barrier" /\ i \in DOMAIN code
  BY DEF Barrier, TypeOK
<1>2. \A f \in Flags : code[i] # Set(f) /\ code[i] # Wait(f)
  BY <1>1, Kinds
<1>3. running' = IF code[i].pipe = All THEN {} ELSE running \ OnPipe(code[i].pipe)
  BY DEF Barrier
<1>4. \A f \in Flags : flags[f] \in Nat /\ flags'[f] = flags[f]
  BY DEF Barrier, TypeOK
<1>5. TypeOK'
  BY <1>1, <1>3 DEF Barrier, Take, TypeOK
<1>6. Counted'
  BY <1>1, <1>2, <1>4, CountedNext
<1>7. InOrder'
  BY <1>1, InOrderNext
<1>8. Finished'
  <2>1. running' \subseteq {k \in running : ~Finishes(i, k)}
    <3> SUFFICES ASSUME NEW k \in running, code[i].pipe # All,
                        k \notin OnPipe(code[i].pipe), Finishes(i, k)
                 PROVE  FALSE
      BY <1>3
    <3>1. k \in DOMAIN code
      BY DEF TypeOK
    <3> QED
      BY <3>1 DEF Finishes, OnPipe
  <2> QED
    BY <1>1, <2>1, FinishedNext
<1> QED
  BY <1>5, <1>6, <1>7, <1>8

LEMMA NextIInv == IInv /\ [Next]_vars => IInv'
<1> SUFFICES ASSUME IInv, [Next]_vars PROVE IInv'
  OBVIOUS
<1>1. CASE Next
  <2>1. PICK i \in pending : Advance(i)
    BY <1>1 DEF Next
  <2> QED
    BY <2>1, IssueStep, SetFlagStep, WaitFlagStep, BarrierStep DEF Advance
<1>2. CASE UNCHANGED vars
  BY <1>2 DEF vars, IInv, TypeOK, InOrder, Counted, Finished, Taken, Serial, SetsIn, WaitsIn, Finishes
<1> QED
  BY <1>1, <1>2

(* What has been taken is closed under what must come first, and no wait    *)
(* was taken without its set.                                               *)
THEOREM Invariance == Spec => []IInv
<1> QED
  BY InitIInv, NextIInv, PTL DEF Spec

(* Every variable keeps its type: in particular no flag is taken more often *)
(* than it was set.                                                         *)
THEOREM MachineTypeCorrect == Spec => []TypeOK
<1>1. IInv => TypeOK
  BY DEF IInv
<1> QED
  BY <1>1, Invariance, PTL
-----------------------------------------------------------------------------
(* What has been taken may be taken.                                        *)
LEMMA TakenIsTakeable == IInv => Takeable(Taken)
<1> SUFFICES ASSUME IInv PROVE Takeable(Taken)
  OBVIOUS
<1> USE DEF IInv
<1>1. ASSUME NEW f \in Flags
      PROVE  Cardinality(WaitsIn(Taken, f)) <= Cardinality(SetsIn(Taken, f))
  <2>1. SetsIn(Taken, f) \in SUBSET DOMAIN code /\ WaitsIn(Taken, f) \in SUBSET DOMAIN code
    BY DEF Taken, SetsIn, WaitsIn
  <2>2. Cardinality(SetsIn(Taken, f)) \in Nat /\ Cardinality(WaitsIn(Taken, f)) \in Nat
    BY <2>1, Positions
  <2>3. flags[f] \in Nat
    BY DEF TypeOK
  <2>4. flags[f] = Cardinality(SetsIn(Taken, f)) - Cardinality(WaitsIn(Taken, f))
    BY DEF Counted
  <2> QED
    BY <2>2, <2>3, <2>4
<1> QED
  BY <1>1 DEF Takeable, InOrder

LEMMA OrderedFromIInv == IInv => OrderedWhenSynchronised
<1> SUFFICES ASSUME IInv, Synchronised,
                    NEW j \in running, NEW i \in DOMAIN code, i < j, Conflict(i, j)
             PROVE  i \notin pending \cup running
  BY DEF OrderedWhenSynchronised, Ordered
<1> USE DEF IInv
<1>1. j \in Taken /\ j \in DOMAIN code /\ Taken \in SUBSET DOMAIN code
  BY DEF TypeOK, Taken
<1>2. PICK s \in Taken : Finishes(s, i)
  BY <1>1, TakenIsTakeable DEF Synchronised
<1>3. i < s /\ Serial(i, s)
  BY <1>2 DEF Finishes, Serial
<1>4. i \in Taken
  BY <1>3 DEF InOrder
<1>5. i \notin running
  BY <1>2 DEF Finished
<1> QED
  BY <1>4, <1>5 DEF Taken

(* No data race: of two conflicting accesses of a synchronised program the  *)
(* later one never runs before the earlier has finished, whatever the order *)
(* in which the pipes advance.                                              *)
THEOREM SynchronisedIsOrdered == Spec => []OrderedWhenSynchronised
BY Invariance, OrderedFromIInv, PTL
-----------------------------------------------------------------------------
(* The first instruction that is left has its turn.                         *)
LEMMA FirstIsReady ==
    ASSUME TypeOK, pending # {}
    PROVE  \E m \in pending : Ready(m) /\ \A k \in DOMAIN code : k < m => k \in Taken
<1>1. pending \subseteq Nat
  BY Positions DEF TypeOK
<1> DEFINE before == {ss \in Nat \X Nat : ss[1] < ss[2]}
<1>2. IsWellFoundedOn(before, Nat)
  BY NatLessThanWellFounded DEF OpToRel
<1> HIDE DEF before
<1>3. PICK m \in pending : \A k \in pending : ~(<<k, m>> \in before)
  BY <1>1, <1>2, WFMin
<1>4. \A k \in pending : ~(k < m)
  BY <1>1, <1>3 DEF before
<1> QED
  BY <1>1, <1>4, Positions DEF Ready, Taken

(* A wait whose turn it is finds its flag set: the waits on the flag taken  *)
(* so far are those written before it, the sets are at least those.         *)
LEMMA WaitIsServed ==
    ASSUME IInv, Sequential, NEW m \in pending, code[m].kind = "wait",
           \A k \in DOMAIN code : k < m => k \in Taken
    PROVE  flags[code[m].flag] > 0
<1> USE DEF IInv
<1> DEFINE f == code[m].flag
           upTo == 1 .. m
<1>1. m \in DOMAIN code /\ DOMAIN code = 1 .. Len(code) /\ Len(code) \in Nat
  BY DEF TypeOK
<1>2. f \in Flags /\ code[m] = Wait(f) /\ code[m].pipe = f[2]
  BY <1>1, Kinds
<1>3. upTo \in SUBSET DOMAIN code /\ Taken \in SUBSET DOMAIN code /\ m \notin Taken
  BY <1>1 DEF Taken
<1>4. Cardinality(WaitsIn(upTo, f)) <= Cardinality(SetsIn(upTo, f))
  BY <1>1, <1>2 DEF Sequential, Takeable
<1>5. SetsIn(upTo, f) \subseteq SetsIn(Taken, f)
  <2>1. ASSUME NEW k \in upTo, code[k] = Set(f)
        PROVE  k \in Taken
    <3>1. k \in DOMAIN code /\ k # m
      BY <1>1, <1>2, <2>1 DEF Set, Wait, Instr
    <3> QED
      BY <1>1, <3>1
  <2> QED
    BY <2>1 DEF SetsIn
<1>6. WaitsIn(Taken, f) \cup {m} \subseteq WaitsIn(upTo, f)
  <2>1. ASSUME NEW k \in Taken, code[k] = Wait(f)
        PROVE  k \in upTo
    <3>1. k \in DOMAIN code /\ code[k].pipe = code[m].pipe
      BY <1>2, <1>3, <2>1
    <3>2. ~(m < k)
      BY <1>1, <1>3, <3>1 DEF InOrder, Serial
    <3> QED
      BY <1>1, <3>1, <3>2
  <2> QED
    BY <1>1, <1>2, <2>1 DEF WaitsIn
<1>7. /\ SetsIn(upTo, f) \in SUBSET DOMAIN code /\ SetsIn(Taken, f) \in SUBSET DOMAIN code
      /\ WaitsIn(upTo, f) \in SUBSET DOMAIN code /\ WaitsIn(Taken, f) \in SUBSET DOMAIN code
      /\ m \notin WaitsIn(Taken, f)
  BY <1>3 DEF SetsIn, WaitsIn
<1>8. /\ Cardinality(SetsIn(upTo, f)) <= Cardinality(SetsIn(Taken, f))
      /\ Cardinality(WaitsIn(Taken, f) \cup {m}) <= Cardinality(WaitsIn(upTo, f))
  BY <1>5, <1>6, <1>7, Positions, FS_Subset
<1>9. Cardinality(WaitsIn(Taken, f) \cup {m}) = Cardinality(WaitsIn(Taken, f)) + 1
  BY <1>7, Positions, FS_AddElement
<1>10. /\ Cardinality(SetsIn(upTo, f)) \in Nat /\ Cardinality(SetsIn(Taken, f)) \in Nat
       /\ Cardinality(WaitsIn(upTo, f)) \in Nat /\ Cardinality(WaitsIn(Taken, f)) \in Nat
  BY <1>7, Positions
<1>11. flags[f] = Cardinality(SetsIn(Taken, f)) - Cardinality(WaitsIn(Taken, f))
  BY <1>2 DEF Counted
<1> HIDE DEF f, upTo
<1>12. flags[f] > 0
  BY <1>4, <1>8, <1>9, <1>10, <1>11
<1> QED
  BY <1>12 DEF f

LEMMA RunsFromIInv == IInv => RunsWhenSequential
<1> SUFFICES ASSUME IInv, Sequential, pending # {}
             PROVE  \E i \in pending : Ready(i) /\ (code[i].kind = "wait" => flags[code[i].flag] > 0)
  BY DEF RunsWhenSequential, NoStuck
<1>1. PICK m \in pending : Ready(m) /\ \A k \in DOMAIN code : k < m => k \in Taken
  BY FirstIsReady DEF IInv
<1>2. code[m].kind = "wait" => flags[code[m].flag] > 0
  BY <1>1, WaitIsServed
<1> QED
  BY <1>1, <1>2

(* No deadlock: a program that would run to its end on one pipe, in the     *)
(* order it is written, gets to its end in every order of its pipes.        *)
THEOREM SequentialNeverStuck == Spec => []RunsWhenSequential
BY Invariance, RunsFromIInv, PTL
-----------------------------------------------------------------------------
LEMMA BalancesFromIInv == IInv => BalancesWhenBalanced
<1> SUFFICES ASSUME IInv, Balanced, pending = {}, NEW f \in Flags
             PROVE  flags[f] = 0
  BY DEF BalancesWhenBalanced, FlagsBalanced
<1>1. Taken = DOMAIN code
  BY DEF Taken
<1>2. SetsIn(Taken, f) \in SUBSET DOMAIN code
  BY <1>1 DEF SetsIn
<1>3. Cardinality(SetsIn(Taken, f)) \in Nat
  BY <1>2, Positions DEF IInv
<1>4. Cardinality(SetsIn(Taken, f)) = Cardinality(WaitsIn(Taken, f))
  BY <1>1 DEF Balanced
<1> QED
  BY <1>3, <1>4 DEF IInv, Counted

(* Every flag is used up at the end of a program with as many waits as sets.*)
THEOREM BalancedLeavesNoFlag == Spec => []BalancesWhenBalanced
BY Invariance, BalancesFromIInv, PTL
=============================================================================
