------------------------ MODULE UnorderedLockProofs ------------------------
(***************************************************************************)
(* Mutual exclusion of UnorderedLock for any number of participants, if    *)
(* each has a slot of its own and frees that one.                          *)
(***************************************************************************)
EXTENDS UnorderedLock, TLAPS, FiniteSetTheorems

Ticketed(c) == step[c] \in {"chosen", "gate", "queue", "inside"}
Choosing(c) == step[c] \in {"scanning", "taking", "chosen"}

Precedes(c, d) ==
    \/ my_ticket[c] < my_ticket[d]
    \/ my_ticket[c] = my_ticket[d] /\ SlotId[c] < SlotId[d]

(* If d is about to take a ticket, it is or will be larger than c's.       *)
TakesLarger(c, d) ==
    /\ step[d] = "scanning" => j[d] <= SlotId[c] \/ my_ticket[c] <= max_ticket[d]
    /\ step[d] = "taking" => my_ticket[c] <= max_ticket[d]

(* c need not wait for d, now or later.                                    *)
GoesFirst(c, d) ==
    /\ TakesLarger(c, d)
    /\ Ticketed(d) => Precedes(c, d)

(* c has let d pass its loop over the others.                              *)
Passed(c, d) == \/ step[c] = "inside"
                \/ step[c] \in {"gate", "queue"} /\ SlotId[d] < j[c]

SlotsHold ==
    \A c \in Core :
        /\ ticket[SlotId[c]] = IF Ticketed(c) THEN my_ticket[c] ELSE 0
        /\ choosing[SlotId[c]] = IF Choosing(c) THEN 1 ELSE 0
        /\ Ticketed(c) => my_ticket[c] > 0
        /\ step[c] \in {"scanning", "gate", "queue"} => j[c] < N
        /\ step[c] \in {"gate", "queue"} => j[c] # SlotId[c]

Waits(c, d) ==
    /\ Passed(c, d) => GoesFirst(c, d)
    /\ step[c] = "queue" /\ j[c] = SlotId[d] => TakesLarger(c, d)

BakeryIInv == /\ TypeOK
              /\ SlotsHold
              /\ \A c, d \in Core : c # d => Waits(c, d)

(* With one participant there is at most one core.                         *)
Many == OneSlotEach /\ N > 1

LEMMA Layout ==
    ASSUME OneSlotEach
    PROVE  /\ N = participant_num /\ N \in Nat /\ N > 0
           /\ SlotId \in [Core -> Slots]
           /\ FreeSlotId = SlotId
BY DEF OneSlotEach, N, Slots

LEMMA BakeryInit ==
    ASSUME Many, Init
    PROVE  BakeryIInv
<1> USE Layout DEF Many
<1>1. TypeOK
    BY DEF Init, TypeOK, Steps, Slots
<1>2. SlotsHold
    BY DEF Init, SlotsHold, Ticketed, Choosing
<1>3. \A c, d \in Core : Waits(c, d)
    BY DEF Init, Waits, Passed, GoesFirst, TakesLarger
<1> QED BY <1>1, <1>2, <1>3 DEF BakeryIInv

LEMMA TypeStep ==
    ASSUME Many, TypeOK, SlotsHold, [Next]_uvars
    PROVE  TypeOK'
<1> USE Layout DEF Many, TypeOK, Goes
<1>1. CASE UNCHANGED uvars
    BY <1>1 DEF uvars, memory, locals
<1>2. ASSUME NEW c \in Core, Lock(c) PROVE TypeOK'
    BY <1>2 DEF Lock, Steps, memory, locals
<1>3. ASSUME NEW c \in Core, ReadTicket(c) PROVE TypeOK'
    <2>1. j[c] \in Slots
        BY <1>3 DEF ReadTicket, SlotsHold, Slots
    <2> QED BY <1>3, <2>1 DEF ReadTicket, Steps, Slots, memory
<1>4. ASSUME NEW c \in Core, TakeTicket(c) PROVE TypeOK'
    BY <1>4 DEF TakeTicket, Steps
<1>5. ASSUME NEW c \in Core, EndChoosing(c) PROVE TypeOK'
    BY <1>5 DEF EndChoosing, NextPeer, Peer, Steps, Slots
<1>6. ASSUME NEW c \in Core, PassGate(c) PROVE TypeOK'
    BY <1>6 DEF PassGate, Steps, memory, locals
<1>7. ASSUME NEW c \in Core, PassPeer(c) PROVE TypeOK'
    <2>1. j[c] < N /\ j[c] # SlotId[c] /\ j[c] \in Nat /\ SlotId[c] \in 0 .. N - 1
        BY <1>7 DEF PassPeer, NextPeer, SlotsHold, Slots
    <2>2. Peer(c, j[c] + 1) \in 0 .. N
        BY <2>1 DEF Peer
    <2> QED BY <1>7, <2>2 DEF PassPeer, NextPeer, Steps, memory
<1>8. ASSUME NEW c \in Core, Unlock(c) PROVE TypeOK'
    BY <1>8 DEF Unlock, ClearTicket, Steps, locals
<1>9. ASSUME NEW c \in Core, Free(c) PROVE TypeOK'
    BY <1>9 DEF Free, ClearTicket, Steps, locals
<1> QED BY <1>1, <1>2, <1>3, <1>4, <1>5, <1>6, <1>7, <1>8, <1>9 DEF Next, Advance

LEMMA SlotsStep ==
    ASSUME Many, TypeOK, SlotsHold, [Next]_uvars
    PROVE  SlotsHold'
<1> USE Layout DEF Many, TypeOK, Goes, Ticketed, Choosing
<1>0. \A c, d \in Core : c # d => SlotId[c] # SlotId[d]
    BY DEF OneSlotEach
<1> USE <1>0
<1>1. CASE UNCHANGED uvars
    BY <1>1 DEF uvars, memory, locals, SlotsHold
<1>2. ASSUME NEW c \in Core, Lock(c) PROVE SlotsHold'
    BY <1>2 DEF Lock, SlotsHold, memory, locals
<1>3. ASSUME NEW c \in Core, ReadTicket(c) PROVE SlotsHold'
    BY <1>3 DEF ReadTicket, SlotsHold, memory
<1>4. ASSUME NEW c \in Core, TakeTicket(c) PROVE SlotsHold'
    BY <1>4 DEF TakeTicket, SlotsHold
<1>5. ASSUME NEW c \in Core, EndChoosing(c) PROVE SlotsHold'
    BY <1>5 DEF EndChoosing, NextPeer, Peer, SlotsHold
<1>6. ASSUME NEW c \in Core, PassGate(c) PROVE SlotsHold'
    BY <1>6 DEF PassGate, SlotsHold, memory, locals
<1>7. ASSUME NEW c \in Core, PassPeer(c) PROVE SlotsHold'
    BY <1>7 DEF PassPeer, NextPeer, Peer, SlotsHold, memory
<1>8. ASSUME NEW c \in Core, Unlock(c) PROVE SlotsHold'
    BY <1>8 DEF Unlock, ClearTicket, SlotsHold, locals
<1>9. ASSUME NEW c \in Core, Free(c) PROVE SlotsHold'
    BY <1>9 DEF Free, ClearTicket, SlotsHold, locals
<1> QED BY <1>1, <1>2, <1>3, <1>4, <1>5, <1>6, <1>7, <1>8, <1>9 DEF Next, Advance

-----------------------------------------------------------------------------
(* No step of anybody makes d unfit to go after c, while c waits.          *)
LEMMA WaitsStep ==
    ASSUME Many, BakeryIInv, [Next]_uvars, NEW c \in Core, NEW d \in Core, c # d
    PROVE  Waits(c, d)'
<1> USE Layout DEF Many, Goes, Ticketed, Choosing, Waits, Passed, GoesFirst, TakesLarger,
                   Precedes
<1>0. /\ SlotId[c] # SlotId[d]
      /\ TypeOK /\ SlotsHold
      /\ Waits(c, d)
    BY DEF OneSlotEach, BakeryIInv
<1> HIDE DEF Waits
<1>1. CASE UNCHANGED uvars
    BY <1>0, <1>1 DEF uvars, memory, locals, Waits
<1>2. ASSUME NEW e \in Core, Lock(e) PROVE Waits(c, d)'
    <2>1. CASE e = c
        BY <1>0, <1>2, <2>1 DEF Lock, TypeOK, Waits, Slots
    <2>2. CASE e = d
        BY <1>0, <1>2, <2>2 DEF Lock, TypeOK, Waits, Slots
    <2>3. CASE e # c /\ e # d
        BY <1>0, <1>2, <2>3 DEF Lock, TypeOK, Waits, Slots
    <2> QED BY <2>1, <2>2, <2>3
<1>3. ASSUME NEW e \in Core, ReadTicket(e) PROVE Waits(c, d)'
    <2>1. CASE e = c
        BY <1>0, <1>3, <2>1 DEF ReadTicket, memory, TypeOK, SlotsHold, Waits, Slots
    <2>2. CASE e = d
        BY <1>0, <1>3, <2>2 DEF ReadTicket, memory, TypeOK, SlotsHold, Waits, Slots
    <2>3. CASE e # c /\ e # d
        BY <1>0, <1>3, <2>3 DEF ReadTicket, memory, TypeOK, SlotsHold, Waits, Slots
    <2> QED BY <2>1, <2>2, <2>3
<1>4. ASSUME NEW e \in Core, TakeTicket(e) PROVE Waits(c, d)'
    <2>1. CASE e = c
        BY <1>0, <1>4, <2>1 DEF TakeTicket, TypeOK, SlotsHold, Waits, Slots
    <2>2. CASE e = d
        BY <1>0, <1>4, <2>2 DEF TakeTicket, TypeOK, SlotsHold, Waits, Slots
    <2>3. CASE e # c /\ e # d
        BY <1>0, <1>4, <2>3 DEF TakeTicket, TypeOK, SlotsHold, Waits, Slots
    <2> QED BY <2>1, <2>2, <2>3
<1>5. ASSUME NEW e \in Core, EndChoosing(e) PROVE Waits(c, d)'
    BY <1>0, <1>5 DEF EndChoosing, NextPeer, Peer, TypeOK, SlotsHold, Waits, Slots
<1>6. ASSUME NEW e \in Core, PassGate(e) PROVE Waits(c, d)'
    BY <1>0, <1>6 DEF PassGate, memory, locals, TypeOK, SlotsHold, Waits, Slots
<1>7. ASSUME NEW e \in Core, PassPeer(e) PROVE Waits(c, d)'
    <2>1. CASE e = c
        <3>1. /\ step[c] = "queue" /\ ~OtherBefore(c)
              /\ step' = [step EXCEPT ![c] = IF Peer(c, j[c] + 1) < N THEN "gate" ELSE "inside"]
              /\ UNCHANGED <<memory, max_ticket, my_ticket>>
              /\ j' = [j EXCEPT ![c] = Peer(c, j[c] + 1)]
            BY <1>7, <2>1 DEF PassPeer, NextPeer
        <3>2. j[c] \in Nat /\ j[c] < N /\ SlotId[c] \in 0 .. N - 1 /\ SlotId[d] \in 0 .. N - 1
            BY <1>0, <3>1 DEF TypeOK, SlotsHold, Slots
        <3>3. SlotId[d] < Peer(c, j[c] + 1) => SlotId[d] < j[c] \/ SlotId[d] = j[c]
            BY <1>0, <3>2 DEF Peer
        <3>4. Passed(c, d)' => SlotId[d] < j[c] \/ SlotId[d] = j[c]
            BY <1>0, <3>1, <3>2, <3>3 DEF Peer, TypeOK
        <3>5. ASSUME SlotId[d] < j[c] PROVE GoesFirst(c, d)
            BY <1>0, <3>1, <3>5 DEF Waits
        <3>6. ASSUME SlotId[d] = j[c] PROVE GoesFirst(c, d)
            <4>1. TakesLarger(c, d)
                BY <1>0, <3>1, <3>6 DEF Waits
            <4>2. ASSUME Ticketed(d) PROVE Precedes(c, d)
                <5>1. ticket[SlotId[d]] = my_ticket[d] /\ my_ticket[d] > 0
                    BY <1>0, <4>2 DEF SlotsHold
                <5>2. my_ticket[c] \in Nat /\ my_ticket[d] \in Nat
                    BY <1>0 DEF TypeOK
                <5> QED BY <1>0, <3>1, <3>2, <3>6, <5>1, <5>2 DEF OtherBefore
            <4> QED BY <4>1, <4>2
        <3>7. Passed(c, d)' => GoesFirst(c, d)
            BY <3>4, <3>5, <3>6
        <3>8. GoesFirst(c, d) => GoesFirst(c, d)'
            BY <1>0, <3>1 DEF memory, TypeOK
        <3> QED BY <1>0, <3>1, <3>7, <3>8 DEF Waits, TypeOK
    <2>2. CASE e = d
        BY <1>0, <1>7, <2>2 DEF PassPeer, NextPeer, Peer, OtherBefore, memory, TypeOK, SlotsHold, Waits, Slots
    <2>3. CASE e # c /\ e # d
        BY <1>0, <1>7, <2>3 DEF PassPeer, NextPeer, Peer, OtherBefore, memory, TypeOK, SlotsHold, Waits, Slots
    <2> QED BY <2>1, <2>2, <2>3
<1>8. ASSUME NEW e \in Core, Unlock(e) PROVE Waits(c, d)'
    BY <1>0, <1>8 DEF Unlock, locals, TypeOK, Waits
<1>9. ASSUME NEW e \in Core, Free(e) PROVE Waits(c, d)'
    BY <1>0, <1>9 DEF Free, locals, TypeOK, Waits
<1> QED BY <1>1, <1>2, <1>3, <1>4, <1>5, <1>6, <1>7, <1>8, <1>9 DEF Next, Advance

(* The bakery's invariant: who is past another's slot holds the smaller    *)
(* ticket, or will.                                                        *)
THEOREM BakeryInvariant ==
    ASSUME Many
    PROVE  Spec => []BakeryIInv
<1>1. Init => BakeryIInv
    BY BakeryInit
<1>2. ASSUME BakeryIInv, [Next]_uvars PROVE BakeryIInv'
    <2>1. TypeOK' /\ SlotsHold'
        BY <1>2, TypeStep, SlotsStep DEF BakeryIInv
    <2>2. \A c, d \in Core : c # d => Waits(c, d)'
        BY <1>2, WaitsStep
    <2> QED BY <2>1, <2>2 DEF BakeryIInv
<1> QED BY <1>1, <1>2, PTL DEF Spec

(* sync_block_lock_unordered lets one core at a time into its region, for  *)
(* every number of cores and every interleaving of their loads and stores, *)
(* if the launcher's number of participants is right and each core locks,  *)
(* unlocks and frees a slot of its own.                                    *)
THEOREM UnorderedIsExclusive ==
    ASSUME OneSlotEach
    PROVE  Spec => []Exclusive
<1>1. CASE N > 1
    <2>1. BakeryIInv => Exclusive
        <3> SUFFICES ASSUME BakeryIInv, NEW c \in Core, NEW d \in Core,
                            step[c] = "inside", step[d] = "inside", c # d
                     PROVE  FALSE
            BY DEF Exclusive
        <3>1. Waits(c, d) /\ Waits(d, c)
            BY DEF BakeryIInv
        <3>2. Precedes(c, d) /\ Precedes(d, c)
            BY <3>1 DEF Waits, Passed, GoesFirst, Ticketed
        <3>3. /\ my_ticket[c] \in Nat /\ my_ticket[d] \in Nat
              /\ SlotId[c] \in Nat /\ SlotId[d] \in Nat
            BY Layout DEF BakeryIInv, TypeOK, Slots
        <3> QED BY <3>2, <3>3 DEF Precedes
    <2> QED BY <1>1, <2>1, BakeryInvariant, PTL DEF Many
<1>2. CASE N <= 1
    <2>1. \A c, d \in Core : c = d
        BY <1>2, Layout DEF OneSlotEach
    <2>2. Exclusive
        BY <2>1 DEF Exclusive
    <2> QED BY <2>2, PTL
<1> QED BY <1>1, <1>2, Layout
-----------------------------------------------------------------------------
(* Who waits does not wait in a circle. *)

LEMMA Smallest ==
    ASSUME NEW S, S \subseteq Nat, S # {}
    PROVE  \E x \in S : \A y \in S : x <= y
<1> DEFINE Upto(x) == 0 .. x
           T == {Upto(x) : x \in S}
<1>1. IsWellFoundedOn(StrictSubsetOrdering(Nat), FiniteSubsetsOf(Nat))
    BY FS_StrictSubsetOrderingWellFounded
<1>2. T \subseteq FiniteSubsetsOf(Nat) /\ T # {}
    <2>1. \A x \in S : Upto(x) \in SUBSET Nat /\ IsFiniteSet(Upto(x))
        BY FS_Interval
    <2> QED BY <2>1 DEF FiniteSubsetsOf
<1>3. PICK U \in T : \A V \in T : <<V, U>> \notin StrictSubsetOrdering(Nat)
    BY <1>1, <1>2, WFMin
<1>4. PICK x \in S : U = Upto(x)
    BY <1>3
<1>5. ASSUME NEW y \in S, y < x PROVE FALSE
    <2>1. x \in Nat /\ y \in Nat /\ Upto(y) \in T
        OBVIOUS
    <2>2. Upto(y) \subseteq Upto(x) /\ x \notin Upto(y) /\ x \in Upto(x)
        BY <1>5, <2>1
    <2>3. Upto(y) \in SUBSET Nat /\ Upto(x) \in SUBSET Nat
        BY <2>1
    <2> HIDE DEF Upto
    <2>4. <<Upto(y), U>> \in StrictSubsetOrdering(Nat)
        BY <1>4, <2>2, <2>3 DEF StrictSubsetOrdering
    <2> QED BY <1>3, <2>1, <2>4
<1> QED BY <1>5

Polls(c) == \/ step[c] = "gate" /\ choosing[j[c]] # 0
            \/ step[c] = "queue" /\ OtherBefore(c)

(* As long as somebody is in the lock, somebody there does not poll: one   *)
(* that still takes its ticket, or the one with the smallest.              *)
LEMMA SomebodyGoesOn ==
    ASSUME Many, BakeryIInv, \A s \in Slots : \E c \in Core : SlotId[c] = s,
           NEW e \in Core, step[e] \notin {"idle", "returned"}
    PROVE  \E c \in Core : step[c] \notin {"idle", "returned"} /\ ~Polls(c)
<1> USE Layout DEF Many
<1>0. /\ TypeOK /\ SlotsHold
      /\ \A c \in Core : step[c] \in Steps /\ my_ticket[c] \in Nat /\ SlotId[c] \in Nat
    BY DEF BakeryIInv, TypeOK, Slots
<1>1. CASE \E c \in Core : step[c] \in {"scanning", "taking", "chosen", "inside"}
    BY <1>1 DEF Polls
<1>2. CASE \A c \in Core : step[c] \notin {"scanning", "taking", "chosen", "inside"}
    <2> DEFINE W == {c \in Core : step[c] \in {"gate", "queue"}}
    <2>1. \A c \in Core : step[c] \notin {"idle", "returned"} <=> c \in W
        BY <1>0, <1>2 DEF Steps
    <2>2. PICK t \in {my_ticket[c] : c \in W} : \A u \in {my_ticket[c] : c \in W} : t <= u
        <3>1. {my_ticket[c] : c \in W} \subseteq Nat /\ {my_ticket[c] : c \in W} # {}
            BY <1>0, <2>1
        <3> QED BY <3>1, Smallest
    <2> DEFINE V == {c \in W : my_ticket[c] = t}
    <2>3. PICK s \in {SlotId[c] : c \in V} : \A r \in {SlotId[c] : c \in V} : s <= r
        <3>1. {SlotId[c] : c \in V} \subseteq Nat /\ {SlotId[c] : c \in V} # {}
            BY <1>0, <2>2
        <3> QED BY <3>1, Smallest
    <2>4. PICK c \in V : SlotId[c] = s
        BY <2>3
    <2>5. PICK d \in Core : SlotId[d] = j[c]
        <3>1. c \in Core /\ j[c] \in 0 .. N /\ j[c] < N
            BY <1>0 DEF SlotsHold, TypeOK
        <3>2. j[c] \in Slots
            BY <3>1 DEF Slots
        <3> QED BY <3>2
    <2>6. choosing[j[c]] = 0
        BY <1>0, <1>2, <2>5 DEF SlotsHold, Choosing
    <2>7. ASSUME OtherBefore(c) PROVE FALSE
        <3>1. ticket[j[c]] # 0
            BY <2>7 DEF OtherBefore
        <3>2. Ticketed(d) /\ ticket[j[c]] = my_ticket[d]
            BY <1>0, <2>5, <3>1 DEF SlotsHold
        <3>3. d \in W
            BY <1>2, <3>2 DEF Ticketed
        <3>4. \/ my_ticket[d] < my_ticket[c]
              \/ my_ticket[d] = my_ticket[c] /\ SlotId[d] < SlotId[c]
            BY <2>5, <2>7, <3>2 DEF OtherBefore
        <3>5. my_ticket[c] = t /\ t <= my_ticket[d]
            BY <2>2, <3>3
        <3>6. my_ticket[d] = t => s <= SlotId[d]
            BY <2>3, <3>3
        <3> QED BY <1>0, <2>4, <3>4, <3>5, <3>6
    <2> QED BY <2>6, <2>7 DEF Polls
<1> QED BY <1>1, <1>2

-----------------------------------------------------------------------------
(* Types, whatever the indices are. *)

(* The loop variable stays in the slots. *)
LoopsInRange ==
    \A c \in Core :
        /\ step[c] \in {"scanning", "taking", "chosen", "gate", "queue"} => N > 1
        /\ step[c] \in {"scanning", "gate", "queue"} => j[c] < N
        /\ step[c] \in {"gate", "queue"} => j[c] # SlotId[c]

(* The lock's state has its types even if a core frees the slot of         *)
(* another one, or the number of participants is not to be believed.       *)
THEOREM UnorderedTypeCorrect ==
    ASSUME N \in Nat \ {0}, SlotId \in [Core -> Nat], N > 1 => SlotId \in [Core -> Slots]
    PROVE  Spec => [](TypeOK /\ LoopsInRange)
<1> USE DEF Slots, Steps, Goes
<1>1. Init => TypeOK /\ LoopsInRange
    BY DEF Init, TypeOK, LoopsInRange
<1>2. ASSUME TypeOK, LoopsInRange, [Next]_uvars PROVE TypeOK' /\ LoopsInRange'
    <2> USE <1>2 DEF TypeOK, LoopsInRange
    <2>1. CASE UNCHANGED uvars
        BY <2>1 DEF uvars, memory, locals
    <2>2. ASSUME NEW c \in Core, Lock(c) PROVE TypeOK' /\ LoopsInRange'
        <3>1. CASE N <= 1
            BY <2>2, <3>1 DEF Lock, memory, locals
        <3>2. CASE N > 1
            <4>1. /\ step' = [step EXCEPT ![c] = "scanning"]
                  /\ choosing' = [choosing EXCEPT ![SlotId[c]] = 1]
                  /\ max_ticket' = [max_ticket EXCEPT ![c] = 0]
                  /\ j' = [j EXCEPT ![c] = 0]
                  /\ UNCHANGED <<ticket, my_ticket>>
                BY <2>2, <3>2 DEF Lock
            <4> QED BY <3>2, <4>1
        <3> QED BY <3>1, <3>2
    <2>3. ASSUME NEW c \in Core, ReadTicket(c) PROVE TypeOK' /\ LoopsInRange'
        BY <2>3 DEF ReadTicket, memory
    <2>4. ASSUME NEW c \in Core, TakeTicket(c) PROVE TypeOK' /\ LoopsInRange'
        BY <2>4 DEF TakeTicket
    <2>5. ASSUME NEW c \in Core, EndChoosing(c) PROVE TypeOK' /\ LoopsInRange'
        <3>1. Peer(c, 0) \in 0 .. N /\ Peer(c, 0) # SlotId[c] /\ N > 1
            BY <2>5 DEF EndChoosing, NextPeer, Peer
        <3> QED BY <2>5, <3>1 DEF EndChoosing, NextPeer
    <2>6. ASSUME NEW c \in Core, PassGate(c) PROVE TypeOK' /\ LoopsInRange'
        BY <2>6 DEF PassGate, memory, locals
    <2>7. ASSUME NEW c \in Core, PassPeer(c) PROVE TypeOK' /\ LoopsInRange'
        <3>1. /\ step[c] = "queue" /\ j[c] \in Nat /\ j[c] < N /\ j[c] # SlotId[c]
              /\ N > 1 /\ SlotId[c] \in 0 .. N - 1
            BY <2>7 DEF PassPeer, NextPeer
        <3>2. Peer(c, j[c] + 1) \in 0 .. N /\ Peer(c, j[c] + 1) # SlotId[c]
            BY <3>1 DEF Peer
        <3> QED BY <2>7, <3>1, <3>2 DEF PassPeer, NextPeer, memory
    <2>8. ASSUME NEW c \in Core, Unlock(c) PROVE TypeOK' /\ LoopsInRange'
        BY <2>8 DEF Unlock, ClearTicket, locals
    <2>9. ASSUME NEW c \in Core, Free(c) PROVE TypeOK' /\ LoopsInRange'
        BY <2>9 DEF Free, ClearTicket, locals
    <2> QED BY <2>1, <2>2, <2>3, <2>4, <2>5, <2>6, <2>7, <2>8, <2>9 DEF Next, Advance
<1> QED BY <1>1, <1>2, PTL DEF Spec
=============================================================================
