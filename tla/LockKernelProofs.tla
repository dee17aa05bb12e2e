------------------------- MODULE LockKernelProofs --------------------------
(***************************************************************************)
(* The kernel of LockKernel uses the two locks as their modules say, with  *)
(* the indices that the passes choose: what is proved of the locks holds   *)
(* of the kernel where those indices are different.                        *)
(***************************************************************************)
EXTENDS MCLockKernel, TLAPS

UnorderedP == INSTANCE UnorderedLockProofs WITH
    SlotId <- IdOf(WithSubblock("unordered")),
    FreeSlotId <- IdOf(FreeWithSubblock("unordered")),
    participant_num <- ParticipantNum

-----------------------------------------------------------------------------
(* The ordered lock, for any cores whose indices differ: the word tells     *)
(* exactly who is done, so turns are taken in order and nobody spins for a  *)
(* core that has left.                                                      *)
TurnId == IdOf(WithSubblock("ordered"))

TurnIInv ==
    /\ Ordered!TypeOK
    /\ \A c \in Core : Ordered!Holds(c) => lock_var = TurnId[c]
    /\ \A c \in Core : Ordered!Over(c) <=> TurnId[c] < lock_var

LEMMA TurnIInvInit ==
    ASSUME Ordered!OneTurnEach, Ordered!Init
    PROVE  TurnIInv
BY DEF Ordered!OneTurnEach, TurnId, Ordered!Init, TurnIInv, Ordered!TypeOK, Ordered!TurnStates,
       Ordered!Holds, Ordered!Over

LEMMA TurnIInvStep ==
    ASSUME Ordered!OneTurnEach, TurnIInv, [Ordered!Next]_(Ordered!ovars)
    PROVE  TurnIInv'
<1> USE DEF Ordered!OneTurnEach, TurnId, TurnIInv, Ordered!TypeOK, Ordered!TurnStates, Ordered!Move,
            Ordered!Holds, Ordered!Over
<1>1. CASE UNCHANGED Ordered!ovars
    BY <1>1 DEF Ordered!ovars
<1>2. ASSUME NEW c \in Core, Ordered!Call(c) PROVE TurnIInv'
    BY <1>2 DEF Ordered!Call
<1>3. ASSUME NEW c \in Core, Ordered!Acquire(c) PROVE TurnIInv'
    BY <1>3 DEF Ordered!Acquire
<1>4. ASSUME NEW c \in Core, Ordered!Release(c) PROVE TurnIInv'
    <2>1. lock_var = TurnId[c] /\ lock_var' = TurnId[c] + 1
        BY <1>4 DEF Ordered!Release
    <2>2. Ordered!TypeOK'
        BY <1>4, <2>1 DEF Ordered!Release
    <2>3. ASSUME NEW d \in Core PROVE (Ordered!Holds(d) => lock_var = TurnId[d])'
        BY <1>4, <2>1 DEF Ordered!Release
    <2>4. ASSUME NEW d \in Core PROVE (Ordered!Over(d) <=> TurnId[d] < lock_var)'
        <3>1. CASE d = c
            BY <1>4, <2>1, <3>1 DEF Ordered!Release
        <3>2. CASE d # c
            <4>1. TurnId[d] # TurnId[c]
                BY <3>2
            <4>2. TurnId[d] < lock_var <=> TurnId[d] < lock_var'
                BY <2>1, <4>1
            <4> QED BY <1>4, <3>2, <4>2 DEF Ordered!Release
        <3> QED BY <3>1, <3>2
    <2> QED BY <2>2, <2>3, <2>4
<1>5. ASSUME NEW c \in Core, Ordered!Free(c) PROVE TurnIInv'
    BY <1>5 DEF Ordered!Free
<1> QED BY <1>1, <1>2, <1>3, <1>4, <1>5 DEF Ordered!Next

(* The word of the ordered lock is past exactly the cores that are done.   *)
THEOREM OrderedInvariant ==
    ASSUME Ordered!OneTurnEach
    PROVE  Ordered!Spec => []TurnIInv
<1>1. Ordered!Init => TurnIInv
    BY TurnIInvInit
<1>2. TurnIInv /\ [Ordered!Next]_(Ordered!ovars) => TurnIInv'
    BY TurnIInvStep
<1> QED BY <1>1, <1>2, PTL DEF Ordered!Spec

(* sync_block_lock, sync_block_unlock and free_lock_var let the cores take *)
(* their turns in the order of their indices, one at a time.               *)
THEOREM TurnsAreInOrder ==
    ASSUME Ordered!OneTurnEach
    PROVE  Ordered!Spec => []Ordered!InTurn
<1>1. TurnIInv => Ordered!InTurn
    BY DEF Ordered!OneTurnEach, TurnId, TurnIInv, Ordered!TypeOK, Ordered!InTurn, Ordered!Holds, Ordered!Over
<1> QED BY <1>1, OrderedInvariant, PTL

(* With free_lock_var before every return, no core spins for one that has  *)
(* left: the core that the word names is still to write it.                *)
THEOREM TurnsAreNotLost ==
    ASSUME Ordered!OneTurnEach
    PROVE  Ordered!Spec => []Ordered!TurnNotLost
<1>1. TurnIInv => Ordered!TurnNotLost
    BY DEF Ordered!OneTurnEach, TurnId, TurnIInv, Ordered!TypeOK, Ordered!TurnNotLost, Ordered!Over
<1> QED BY <1>1, OrderedInvariant, PTL
-----------------------------------------------------------------------------
(* Block and sub-block together tell a core from the others, and fit the   *)
(* slots that the launcher reserves.                                       *)
LEMMA IdsDiffer ==
    ASSUME NEW sub \in BOOLEAN, sub \/ NumSubs = 1
    PROVE  /\ IdOf(sub) \in [Core -> 0 .. ParticipantNum - 1]
           /\ \A c, d \in Core : IdOf(sub)[c] = IdOf(sub)[d] => c = d
           /\ ParticipantNum \in Nat \ {0}
<1> USE KernelAssumption
<1>0. ParticipantNum \in Nat \ {0}
    BY DEF ParticipantNum
<1>1. ASSUME NEW c \in Core PROVE IdOf(sub)[c] = c[1] * NumSubs + c[2]
    <2>1. c[1] \in 0 .. NumBlocks - 1 /\ c[2] \in 0 .. NumSubs - 1
        BY DEF Core
    <2>2. NumSubs = 1 => c[1] = c[1] * NumSubs + c[2]
        BY <2>1
    <2> QED BY <2>2 DEF IdOf
<1>2. ASSUME NEW c \in Core PROVE IdOf(sub)[c] \in 0 .. ParticipantNum - 1
    <2>1. c[1] \in 0 .. NumBlocks - 1 /\ c[2] \in 0 .. NumSubs - 1
        BY DEF Core
    <2> DEFINE rest == NumBlocks - 1 - c[1]
    <2>2. rest \in Nat /\ c[1] \in Nat
        BY <2>1
    <2>3. rest * NumSubs \in Nat /\ c[1] * NumSubs \in Nat
        BY <2>2
    <2>4. NumBlocks * NumSubs = c[1] * NumSubs + rest * NumSubs + NumSubs
        BY <2>2
    <2> HIDE DEF rest
    <2> QED BY <1>1, <2>1, <2>3, <2>4 DEF ParticipantNum
<1>3. ASSUME NEW c \in Core, NEW d \in Core, c[1] < d[1]
      PROVE  IdOf(sub)[c] < IdOf(sub)[d]
    <2>1. /\ c[1] \in Nat /\ c[2] \in Nat /\ c[2] < NumSubs
          /\ d[1] \in Nat /\ d[2] \in Nat
        BY DEF Core
    <2> DEFINE more == d[1] - c[1] - 1
    <2>2. more \in Nat
        BY <1>3, <2>1
    <2>3. more * NumSubs \in Nat /\ c[1] * NumSubs \in Nat
        BY <2>1, <2>2
    <2>4. d[1] * NumSubs = c[1] * NumSubs + NumSubs + more * NumSubs
        BY <2>1
    <2> HIDE DEF more
    <2> QED BY <1>1, <2>1, <2>3, <2>4
<1>4. ASSUME NEW c \in Core, NEW d \in Core, IdOf(sub)[c] = IdOf(sub)[d] PROVE c = d
    <2>1. /\ c[1] \in Nat /\ c[2] \in Nat /\ d[1] \in Nat /\ d[2] \in Nat
          /\ c = <<c[1], c[2]>> /\ d = <<d[1], d[2]>>
        BY DEF Core
    <2>2. IdOf(sub)[c] \in Nat /\ IdOf(sub)[d] \in Nat
        BY <1>2
    <2>3. c[1] = d[1]
        BY <1>3, <1>4, <2>1, <2>2
    <2>4. c[1] * NumSubs \in Nat
        BY <2>1
    <2>5. c[2] = d[2]
        BY <1>1, <1>4, <2>1, <2>3, <2>4
    <2> QED BY <2>1, <2>3, <2>5
<1> QED BY <1>0, <1>2, <1>4 DEF IdOf

LEMMA UsesOrdered == Spec => Ordered!Spec
<1>1. Init => Ordered!Init
    BY DEF Init, Ordered!Init
<1>2. [Next]_vars => [Ordered!Next]_(Ordered!ovars)
    <2> USE DEF ovars, Ordered!ovars, Ordered!Next
    <2>1. CASE UNCHANGED vars
        BY <2>1 DEF vars
    <2>2. CASE Finished
        BY <2>2 DEF Finished, vars
    <2>3. ASSUME NEW c \in Core, CoreStep(c) PROVE [Ordered!Next]_(Ordered!ovars)
        BY <2>3 DEF CoreStep, EnterUnordered, InUnordered, LeaveLoop, EnterOrdered, SkipOrdered,
            LockOrdered, UnlockOrdered, FreeOrdered, FreeUnordered,
            Ordered!Call, Ordered!Acquire, Ordered!Release, Ordered!Free, Ordered!Move
    <2> QED BY <2>1, <2>2, <2>3 DEF Next, Step
<1> QED BY <1>1, <1>2, PTL DEF Spec, Ordered!Spec

(* A core's turn is its own unless the region is limited to one sub-block  *)
(* of several.                                                             *)
LEMMA EachHasATurn ==
    ASSUME NumSubs = 1 \/ (Mix /\ "ordered" \notin Limited)
    PROVE  Ordered!OneTurnEach
<1>1. WithSubblock("ordered") \in BOOLEAN
    BY KernelAssumption DEF WithSubblock
<1>2. WithSubblock("ordered") \/ NumSubs = 1
    BY DEF WithSubblock
<1> QED BY <1>1, <1>2, IdsDiffer DEF Ordered!OneTurnEach

(* In the kernel, whatever the cores skip and however the frees come, the  *)
(* ordered regions run in the order of the cores, one at a time, if the    *)
(* region is not limited to one sub-block of several.                      *)
THEOREM KernelTurnsAreInOrder ==
    ASSUME NumSubs = 1 \/ (Mix /\ "ordered" \notin Limited)
    PROVE  Spec => []InTurn
<1>1. Ordered!OneTurnEach
    BY EachHasATurn
<1>2. Ordered!Spec => []Ordered!InTurn
    BY <1>1, TurnsAreInOrder
<1>3. Ordered!InTurn => InTurn
    BY DEF Ordered!InTurn, InTurn, Ordered!InTurn, Ordered!Holds, Ordered!Over, Ordered!Holds,
        Ordered!Over
<1> QED BY <1>2, <1>3, UsesOrdered, PTL

(* And no core spins for one that has left, although any of them may skip  *)
(* the region: free_lock_var before the return is enough.                  *)
THEOREM KernelTurnsAreNotLost ==
    ASSUME NumSubs = 1 \/ (Mix /\ "ordered" \notin Limited)
    PROVE  Spec => []TurnNotLost
<1>1. Ordered!OneTurnEach
    BY EachHasATurn
<1>2. Ordered!Spec => []Ordered!TurnNotLost
    BY <1>1, TurnsAreNotLost
<1>3. Ordered!TurnNotLost => TurnNotLost
    BY DEF Ordered!TurnNotLost, TurnNotLost, Ordered!TurnNotLost, Ordered!Over, Ordered!Over
<1> QED BY <1>2, <1>3, UsesOrdered, PTL

LEMMA UnorderedStep == [Next]_vars => [UnorderedP!Next]_(UnorderedP!uvars)
<1> USE DEF uvars, UnorderedP!uvars, UnorderedP!memory, UnorderedP!locals, UnorderedP!Next
<1>1. CASE UNCHANGED vars
    BY <1>1 DEF vars
<1>2. CASE Finished
    BY <1>2 DEF Finished, vars
<1>3. ASSUME NEW c \in Core, EnterUnordered(c) \/ FreeUnordered(c)
          PROVE  UnorderedP!Next
    BY <1>3 DEF EnterUnordered, FreeUnordered,
            Unordered!Lock, Unordered!Free, Unordered!ClearTicket, Unordered!Goes, Unordered!N,
            Unordered!memory, Unordered!locals,
            UnorderedP!Lock, UnorderedP!Free, UnorderedP!ClearTicket, UnorderedP!Goes, UnorderedP!N
<1>4. ASSUME NEW c \in Core, InUnordered(c) PROVE UnorderedP!Next
    BY <1>4 DEF InUnordered, Unordered!Advance, UnorderedP!Advance, Unordered!Goes,
            Unordered!ReadTicket, Unordered!TakeTicket, Unordered!EndChoosing, Unordered!PassGate,
            Unordered!PassPeer, Unordered!Unlock, Unordered!NextPeer, Unordered!Peer,
            Unordered!OtherBefore, Unordered!ClearTicket, Unordered!N, Unordered!memory,
            Unordered!locals, UnorderedP!Goes,
            UnorderedP!ReadTicket, UnorderedP!TakeTicket, UnorderedP!EndChoosing,
            UnorderedP!PassGate, UnorderedP!PassPeer, UnorderedP!Unlock, UnorderedP!NextPeer,
            UnorderedP!Peer, UnorderedP!OtherBefore, UnorderedP!ClearTicket, UnorderedP!N
<1>5. ASSUME NEW c \in Core,
                 \/ LeaveLoop(c) \/ EnterOrdered(c) \/ SkipOrdered(c) \/ LockOrdered(c)
                 \/ UnlockOrdered(c) \/ FreeOrdered(c)
          PROVE  UNCHANGED uvars
    BY <1>5 DEF LeaveLoop, EnterOrdered, SkipOrdered, LockOrdered, UnlockOrdered, FreeOrdered
<1> QED BY <1>1, <1>2, <1>3, <1>4, <1>5 DEF Next, Step, CoreStep

LEMMA UsesUnordered == Spec => UnorderedP!Spec
<1>1. Init => UnorderedP!Init
    BY DEF Init, Unordered!Init, UnorderedP!Init, Unordered!Slots, UnorderedP!Slots,
        Unordered!N, UnorderedP!N
<1> QED BY <1>1, UnorderedStep, PTL DEF Spec, UnorderedP!Spec

(* A core's slot is its own, and the one it frees, with one sub-block.     *)
LEMMA EachHasASlot ==
    ASSUME NumSubs = 1, MaxParticipants \in Nat, NumBlocks <= MaxParticipants
    PROVE  UnorderedP!OneSlotEach
<1>1. /\ WithSubblock("unordered") \in BOOLEAN
      /\ FreeWithSubblock("unordered") \in BOOLEAN
    BY KernelAssumption DEF WithSubblock, FreeWithSubblock
<1>2. ASSUME NEW c \in Core PROVE c[1] * NumSubs + c[2] = c[1]
    BY <1>2, KernelAssumption DEF Core
<1>3. IdOf(FreeWithSubblock("unordered")) = IdOf(WithSubblock("unordered"))
    BY <1>2 DEF IdOf
<1>4. ParticipantNum \in 1 .. MaxParticipants
    BY KernelAssumption DEF ParticipantNum
<1> QED BY <1>1, <1>3, <1>4, IdsDiffer DEF UnorderedP!OneSlotEach

(* In the kernel the unordered region is exclusive where a block has one   *)
(* vector core and the launch is not larger than the lock allows.  With    *)
(* several sub-blocks free_lock_var clears another core's ticket, and the  *)
(* premise fails.                                                          *)
THEOREM KernelIsExclusive ==
    ASSUME NumSubs = 1, MaxParticipants \in Nat, NumBlocks <= MaxParticipants
    PROVE  Spec => []Exclusive
<1>1. UnorderedP!OneSlotEach
    BY EachHasASlot
<1>2. UnorderedP!Spec => []UnorderedP!Exclusive
    BY <1>1, UnorderedP!UnorderedIsExclusive
<1>3. UnorderedP!Exclusive => Exclusive
    BY DEF UnorderedP!Exclusive, Exclusive, Unordered!Exclusive
<1> QED BY <1>2, <1>3, UsesUnordered, PTL
-----------------------------------------------------------------------------
(* Types *)

KernelTypes ==
    /\ at \in [Core -> {"loop", "between", "region", "end"}]
    /\ entered \in [Core -> Nat]

LEMMA IdTypes ==
    ASSUME NEW sub \in BOOLEAN
    PROVE  IdOf(sub) \in [Core -> Nat]
<1> USE KernelAssumption
<1>1. ASSUME NEW c \in Core PROVE c[1] * NumSubs + c[2] \in Nat /\ c[1] \in Nat
    <2>1. c[1] \in Nat /\ c[2] \in Nat
        BY DEF Core
    <2> QED BY <2>1
<1> QED BY <1>1 DEF IdOf

(* The state of the kernel and of its locks has its types for every launch *)
(* and every choice of indices, the ones that break the locks included.    *)
THEOREM KernelTypeCorrect == Spec => []TypeOK
<1>0. /\ WithSubblock("ordered") \in BOOLEAN
      /\ WithSubblock("unordered") \in BOOLEAN
    BY KernelAssumption DEF WithSubblock
<1>1. Spec => []Ordered!TypeOK
    <2>1. IdOf(WithSubblock("ordered")) \in [Core -> Nat]
        BY <1>0, IdTypes
    <2>2. Init => Ordered!TypeOK
        BY DEF Init, Ordered!Init, Ordered!TypeOK, Ordered!TurnStates
    <2>3. ASSUME Ordered!TypeOK, [Next]_vars PROVE Ordered!TypeOK'
        <3> USE <2>1, <2>3 DEF Ordered!TypeOK, Ordered!TurnStates, Ordered!Move
        <3>1. CASE UNCHANGED ovars
            BY <3>1 DEF ovars
        <3>2. ASSUME NEW c \in Core, CoreStep(c), ~UNCHANGED ovars PROVE Ordered!TypeOK'
            <4>1. EnterOrdered(c) \/ LockOrdered(c) \/ UnlockOrdered(c) \/ FreeOrdered(c)
                BY <3>2 DEF CoreStep, EnterUnordered, InUnordered, LeaveLoop, SkipOrdered,
                            FreeUnordered
            <4> QED BY <4>1 DEF EnterOrdered, LockOrdered, UnlockOrdered, FreeOrdered,
                        Ordered!Call, Ordered!Acquire, Ordered!Release, Ordered!Free
        <3> QED BY <3>1, <3>2 DEF Next, Step, Finished, vars
    <2> QED BY <2>2, <2>3, PTL DEF Spec
<1>2. Spec => []Unordered!TypeOK
    <2> DEFINE Id == IdOf(WithSubblock("unordered"))
    <2>1. Id \in [Core -> Nat] /\ ParticipantNum \in Nat \ {0}
        BY <1>0, IdTypes, KernelAssumption DEF ParticipantNum
    <2>2. UnorderedP!N \in Nat \ {0}
        BY <2>1, KernelAssumption DEF UnorderedP!N
    <2>3. UnorderedP!N > 1 => Id \in [Core -> UnorderedP!Slots]
        <3>1. ASSUME UnorderedP!N > 1, NEW c \in Core PROVE Id[c] \in 0 .. ParticipantNum - 1
            <4>1. CASE WithSubblock("unordered") \/ NumSubs = 1
                BY <1>0, <4>1, IdsDiffer
            <4>2. CASE ~WithSubblock("unordered")
                <5>1. c[1] \in 0 .. NumBlocks - 1 /\ Id[c] = c[1]
                    BY <4>2 DEF Core, IdOf
                <5>2. NumBlocks <= NumBlocks * NumSubs
                    BY KernelAssumption
                <5>3. NumBlocks * NumSubs \in Nat
                    BY KernelAssumption
                <5> QED BY <5>1, <5>2, <5>3, KernelAssumption DEF ParticipantNum
            <4> QED BY <4>1, <4>2
        <3>2. UnorderedP!N > 1 => UnorderedP!N = ParticipantNum
            BY DEF UnorderedP!N
        <3> QED BY <2>1, <3>1, <3>2 DEF UnorderedP!Slots
    <2>4. UnorderedP!Spec => [](UnorderedP!TypeOK /\ UnorderedP!LoopsInRange)
        BY <2>1, <2>2, <2>3, UnorderedP!UnorderedTypeCorrect
    <2>5. UnorderedP!TypeOK => Unordered!TypeOK
        BY DEF UnorderedP!TypeOK, Unordered!TypeOK, UnorderedP!Slots, Unordered!Slots,
            UnorderedP!N, Unordered!N, UnorderedP!Steps, Unordered!Steps
    <2> QED BY <2>4, <2>5, UsesUnordered, PTL
<1>3. Spec => []KernelTypes
    <2> USE DEF KernelTypes
    <2>1. Init => KernelTypes
        BY DEF Init
    <2>2. KernelTypes /\ [Next]_vars => KernelTypes'
        BY DEF Next, Step, Finished, vars, CoreStep, EnterUnordered, InUnordered, LeaveLoop,
            EnterOrdered, SkipOrdered, LockOrdered, UnlockOrdered, FreeOrdered, FreeUnordered
    <2> QED BY <2>1, <2>2, PTL DEF Spec
<1>4. Ordered!TypeOK /\ Unordered!TypeOK /\ KernelTypes => TypeOK
    BY DEF TypeOK, KernelTypes
<1> QED BY <1>1, <1>2, <1>3, <1>4, PTL
-----------------------------------------------------------------------------
(* Both locks together *)

(* How far a core is in the kernel tells how far it is in the locks. *)
InStep ==
    \A c \in Core :
        /\ at[c] \in {"loop", "between"} => turn[c] = "before"
        /\ at[c] = "region" => turn[c] \in {"waiting", "inside"}
        /\ at[c] # "loop" => step[c] \in {"idle", "returned"}

LEMMA InStepAlways == Spec => []InStep
<1>1. Init => InStep
    BY DEF Init, InStep, Ordered!Init, Unordered!Init
<1>2. ASSUME TypeOK, InStep, [Next]_vars PROVE InStep'
    <2> USE <1>2 DEF InStep, TypeOK, Ordered!TypeOK, Unordered!TypeOK
    <2>1. CASE UNCHANGED vars
        BY <2>1 DEF vars, ovars, uvars
    <2>2. ASSUME NEW c \in Core, EnterUnordered(c) \/ LeaveLoop(c) PROVE InStep'
        BY <2>2 DEF EnterUnordered, LeaveLoop, Unordered!Lock, Unordered!Goes, ovars, uvars
    <2>3. ASSUME NEW c \in Core, InUnordered(c) PROVE InStep'
        <3>1. step[c] \notin {"idle", "returned"} /\ \E t : step' = [step EXCEPT ![c] = t]
            BY <2>3 DEF InUnordered, Unordered!Advance, Unordered!Goes, Unordered!ReadTicket,
                Unordered!TakeTicket, Unordered!EndChoosing, Unordered!PassGate,
                Unordered!PassPeer, Unordered!Unlock, Unordered!NextPeer
        <3>2. at[c] = "loop"
            BY <3>1
        <3> QED BY <2>3, <3>1, <3>2 DEF InUnordered, ovars
    <2>4. ASSUME NEW c \in Core, FreeUnordered(c) PROVE InStep'
        BY <2>4 DEF FreeUnordered, Unordered!Free, Unordered!Goes, ovars
    <2>5. ASSUME NEW c \in Core,
                 EnterOrdered(c) \/ SkipOrdered(c) \/ LockOrdered(c) \/ UnlockOrdered(c) \/ FreeOrdered(c)
          PROVE  InStep'
        BY <2>5 DEF EnterOrdered, SkipOrdered, LockOrdered, UnlockOrdered, FreeOrdered, ovars, uvars,
            Ordered!Call, Ordered!Acquire, Ordered!Release, Ordered!Free, Ordered!Move
    <2> QED BY <2>1, <2>2, <2>3, <2>4, <2>5 DEF Next, Step, Finished, CoreStep
<1> QED BY <1>1, <1>2, KernelTypeCorrect, PTL DEF Spec

(* The cores never all wait for each other, however many blocks there are  *)
(* and whatever regions they enter or skip: in the unordered lock the one  *)
(* with the smallest ticket goes on, and the ordered lock's word names a   *)
(* core that is still to take its turn, with one vector core per block.    *)
THEOREM KernelIsNeverStuck ==
    ASSUME NumSubs = 1, MaxParticipants \in Nat, NumBlocks <= MaxParticipants
    PROVE  Spec => []NeverStuck
<1>0. /\ UnorderedP!OneSlotEach /\ Ordered!OneTurnEach
      /\ \A c \in Core : c[1] \in 0 .. NumBlocks - 1
      /\ \A n \in 0 .. NumBlocks - 1 : <<n, 0>> \in Core
      /\ \A sub \in BOOLEAN, c \in Core : IdOf(sub)[c] = c[1]
      /\ UnorderedP!N = NumBlocks
    <2>1. UnorderedP!OneSlotEach /\ Ordered!OneTurnEach
        BY EachHasASlot, EachHasATurn
    <2>2. ASSUME NEW c \in Core PROVE c[1] \in 0 .. NumBlocks - 1 /\ c[2] = 0
        BY KernelAssumption DEF Core
    <2>3. ASSUME NEW c \in Core PROVE c[1] * NumSubs + c[2] = c[1]
        BY <2>2, KernelAssumption
    <2>4. \A n \in 0 .. NumBlocks - 1 : <<n, 0>> \in Core
        BY KernelAssumption DEF Core
    <2>5. UnorderedP!N = NumBlocks
        BY KernelAssumption DEF UnorderedP!N, ParticipantNum
    <2> QED BY <2>1, <2>2, <2>3, <2>4, <2>5 DEF IdOf
<1> DEFINE Bakery == IF UnorderedP!N > 1 THEN UnorderedP!BakeryIInv
                     ELSE UnorderedP!TypeOK /\ UnorderedP!LoopsInRange
<1>1. Spec => []TurnIInv
    BY <1>0, UsesOrdered, OrderedInvariant, PTL
<1>2. Spec => []Bakery
    <2>1. CASE UnorderedP!N > 1
        <3>1. UnorderedP!BakeryIInv => Bakery
            BY <2>1
        <3>2. UnorderedP!Spec => []UnorderedP!BakeryIInv
            BY <1>0, <2>1, UnorderedP!BakeryInvariant DEF UnorderedP!Many
        <3> QED BY <3>1, <3>2, UsesUnordered, PTL
    <2>2. CASE ~(UnorderedP!N > 1)
        <3>1. UnorderedP!TypeOK /\ UnorderedP!LoopsInRange => Bakery
            BY <2>2
        <3>2. UnorderedP!Spec => [](UnorderedP!TypeOK /\ UnorderedP!LoopsInRange)
            <4>1. IdOf(WithSubblock("unordered")) \in [Core -> Nat]
                BY IdTypes, KernelAssumption DEF WithSubblock
            <4>2. UnorderedP!N \in Nat \ {0}
                BY <1>0, KernelAssumption
            <4> QED BY <2>2, <4>1, <4>2, UnorderedP!UnorderedTypeCorrect
        <3> QED BY <3>1, <3>2, UsesUnordered, PTL
    <2> QED BY <2>1, <2>2
<1>3. ASSUME TypeOK, InStep, TurnIInv, Bakery PROVE NeverStuck
    <2> SUFFICES ASSUME NEW e \in Core, ~Returned(e)
                 PROVE  \E c \in Core : ~Returned(c) /\ ~Spins(c)
        BY DEF NeverStuck
    <2>0. /\ WithSubblock("ordered") \in BOOLEAN /\ WithSubblock("unordered") \in BOOLEAN
          /\ turn \in [Core -> Ordered!TurnStates] /\ lock_var \in Nat
        BY <1>3, KernelAssumption DEF WithSubblock, TypeOK, Ordered!TypeOK
    <2>1. CASE \E d \in Core : step[d] \notin {"idle", "returned"}
        <3>1. PICK c \in Core : step[c] \notin {"idle", "returned"} /\ ~UnorderedP!Polls(c)
            <4>1. PICK d \in Core : step[d] \notin {"idle", "returned"}
                BY <2>1
            <4>2. CASE UnorderedP!N > 1
                <5>1. \A s \in UnorderedP!Slots :
                          \E c \in Core : IdOf(WithSubblock("unordered"))[c] = s
                    BY <1>0, <2>0 DEF UnorderedP!Slots
                <5>2. UnorderedP!Many /\ UnorderedP!BakeryIInv
                    BY <1>0, <1>3, <4>2 DEF UnorderedP!Many
                <5> QED BY <4>1, <5>1, <5>2, UnorderedP!SomebodyGoesOn
            <4>3. CASE ~(UnorderedP!N > 1)
                BY <1>3, <4>1, <4>3 DEF UnorderedP!LoopsInRange, UnorderedP!Polls
            <4> QED BY <4>2, <4>3
        <3>2. turn[c] = "before"
            BY <1>3, <3>1 DEF InStep, TypeOK
        <3> QED BY <3>1, <3>2 DEF Returned, Spins, UnorderedP!Polls, Unordered!OtherBefore,
                UnorderedP!OtherBefore
    <2>2. CASE \A d \in Core : step[d] \in {"idle", "returned"}
        <3>1. CASE turn[e] \notin {"waiting", "freeing"}
            BY <2>2, <3>1 DEF Spins
        <3>2. CASE turn[e] \in {"waiting", "freeing"}
            <4>1. e[1] \in 0 .. NumBlocks - 1 /\ lock_var <= e[1]
                BY <1>0, <1>3, <2>0, <3>2 DEF TurnId, TurnIInv, Ordered!Over
            <4>2. <<lock_var, 0>> \in Core
                BY <1>0, <2>0, <4>1, KernelAssumption
            <4>3. IdOf(WithSubblock("ordered"))[<<lock_var, 0>>] = lock_var
                BY <1>0, <2>0, <4>2
            <4>4. turn[<<lock_var, 0>>] # "freed"
                BY <1>3, <2>0, <4>2, <4>3 DEF TurnId, TurnIInv, Ordered!Over
            <4> QED BY <2>2, <4>2, <4>3, <4>4 DEF Returned, Spins
        <3> QED BY <3>1, <3>2
    <2> QED BY <2>1, <2>2
<1> QED BY <1>1, <1>2, <1>3, KernelTypeCorrect, InStepAlways, PTL
-----------------------------------------------------------------------------
(* Order of arrival *)

(* Who had its ticket when c called lock, and has not left, keeps a ticket *)
(* that c reads or has read: c's will be larger.                           *)
Larger(c, d) ==
    /\ d \in HasTicket /\ d # c
    /\ UnorderedP!TakesLarger(d, c)
    /\ c \in HasTicket => my_ticket[d] < my_ticket[c]

ArrivalInv ==
    /\ ahead \in [Core -> SUBSET Core]
    /\ \A c \in Core : step[c] # "idle" => \A d \in ahead[c] : Larger(c, d)

LEMMA ArrivalStep ==
    ASSUME UnorderedP!Many, UnorderedP!BakeryIInv, ArrivalInv, [MCNext]_<<vars, ahead>>
    PROVE  ArrivalInv'
<1> DEFINE Id == IdOf(WithSubblock("unordered"))
<1>0. /\ UnorderedP!TypeOK /\ UnorderedP!SlotsHold
      /\ Id \in [Core -> UnorderedP!Slots]
      /\ \A c, d \in Core : Id[c] = Id[d] => c = d
      /\ UnorderedP!N \in Nat /\ UnorderedP!N > 1
    BY UnorderedP!Layout DEF UnorderedP!BakeryIInv, UnorderedP!Many, UnorderedP!OneSlotEach
<1> HIDE DEF Id
<1>1. CASE UNCHANGED <<vars, ahead>>
    BY <1>1 DEF ArrivalInv, Larger, HasTicket, UnorderedP!TakesLarger, vars, uvars
<1>2. CASE MCNext
    <2>1. [UnorderedP!Next]_(UnorderedP!uvars)
        BY <1>2, UnorderedStep DEF MCNext
    <2>2. ahead' \in [Core -> SUBSET Core]
        BY <1>2 DEF MCNext, HasTicket
    <2> SUFFICES ASSUME NEW c \in Core, step'[c] # "idle", NEW d \in ahead'[c]
                 PROVE  Larger(c, d)'
        BY <2>2 DEF ArrivalInv
    <2>3. /\ d \in Core
          /\ ahead'[c] = IF step[c] = "idle" THEN HasTicket \ {c} ELSE ahead[c] \cap HasTicket'
        BY <1>2 DEF MCNext, ArrivalInv, HasTicket
    <2> USE DEF HasTicket, UnorderedP!Goes, UnorderedP!TypeOK, UnorderedP!TakesLarger
    <2>4. CASE step[c] = "idle"
        <3>1. d \in HasTicket /\ d # c
            BY <2>3, <2>4
        <3>2. \/ UnorderedP!Lock(c) \/ UnorderedP!Free(c)
            BY <1>0, <2>1, <2>4 DEF UnorderedP!Next, UnorderedP!uvars, UnorderedP!Lock,
                UnorderedP!Free, UnorderedP!Advance, UnorderedP!ReadTicket, UnorderedP!TakeTicket,
                UnorderedP!EndChoosing, UnorderedP!PassGate, UnorderedP!PassPeer,
                UnorderedP!Unlock, UnorderedP!NextPeer
        <3>3. CASE UnorderedP!Lock(c)
            <4>1. /\ step' = [step EXCEPT ![c] = "scanning"]
                  /\ j' = [j EXCEPT ![c] = 0]
                  /\ UNCHANGED my_ticket
                BY <1>0, <3>3 DEF UnorderedP!Lock
            <4>2. 0 <= Id[d]
                BY <1>0, <2>3 DEF UnorderedP!Slots
            <4> QED BY <1>0, <2>3, <3>1, <4>1, <4>2 DEF Larger, Id
        <3>4. CASE UnorderedP!Free(c)
            BY <1>0, <2>3, <3>1, <3>4 DEF Larger, UnorderedP!Free
        <3> QED BY <3>2, <3>3, <3>4
    <2>5. CASE step[c] # "idle"
        <3>1. Larger(c, d) /\ d \in HasTicket'
            BY <2>3, <2>5 DEF ArrivalInv
        <3>2. my_ticket'[d] = my_ticket[d]
            BY <1>0, <2>1, <2>3, <3>1 DEF Larger, UnorderedP!Next, UnorderedP!uvars,
                UnorderedP!locals, UnorderedP!Lock, UnorderedP!Free, UnorderedP!Advance,
                UnorderedP!ReadTicket, UnorderedP!TakeTicket, UnorderedP!EndChoosing,
                UnorderedP!PassGate, UnorderedP!PassPeer, UnorderedP!Unlock
        <3>3. CASE /\ step'[c] = step[c] /\ j'[c] = j[c] /\ max_ticket'[c] = max_ticket[c]
                   /\ my_ticket'[c] = my_ticket[c]
            BY <2>3, <3>1, <3>2, <3>3 DEF Larger
        <3>4. CASE UnorderedP!ReadTicket(c)
            <4>1. /\ step[c] = "scanning" /\ step'[c] \in {"scanning", "taking"}
                  /\ step'[c] = "taking" => j[c] + 1 = UnorderedP!N
                  /\ j'[c] = j[c] + 1
                  /\ max_ticket'[c] = IF ticket[j[c]] > max_ticket[c] THEN ticket[j[c]]
                                      ELSE max_ticket[c]
                BY <1>0, <3>4 DEF UnorderedP!ReadTicket
            <4>2. /\ j[c] \in Nat /\ j[c] < UnorderedP!N
                  /\ Id[d] \in Nat /\ Id[d] < UnorderedP!N
                  /\ max_ticket[c] \in Nat /\ my_ticket[d] \in Nat
                  /\ j[c] \in UnorderedP!Slots
                BY <1>0, <2>3, <4>1 DEF UnorderedP!Slots, UnorderedP!SlotsHold
            <4>3. ticket[j[c]] \in Nat
                BY <1>0, <4>2
            <4>4. ticket[Id[d]] = my_ticket[d]
                BY <1>0, <2>3, <3>1 DEF Larger, UnorderedP!SlotsHold, UnorderedP!Ticketed, Id
            <4>5. j[c] <= Id[d] \/ my_ticket[d] <= max_ticket[c]
                BY <3>1, <4>1 DEF Larger, Id
            <4>6. j'[c] <= Id[d] \/ my_ticket[d] <= max_ticket'[c]
                BY <4>1, <4>2, <4>3, <4>4, <4>5
            <4>7. step'[c] = "taking" => my_ticket[d] <= max_ticket'[c]
                BY <4>1, <4>2, <4>6
            <4> QED BY <2>3, <3>1, <3>2, <4>1, <4>6, <4>7 DEF Larger, Id
        <3>5. CASE UnorderedP!TakeTicket(c)
            <4>1. /\ step[c] = "taking" /\ step'[c] = "chosen"
                  /\ my_ticket'[c] = max_ticket[c] + 1
                BY <1>0, <3>5 DEF UnorderedP!TakeTicket
            <4>2. my_ticket[d] <= max_ticket[c] /\ my_ticket[d] \in Nat /\ max_ticket[c] \in Nat
                BY <1>0, <2>3, <3>1, <4>1 DEF Larger
            <4> QED BY <2>3, <3>1, <3>2, <4>1, <4>2 DEF Larger
        <3>6. CASE /\ step[c] \in {"chosen", "gate", "queue"}
                   /\ step'[c] \in {"gate", "queue", "inside"} /\ my_ticket'[c] = my_ticket[c]
            BY <2>3, <3>1, <3>2, <3>6 DEF Larger
        <3> QED
            <4>1. CASE UNCHANGED UnorderedP!uvars
                BY <3>3, <4>1 DEF UnorderedP!uvars, UnorderedP!locals
            <4>2. ASSUME NEW e \in Core, e # c,
                         UnorderedP!Lock(e) \/ UnorderedP!Advance(e) \/ UnorderedP!Free(e)
                  PROVE  /\ step'[c] = step[c] /\ j'[c] = j[c] /\ max_ticket'[c] = max_ticket[c]
                         /\ my_ticket'[c] = my_ticket[c]
                BY <1>0, <4>2 DEF UnorderedP!locals, UnorderedP!Lock, UnorderedP!Free,
                    UnorderedP!Advance, UnorderedP!ReadTicket, UnorderedP!TakeTicket,
                    UnorderedP!EndChoosing, UnorderedP!PassGate, UnorderedP!PassPeer,
                    UnorderedP!Unlock, UnorderedP!NextPeer
            <4>3. ASSUME UnorderedP!EndChoosing(c) \/ UnorderedP!PassGate(c) \/ UnorderedP!PassPeer(c)
                  PROVE  /\ step[c] \in {"chosen", "gate", "queue"}
                         /\ step'[c] \in {"gate", "queue", "inside"} /\ my_ticket'[c] = my_ticket[c]
                BY <1>0, <4>3 DEF UnorderedP!EndChoosing, UnorderedP!PassGate, UnorderedP!PassPeer,
                    UnorderedP!NextPeer, UnorderedP!locals
            <4>4. ~UnorderedP!Lock(c) /\ ~UnorderedP!Free(c) /\ ~UnorderedP!Unlock(c)
                BY <1>0, <2>5 DEF UnorderedP!Lock, UnorderedP!Free, UnorderedP!Unlock
            <4> QED BY <2>1, <3>3, <3>4, <3>5, <3>6, <4>1, <4>2, <4>3, <4>4
                    DEF UnorderedP!Next, UnorderedP!Advance
    <2> QED BY <2>4, <2>5
<1> QED BY <1>1, <1>2

(* The unordered lock serves in the order of arrival: who is in the region *)
(* has waited for every core that had its ticket before it called lock,    *)
(* for any number of blocks of one vector core.                            *)
THEOREM KernelServesInOrder ==
    ASSUME NumSubs = 1, MaxParticipants \in Nat, NumBlocks <= MaxParticipants
    PROVE  MCSpec => []ArrivalOrder
<1>0. UnorderedP!OneSlotEach
    BY EachHasASlot
<1>1. MCSpec => Spec
    <2>1. MCInit => Init
        BY DEF MCInit
    <2>2. [MCNext]_<<vars, ahead>> => [Next]_vars
        BY DEF MCNext
    <2> QED BY <2>1, <2>2, PTL DEF MCSpec, Spec
<1>2. CASE UnorderedP!N > 1
    <2>1. MCSpec => []UnorderedP!BakeryIInv
        BY <1>0, <1>1, <1>2, UsesUnordered, UnorderedP!BakeryInvariant, PTL DEF UnorderedP!Many
    <2>2. MCInit => ArrivalInv
        BY DEF MCInit, Init, Unordered!Init, ArrivalInv
    <2>3. UnorderedP!BakeryIInv /\ ArrivalInv /\ [MCNext]_<<vars, ahead>> => ArrivalInv'
        BY <1>0, <1>2, ArrivalStep DEF UnorderedP!Many
    <2>4. ASSUME UnorderedP!BakeryIInv, ArrivalInv PROVE ArrivalOrder
        <3> SUFFICES ASSUME NEW c \in Core, step[c] = "inside", NEW d \in ahead[c]
                     PROVE  FALSE
            BY DEF ArrivalOrder
        <3>1. /\ d \in Core /\ d # c /\ d \in HasTicket /\ c \in HasTicket
              /\ my_ticket[d] < my_ticket[c]
            BY <2>4 DEF ArrivalInv, Larger, HasTicket
        <3>2. UnorderedP!Precedes(c, d)
            BY <2>4, <3>1 DEF UnorderedP!BakeryIInv, UnorderedP!Waits, UnorderedP!Passed,
                UnorderedP!GoesFirst, UnorderedP!Ticketed, HasTicket
        <3> QED BY <2>4, <3>1, <3>2 DEF UnorderedP!Precedes, UnorderedP!BakeryIInv, UnorderedP!TypeOK
    <2> QED BY <2>1, <2>2, <2>3, <2>4, PTL DEF MCSpec
<1>3. CASE ~(UnorderedP!N > 1)
    <2>1. \A c, d \in Core : c = d
        BY <1>0, <1>3, UnorderedP!Layout DEF UnorderedP!OneSlotEach
    <2> DEFINE Alone == ahead \in [Core -> SUBSET Core] /\ \A c \in Core : ahead[c] = {}
    <2>2. MCInit => Alone
        BY DEF MCInit
    <2>3. Alone /\ [MCNext]_<<vars, ahead>> => Alone'
        BY <2>1 DEF MCNext, HasTicket
    <2>4. Alone => ArrivalOrder
        BY DEF ArrivalOrder
    <2> QED BY <2>2, <2>3, <2>4, PTL DEF MCSpec
<1> QED BY <1>2, <1>3
=============================================================================
