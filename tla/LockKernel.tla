---------------------------- MODULE LockKernel -----------------------------
(***************************************************************************)
(* A kernel with sync-block locks, as the pipeline leaves it: a loop whose *)
(* body may enter a region under an unordered lock, then a region under an *)
(* ordered lock which a core may skip, then the calls of free_lock_var     *)
(* that InsertFreeLockVarBeforeReturn puts before the return.  Whether a   *)
(* core enters a region depends on its data: any choice is possible.       *)
(*                                                                         *)
(* Which index a call uses is decided by MarkSyncBlockLockWithSubblock and *)
(* InsertFreeLockVarBeforeReturn, both active (regbase, or hivmc 0.2.0).   *)
(***************************************************************************)
EXTENDS Integers, FiniteSets

CONSTANTS
    NumBlocks,       \* blocks of the launch
    NumSubs,         \* vector cores of a block; 1 unless Mix
    Mix,             \* a kernel for both cube and vector cores
    Limited,         \* locks whose region is in an scf.if on sub-block 0
    Trips,           \* how often a core may enter the unordered region
    MaxParticipants

ASSUME KernelAssumption ==
    /\ NumBlocks \in Nat \ {0} /\ NumSubs \in Nat \ {0}
    /\ Mix \in BOOLEAN /\ (~Mix => NumSubs = 1)
    /\ Limited \subseteq {"ordered", "unordered"}

Core == (0 .. NumBlocks - 1) \X (0 .. NumSubs - 1)

(* The attribute that MarkSyncBlockLockWithSubblock sets on lock and unlock *)
WithSubblock(lock) == Mix /\ lock \notin Limited

(* and the one InsertFreeLockVarBeforeReturn copies to free_lock_var: only *)
(* to one that does not get the attribute of unordered locks.              *)
FreeWithSubblock(lock) == lock # "unordered" /\ WithSubblock(lock)

IdOf(withSubblock) ==
    [c \in Core |-> IF withSubblock THEN c[1] * NumSubs + c[2] ELSE c[1]]

(* What the launcher reserves slots for.                                   *)
ParticipantNum == NumBlocks * NumSubs

VARIABLES lock_var, turn,                                         \* ordered
          choosing, ticket, step, j, max_ticket, my_ticket,       \* unordered
          at,      \* where in the kernel a core is
          entered  \* how often it has entered the unordered region

Ordered == INSTANCE OrderedLock WITH TurnId <- IdOf(WithSubblock("ordered"))

Unordered == INSTANCE UnorderedLock WITH
    SlotId <- IdOf(WithSubblock("unordered")),
    FreeSlotId <- IdOf(FreeWithSubblock("unordered")),
    participant_num <- ParticipantNum

ovars == <<lock_var, turn>>
uvars == <<choosing, ticket, step, j, max_ticket, my_ticket>>
vars  == <<ovars, uvars, at, entered>>

Init == /\ Ordered!Init
        /\ Unordered!Init
        /\ at = [c \in Core |-> "loop"]
        /\ entered = [c \in Core |-> 0]

MayEnter(c, lock) == lock \in Limited => c[2] = 0

EnterUnordered(c) ==
    /\ at[c] = "loop" /\ MayEnter(c, "unordered")
    /\ entered[c] < Trips[c]
    /\ entered' = [entered EXCEPT ![c] = @ + 1]
    /\ Unordered!Lock(c)
    /\ UNCHANGED <<ovars, at>>

InUnordered(c) == Unordered!Advance(c) /\ UNCHANGED <<ovars, at, entered>>

LeaveLoop(c) ==
    /\ at[c] = "loop" /\ step[c] = "idle"
    /\ at' = [at EXCEPT ![c] = "between"]
    /\ UNCHANGED <<ovars, uvars, entered>>

EnterOrdered(c) ==
    /\ at[c] = "between" /\ MayEnter(c, "ordered")
    /\ at' = [at EXCEPT ![c] = "region"]
    /\ Ordered!Call(c)
    /\ UNCHANGED <<uvars, entered>>

SkipOrdered(c) ==
    /\ at[c] = "between"
    /\ at' = [at EXCEPT ![c] = "end"]
    /\ UNCHANGED <<ovars, uvars, entered>>

LockOrdered(c) == Ordered!Acquire(c) /\ UNCHANGED <<uvars, at, entered>>

(* The region's unlock leads to the end of the kernel, the unlock in       *)
(* free_lock_var is there already.                                         *)
UnlockOrdered(c) ==
    /\ Ordered!Release(c)
    /\ at' = [at EXCEPT ![c] = "end"]
    /\ UNCHANGED <<uvars, entered>>

(* The frees come in no particular order: the lock variables are collected *)
(* in a map by address.  They run one after the other.                     *)
FreeOrdered(c) ==
    /\ at[c] = "end" /\ Ordered!Free(c)
    /\ UNCHANGED <<uvars, at, entered>>

FreeUnordered(c) ==
    /\ at[c] = "end" /\ turn[c] \in {"before", "passed", "freed"}
    /\ Unordered!Free(c)
    /\ UNCHANGED <<ovars, at, entered>>

CoreStep(c) == \/ EnterUnordered(c) \/ InUnordered(c) \/ LeaveLoop(c)
               \/ EnterOrdered(c) \/ SkipOrdered(c) \/ LockOrdered(c) \/ UnlockOrdered(c)
               \/ FreeOrdered(c) \/ FreeUnordered(c)

Returned(c) == turn[c] = "freed" /\ step[c] = "returned"
Finished    == (\A c \in Core : Returned(c)) /\ UNCHANGED vars

Step == \E c \in Core : CoreStep(c)
Next == Finished \/ Step

(* Some core goes on as long as one can.  Nothing is assumed of the order: *)
(* a core that spins takes no step here, and loops are finite.             *)
Fairness == WF_vars(Step)
Spec == Init /\ [][Next]_vars /\ Fairness
-----------------------------------------------------------------------------
TypeOK == /\ Ordered!TypeOK
          /\ Unordered!TypeOK
          /\ at \in [Core -> {"loop", "between", "region", "end"}]
          /\ entered \in [Core -> Nat]

InTurn      == Ordered!InTurn
TurnNotLost == Ordered!TurnNotLost
Exclusive   == Unordered!Exclusive

(* A core that polls for another: each round of its loop leaves all as it  *)
(* is, until the word is its index, the slot no longer chooses, or the     *)
(* ticket there is larger.                                                 *)
Spins(c) ==
    \/ turn[c] \in {"waiting", "freeing"} /\ lock_var # IdOf(WithSubblock("ordered"))[c]
    \/ step[c] = "gate" /\ choosing[j[c]] # 0
    \/ step[c] = "queue" /\ Unordered!OtherBefore(c)

(* The cores never all wait for each other, be it through one lock or      *)
(* through both: as long as one has not returned, one of those goes on.    *)
NeverStuck == (\A c \in Core : Returned(c)) \/ \E c \in Core : ~Returned(c) /\ ~Spins(c)

(* Every core gets through, whichever regions the others skip.             *)
AllReturn == \A c \in Core : <>Returned(c)
=============================================================================
