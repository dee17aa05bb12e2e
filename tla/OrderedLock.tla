---------------------------- MODULE OrderedLock ----------------------------
(***************************************************************************)
(* The ordered lock of the template library: a word in global memory that  *)
(* names the core whose turn it is.  A core spins until the word is its    *)
(* own index, runs the region and writes the next index.  free_lock_var,   *)
(* before the return, takes the turn of a core that skipped the region.    *)
(*                                                                         *)
(* A region is entered at most once: SyncBlockHoisting puts lock and       *)
(* unlock of an ordered region around the loops that contain it.           *)
(***************************************************************************)
EXTENDS Integers, FiniteSets

CONSTANTS
    Core,    \* the vector cores that run the kernel
    TurnId   \* index of a core in the calls of lock, unlock and free

VARIABLES
    lock_var,  \* the word in global memory
    turn       \* how far a core is with its turn

ovars == <<lock_var, turn>>

TurnStates ==
    {"before",   \* not at the region yet, or past it without entering
     "waiting",  \* spins in sync_block_lock
     "inside",   \* in the region
     "passed",   \* has unlocked
     "freeing",  \* spins in free_lock_var
     "freeHeld", \* between the lock and the unlock of free_lock_var
     "freed"}    \* after free_lock_var

Init == /\ lock_var = 0     \* insertInferSyncBlockLockInitFunc(funcOp, 0)
        /\ turn = [c \in Core |-> "before"]

Move(c, from, to) == turn[c] = from /\ turn' = [turn EXCEPT ![c] = to]

(* The call; the first read may already end the spinning.                  *)
Call(c) == Move(c, "before", "waiting") /\ UNCHANGED lock_var

(* A read that ends the spinning.  Others change nothing.                  *)
Acquire(c) == /\ \/ Move(c, "waiting", "inside")
                 \/ Move(c, "freeing", "freeHeld")
              /\ lock_var = TurnId[c]
              /\ UNCHANGED lock_var

(* unlock hands the word to the next index.                                *)
Release(c) == /\ \/ Move(c, "inside", "passed")
                 \/ Move(c, "freeHeld", "freed")
              /\ lock_var' = TurnId[c] + 1

(* Mutants: free_lock_var advances the word without waiting for the turn,  *)
(* and takes a turn that has just come for one that is over.               *)
FaultyFreeEarly(c) ==
    \E from \in {"before", "passed"} :
       /\ Move(c, from, "freed")
       /\ lock_var' = IF lock_var > TurnId[c] THEN lock_var ELSE TurnId[c] + 1

FaultyFreeGivesUp(c) ==
    \E from \in {"before", "passed"} :
       /\ Move(c, from, IF lock_var >= TurnId[c] THEN "freed" ELSE "freeing")
       /\ UNCHANGED lock_var

(* free_lock_var reads the word and returns if the core's turn is over;    *)
(* else it locks and unlocks.                                              *)
Free(c) == \E from \in {"before", "passed"} :
              /\ Move(c, from, IF lock_var > TurnId[c] THEN "freed" ELSE "freeing")
              /\ UNCHANGED lock_var

Next == \E c \in Core : Call(c) \/ Acquire(c) \/ Release(c) \/ Free(c)
Spec == Init /\ [][Next]_ovars
-----------------------------------------------------------------------------
TypeOK == /\ lock_var \in Nat
          /\ turn \in [Core -> TurnStates]

Holds(c) == turn[c] \in {"inside", "freeHeld"}
Over(c)  == turn[c] \in {"passed", "freed"}

(* Every core has a turn of its own.                                       *)
OneTurnEach == /\ TurnId \in [Core -> Nat]
               /\ \A c, d \in Core : TurnId[c] = TurnId[d] => c = d

(* The code between lock and unlock runs in order among the cores: when a  *)
(* core has its turn, every core of a smaller index is done with the lock. *)
(* In particular no two hold it.                                           *)
InTurn == \A c, d \in Core :
             TurnId[c] < TurnId[d] /\ (Holds(d) \/ Over(d)) => Over(c)

(* The core whose turn it is has not left: nobody spins for a core that    *)
(* will not write the word any more.                                       *)
TurnNotLost == \A c \in Core : TurnId[c] >= lock_var => ~Over(c)
=============================================================================
