--------------------------- MODULE UnorderedLock ---------------------------
(***************************************************************************)
(* The unordered lock of the template library: a bakery over the           *)
(* participants of a launch.  A participant announces that it is choosing, *)
(* takes a ticket above every ticket it reads, and then lets everyone with *)
(* a smaller ticket go first.  Each load and store of a slot is a step;    *)
(* a slot has a cache line of its own, so that steps on different slots do *)
(* not disturb each other.                                                 *)
(***************************************************************************)
EXTENDS Integers, FiniteSets

CONSTANTS
    Core,             \* the vector cores that run the kernel
    SlotId,           \* index of a core in the calls of lock and unlock
    FreeSlotId,       \* and in the call of free_lock_var_unordered
    participant_num,  \* what the launcher wrote into the first slot
    MaxParticipants   \* SYNC_LOCK_MAX_PARTICIPANTS

VARIABLES
    choosing, ticket,  \* the slots
    step,              \* where a core is in the lock
    j,                 \* loop variable: the slot it looks at
    max_ticket,        \* largest ticket read so far
    my_ticket

memory == <<choosing, ticket>>
locals == <<j, max_ticket, my_ticket>>
uvars  == <<memory, step, locals>>

(* Metadata that cannot be right counts as one participant.                *)
N == IF participant_num <= 0 \/ participant_num > MaxParticipants
     THEN 1 ELSE participant_num
Slots == 0 .. N - 1

Steps ==
    {"idle",      \* outside
     "scanning",  \* reads the tickets
     "taking",    \* about to store its ticket
     "chosen",    \* about to clear choosing
     "gate",      \* spins while slot j is choosing
     "queue",     \* spins while slot j has the smaller ticket
     "inside",    \* in the region
     "returned"}

Init == /\ choosing = [s \in Slots |-> 0]
        /\ ticket = [s \in Slots |-> 0]
        /\ step = [c \in Core |-> "idle"]
        /\ j = [c \in Core |-> 0]
        /\ max_ticket = [c \in Core |-> 0]
        /\ my_ticket = [c \in Core |-> 0]

Goes(c, from, to) == step[c] = from /\ step' = [step EXCEPT ![c] = to]

(* With one participant every function returns at once.                    *)
Lock(c) ==
    IF N <= 1
    THEN Goes(c, "idle", "inside") /\ UNCHANGED <<memory, locals>>
    ELSE /\ Goes(c, "idle", "scanning")
         /\ choosing' = [choosing EXCEPT ![SlotId[c]] = 1]
         /\ max_ticket' = [max_ticket EXCEPT ![c] = 0]
         /\ j' = [j EXCEPT ![c] = 0]
         /\ UNCHANGED <<ticket, my_ticket>>

(* Mutant: keeps the last ticket read, not the largest.                    *)
FaultyReadTicket(c) ==
    /\ Goes(c, "scanning", IF j[c] + 1 = N THEN "taking" ELSE "scanning")
    /\ max_ticket' = [max_ticket EXCEPT ![c] = ticket[j[c]]]
    /\ j' = [j EXCEPT ![c] = @ + 1]
    /\ UNCHANGED <<memory, my_ticket>>

ReadTicket(c) ==
    /\ Goes(c, "scanning", IF j[c] + 1 = N THEN "taking" ELSE "scanning")
    /\ max_ticket' = [max_ticket EXCEPT
                         ![c] = IF ticket[j[c]] > @ THEN ticket[j[c]] ELSE @]
    /\ j' = [j EXCEPT ![c] = @ + 1]
    /\ UNCHANGED <<memory, my_ticket>>

TakeTicket(c) ==
    /\ Goes(c, "taking", "chosen")
    /\ my_ticket' = [my_ticket EXCEPT ![c] = max_ticket[c] + 1]
    /\ ticket' = [ticket EXCEPT ![SlotId[c]] = max_ticket[c] + 1]
    /\ UNCHANGED <<choosing, j, max_ticket>>

(* The loop over the others from slot s on: it skips the core's own slot.  *)
Peer(c, s) == IF s = SlotId[c] THEN s + 1 ELSE s
NextPeer(c, from, s) ==
    /\ Goes(c, from, IF Peer(c, s) < N THEN "gate" ELSE "inside")
    /\ j' = [j EXCEPT ![c] = Peer(c, s)]

(* Mutant: choosing stays set.                                             *)
FaultyEndChoosing(c) ==
    /\ NextPeer(c, "chosen", 0)
    /\ UNCHANGED <<choosing, ticket, max_ticket, my_ticket>>

EndChoosing(c) ==
    /\ NextPeer(c, "chosen", 0)
    /\ choosing' = [choosing EXCEPT ![SlotId[c]] = 0]
    /\ UNCHANGED <<ticket, max_ticket, my_ticket>>

(* Mutant: does not wait for a slot that is choosing.                      *)
FaultyPassGate(c) ==
    /\ Goes(c, "gate", "queue")
    /\ UNCHANGED <<memory, locals>>

PassGate(c) ==
    /\ Goes(c, "gate", "queue")
    /\ choosing[j[c]] = 0
    /\ UNCHANGED <<memory, locals>>

OtherBefore(c) ==
    LET other == ticket[j[c]] IN
    /\ other # 0
    /\ other < my_ticket[c] \/ (other = my_ticket[c] /\ j[c] < SlotId[c])

PassPeer(c) ==
    /\ NextPeer(c, "queue", j[c] + 1)
    /\ ~OtherBefore(c)
    /\ UNCHANGED <<memory, max_ticket, my_ticket>>

ClearTicket(s) == ticket' = IF N <= 1 THEN ticket ELSE [ticket EXCEPT ![s] = 0]

Unlock(c) == /\ Goes(c, "inside", "idle")
             /\ ClearTicket(SlotId[c])
             /\ UNCHANGED <<choosing, locals>>

Free(c) == /\ Goes(c, "idle", "returned")
           /\ ClearTicket(FreeSlotId[c])
           /\ UNCHANGED <<choosing, locals>>

Advance(c) == \/ ReadTicket(c) \/ TakeTicket(c) \/ EndChoosing(c)
              \/ PassGate(c) \/ PassPeer(c) \/ Unlock(c)

Next == \E c \in Core : Lock(c) \/ Advance(c) \/ Free(c)
Spec == Init /\ [][Next]_uvars
-----------------------------------------------------------------------------
TypeOK == /\ choosing \in [Slots -> {0, 1}]
          /\ ticket \in [Slots -> Nat]
          /\ step \in [Core -> Steps]
          /\ j \in [Core -> 0 .. N]
          /\ max_ticket \in [Core -> Nat]
          /\ my_ticket \in [Core -> Nat]

(* The launcher wrote the number of participants, every core has a slot of *)
(* its own, and frees that one.                                            *)
OneSlotEach == /\ MaxParticipants \in Nat
               /\ participant_num \in 1 .. MaxParticipants
               /\ SlotId \in [Core -> 0 .. participant_num - 1]
               /\ \A c, d \in Core : SlotId[c] = SlotId[d] => c = d
               /\ FreeSlotId = SlotId

(* No two cores are in the region.                                         *)
Exclusive == \A c, d \in Core : step[c] = "inside" /\ step[d] = "inside" => c = d
=============================================================================
