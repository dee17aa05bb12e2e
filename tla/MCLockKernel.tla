---------------------------- MODULE MCLockKernel ---------------------------
(* A kernel with both locks.  The history variable keeps, for a core in    *)
(* the unordered lock, the cores that had their ticket when it called lock *)
(* and have not left since.                                                *)
EXTENDS LockKernel

CONSTANTS FirstTrips,  \* how often cores of block 0 may enter
          OtherTrips   \* and the others

MCTrips == [c \in Core |-> IF c[1] = 0 THEN FirstTrips ELSE OtherTrips]

VARIABLE ahead

HasTicket == {c \in Core : step[c] \in {"chosen", "gate", "queue", "inside"}}

MCInit == Init /\ ahead = [c \in Core |-> {}]
MCNext == /\ Next
          /\ ahead' = [c \in Core |->
                IF step[c] = "idle" THEN HasTicket \ {c}
                                    ELSE ahead[c] \cap HasTicket']
MCSpec == MCInit /\ [][MCNext]_<<vars, ahead>> /\ Fairness

(* The unordered lock serves in the order of arrival: a core in the region *)
(* has waited for everyone who had a ticket when it called lock            *)
(* (HIVMAttrs.td calls the lock "arrival-order").                          *)
ArrivalOrder == \A c \in Core : step[c] = "inside" => ahead[c] \cap HasTicket = {}
=============================================================================
