-------------------------- MODULE MCEventIdSolver --------------------------
(* Instances of EventIdSolver for TLC. *)
EXTENDS EventIdSolver

Plain(n)      == [num |-> n, rev |-> FALSE, pin |-> NoPin, pos |-> 0]
Reversed(n)   == [num |-> n, rev |-> TRUE, pin |-> NoPin, pos |-> 0]
PinnedTo(e)   == [num |-> 1, rev |-> FALSE, pin |-> e, pos |-> 0]

(* Single-id pairs, and double-buffered backward pairs. *)
MixedKinds == {Plain(1), Reversed(2)}

(* A pair of a custom macro that pins id 0 next to ordinary pairs. *)
PinnedKinds == {Plain(1), PinnedTo(0)}

(* Bound: a custom macro's pinned pair is handled first, the others are free. *)
PinnedFirst == \A n \in Live(g) : IsPinned(n) => n = 1
=============================================================================
