-------------------------- MODULE GraphSyncSolver --------------------------
(***************************************************************************)
(* The solver and what it is for: solve a function, with the first version *)
(* of the solver or the second, put the sync around its operations, and    *)
(* run the result on the pipes.  This is SyncTester::test for every        *)
(* program, every way through it and every order of the pipes.             *)
(***************************************************************************)
EXTENDS SyncSolverV2, SyncCode

CONSTANTS
    Trips,      \* of a loop that is entered (loop_unrolling_num)
    Executed    \* bound: the functions whose code is run

ASSUME TripsAssumption == Trips \in Nat \ {0} /\ Executed \subseteq Functions

VARIABLES code, pending, running, flags

machine == <<code, pending, running, flags>>

RwOps     == UNION {{o \in ToSet(f.ir.op) : o.kind = "rw"} : f \in Executed}
AllPipes  == {o.pipe : o \in RwOps}
Addresses == UNION {ToSet(o.rd) \cup ToSet(o.wr) : o \in RwOps}
HwIds     == 0 .. HwEventIdNum - 1

ExecutedIr == {f.ir : f \in Executed}

Machine == INSTANCE PipeMachine WITH
    Pipes <- AllPipes, Memory <- Addresses, EventIds <- HwIds

InitSystem == InitSolver /\ code = <<>> /\ Machine!Start

Solve == NextSolver /\ UNCHANGED machine

(* The generator takes over the solver's result; the solver is gone.        *)
Generate ==
    /\ pc = "done" /\ ir \in ExecutedIr
    /\ \E c \in Runs(ir.op, BeforeAfter(ir.op, PlacedPairs, Events.ev), Trips) :
          code' = c /\ pending' = DOMAIN c
    /\ running' = {} /\ flags' = [f \in Machine!Flags |-> 0]
    /\ pc' = "run"
    /\ runNum' = 1 /\ final' = FALSE /\ persistent' = <<>>
    /\ disabled' = {} /\ reuse' = [c \in Channels |-> 0]
    /\ BeginRun(<<>>) /\ ResetLists
    /\ prog' = [prog EXCEPT !.plans = <<>>] /\ version' = 1

Run == Machine!Next /\ UNCHANGED varsSolver

NextSystem == Solve \/ Generate \/ Run

SpecSystem == InitSystem /\ [][NextSystem]_<<varsSolver, machine>>
-----------------------------------------------------------------------------
(* What a solved function comes to on the pipes.                            *)
Ordered       == Machine!Ordered
NoStuck       == Machine!NoStuck
FlagsBalanced == pc = "run" => Machine!FlagsBalanced
=============================================================================
