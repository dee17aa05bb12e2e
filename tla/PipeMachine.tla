---------------------------- MODULE PipeMachine ----------------------------
(***************************************************************************)
(* The machine that the generated sync is for: pipes that run side by      *)
(* side, each taking its instructions in program order.  An instruction on *)
(* memory, once issued, is running until something waits for its pipe: a   *)
(* set_flag, which runs when everything before it on the pipe is finished, *)
(* or a barrier.  A wait_flag holds its pipe until the flag is set, and    *)
(* takes it.  A barrier over all pipes waits for everything before it and  *)
(* holds back everything after it.                                         *)
(*                                                                         *)
(* This is SyncTester::runSimulation, which follows one order of the       *)
(* pipes per random seed; here the pipes advance in every order.           *)
(***************************************************************************)
EXTENDS Integers, Sequences, FiniteSets, PipeCode

CONSTANTS
    Pipes,     \* the pipes
    EventIds,  \* of each pair of pipes
    Memory     \* addresses

ASSUME MachineAssumption == All \notin Pipes

Flags == Pipes \X Pipes \X EventIds

Instructions ==
    [kind : {"rw", "set", "wait", "barrier"}, pipe : Pipes \cup {All},
     rd : SUBSET Memory, wr : SUBSET Memory, flag : Flags \cup {NoFlag}]

WellFormed(s) ==
    \/ s.pipe \in Pipes /\ s = Access(s.pipe, s.rd, s.wr)
    \/ s.flag \in Flags /\ s \in {Set(s.flag), Wait(s.flag)}
    \/ s = BarrierOn(s.pipe)

VARIABLES
    code,     \* the program
    pending,  \* the instructions that have not been taken yet
    running,  \* those on memory that may not have finished
    flags     \* how often each flag is set

vars == <<code, pending, running, flags>>

(* One has to be taken before the other.                                    *)
Serial(i, j) == code[i].pipe = code[j].pipe \/ All \in {code[i].pipe, code[j].pipe}

FaultyReady(i) == i \in pending /\ \A j \in pending : j < i => code[j].pipe # code[i].pipe

Ready(i) == i \in pending /\ \A j \in pending : j < i => ~Serial(i, j)

(* Instructions of whose accesses to an address one is a write.             *)
Conflict(i, j) ==
    \/ code[i].wr \cap (code[j].rd \cup code[j].wr) # {}
    \/ code[i].rd \cap code[j].wr # {}

OnPipe(p) == {i \in DOMAIN code : code[i].pipe = p}
-----------------------------------------------------------------------------
(* Nothing of the program has been taken.                                   *)
Start ==
    /\ pending = DOMAIN code /\ running = {}
    /\ flags = [f \in Flags |-> 0]

Init ==
    /\ code \in Seq(Instructions)
    /\ \A i \in DOMAIN code : WellFormed(code[i])
    /\ Start

Take(i) == pending' = pending \ {i} /\ UNCHANGED code

Issue(i) ==
    /\ Ready(i) /\ code[i].kind = "rw"
    /\ running' = running \cup {i}
    /\ Take(i) /\ UNCHANGED flags

FaultySetFlag(i) ==
    /\ Ready(i) /\ code[i].kind = "set"
    /\ running' = running \ OnPipe(code[i].pipe)
    /\ flags' = [flags EXCEPT ![code[i].flag] = 1]
    /\ Take(i)

SetFlag(i) ==
    /\ Ready(i) /\ code[i].kind = "set"
    /\ running' = running \ OnPipe(code[i].pipe)
    /\ flags' = [flags EXCEPT ![code[i].flag] = @ + 1]
    /\ Take(i)

FaultyWaitFlag(i) ==
    /\ Ready(i) /\ code[i].kind = "wait"
    /\ flags[code[i].flag] > 0
    /\ Take(i) /\ UNCHANGED <<running, flags>>

FaultyWaitUnset(i) ==
    /\ Ready(i) /\ code[i].kind = "wait"
    /\ flags' = [flags EXCEPT ![code[i].flag] = @ - 1]
    /\ Take(i) /\ UNCHANGED running

WaitFlag(i) ==
    /\ Ready(i) /\ code[i].kind = "wait"
    /\ flags[code[i].flag] > 0
    /\ flags' = [flags EXCEPT ![code[i].flag] = @ - 1]
    /\ Take(i) /\ UNCHANGED running

Barrier(i) ==
    /\ Ready(i) /\ code[i].kind = "barrier"
    /\ running' = IF code[i].pipe = All THEN {} ELSE running \ OnPipe(code[i].pipe)
    /\ Take(i) /\ UNCHANGED flags

Advance(i) == Issue(i) \/ SetFlag(i) \/ WaitFlag(i) \/ Barrier(i)

Next == \E i \in pending : Advance(i)

Spec == Init /\ [][Next]_vars
-----------------------------------------------------------------------------
TypeOK ==
    /\ code \in Seq(Instructions) /\ \A i \in DOMAIN code : WellFormed(code[i])
    /\ pending \subseteq DOMAIN code
    /\ running \subseteq {i \in DOMAIN code \ pending : code[i].kind = "rw"}
    /\ flags \in [Flags -> Nat]

(* No data race and no reordering: when an instruction runs, every earlier  *)
(* one it conflicts with has finished.                                      *)
Ordered ==
    \A j \in running : \A i \in DOMAIN code :
        i < j /\ Conflict(i, j) => i \notin pending \cup running

(* Some pipe can always go on.                                              *)
NoStuck ==
    pending # {} =>
        \E i \in pending : Ready(i) /\ (code[i].kind = "wait" => flags[code[i].flag] > 0)

(* Every flag that was set has been taken when the program ends.            *)
FlagsBalanced == pending = {} => \A f \in Flags : flags[f] = 0
-----------------------------------------------------------------------------
(* What makes a program fit to run, whatever the order of the pipes.  D is  *)
(* a set of its instructions that may have been taken.                      *)
SetsIn(D, f)  == {i \in D : code[i] = Set(f)}
WaitsIn(D, f) == {i \in D : code[i] = Wait(f)}

Takeable(D) ==
    /\ \A j \in D : \A i \in DOMAIN code : i < j /\ Serial(i, j) => i \in D
    /\ \A f \in Flags : Cardinality(WaitsIn(D, f)) <= Cardinality(SetsIn(D, f))

(* s, once taken, means that i has finished.                                *)
Finishes(s, i) ==
    /\ i < s /\ code[s].kind \in {"set", "barrier"}
    /\ code[s].pipe \in {code[i].pipe, All}

(* Of two conflicting instructions the later needs something that finishes  *)
(* the earlier.                                                             *)
Synchronised ==
    \A i, j \in DOMAIN code : i < j /\ Conflict(i, j) =>
        \A D \in SUBSET DOMAIN code : Takeable(D) /\ j \in D => \E s \in D : Finishes(s, i)

(* It would run to its end as it is written, and use every flag up.         *)
Sequential == \A k \in DOMAIN code : Takeable(1 .. k)
Balanced   == \A f \in Flags :
    Cardinality(SetsIn(DOMAIN code, f)) = Cardinality(WaitsIn(DOMAIN code, f))

(* A synchronised program is free of races in every order of its pipes.     *)
(* runSimulation looks for the overlap of conflicting accesses; here they   *)
(* may not change places either.                                            *)
OrderedWhenSynchronised == Synchronised => Ordered

(* A program that runs in the order it is written runs in every order of    *)
(* the pipes: runSimulation never has only waits for unset flags left.      *)
RunsWhenSequential == Sequential => NoStuck

(* A program with a wait for every set leaves no flag behind, whatever the  *)
(* order.  runSimulation forgets its flags at the end, the pipes do not.    *)
BalancesWhenBalanced == Balanced => FlagsBalanced
=============================================================================
