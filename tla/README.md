# AscendNPU-IR: a verification development of auto-sync and memory planning

AscendNPU-IR compiles MLIR to kernels for Ascend NPUs. A core of such a device
has several pipes (vector, cube, the memory-transfer engines, scalar) that run
side by side and only order their work by `set_flag`/`wait_flag` pairs and by
barriers. The compiler inserts these itself. If one is missing the kernel has
a data race; if one waits for a flag that nobody sets, the device hangs; if two
pairs share an event id at the wrong time, either can happen. This *auto-sync*
part (`GraphSyncSolver`, about 12,000 lines, with its own random tester) is the
one place in the repository with a rich state machine, rollback, retries and a
concurrent target, and it is the core of what this project models, checks and proves about. The second
part is *memory planning* (`PlanMemory`), a search with roll back that gives every buffer its address
and so decides which operations auto-sync has to order. The third is the *sync-block locks* that
serialise regions of a kernel among the cores it runs on: a library of spin locks in global memory and
the passes that place them.

The project is written in TLA+, checked with TLC and, where theorems are
stated, proved with TLAPS.

In short (details below):

| Question | Answer |
|---|---|
| Does the event-id solver undo a rejected pair exactly, whatever happened in between? | proved for all sizes (`SolverIsTransactional`, `UndoIsExact`) |
| Do pairs that are live together get different ids? | proved without reversed pairs (`IdsAreProper`); checked with them |
| Does the reachability search drop a sync that is needed, or keep one that is not? | proved neither (`GraphSound`, `GraphComplete`, `GraphLeast`) |
| What must a program satisfy to run free of races, hangs and leftover flags in *every* order of the pipes? | three conditions on its text, proved sufficient (`SynchronisedIsOrdered`, `SequentialNeverStuck`, `BalancedLeavesNoFlag`) |
| Do set and wait of a conflict go between its two accesses, in scopes around them? | proved for trees of any shape (`SetWaitOccIsGood`, `BarrierWaitOccIsGood`) |
| Do pairs of the sync solver whose flags may be pending together get different ids? | proved for any function and both versions (`IdsAreApart`) |
| Is every conflict ordered in the end, whatever was reused, merged or made a barrier after it was passed over? | proved for any function and both versions (`ConflictsAreCovered`) |
| Do the kept graphs of the default solver (V2) answer as fresh ones? | proved for any function (`KeptGraphsAnswer`) |
| May V2 pass over groups of conflicts? | proved for any function, from what the queue of its groups guarantees (`ConflictsAreCovered`, `NothingIsMissed`) |
| Does the solver keep its own assertions and settle? | checked on 430 functions (`NeverAborts`, `NeverGivesUp`) |
| Does the code that it generates run free of races, hangs and leftover flags? | 79 functions solved, generated and executed; one counterexample (`sibling_ifs`) |
| Does a plan of memory ever let two live buffers overlap, whatever was planned and taken back? | not the plans that stand: proved for all jobs (`PlansNeverOverwrite`, `RollBackIsExact`); the addresses handed out can, by copies that were never planned (`plan_memory_stale_copies`) |
| Does memory planning end? | checked on 3,889 jobs |
| Do the sync-block locks exclude, and does every core return whatever it skips? | exclusion and order proved for any number of cores; return checked on three; both fail in mix kernels (`unordered_free`, `limited_free`) |
| Does the code keep its own assertions and comments? | six places do not, see Findings |

## 1. Inventory

Paths are under `src/bishengir/lib/Dialect/HIVM/Transforms/` unless another
one is given. The docs of the part are
`src/docs/source/en/developer_guide/features/auto_sync.md`.

| Part | State it keeps | Operations | Interacts with | Hard behaviour | What makes it correct |
|---|---|---|---|---|---|
| Event-id solver (`GraphSyncSolver/EventIdSolver.cpp`) | conflict graph with edge counts, weights, ids per node, pair-to-node map, reserved ids, maximum, an action stack with markers | create/reuse node, extra pair, add edge, judge, accept, undo, colour (default, round robin), shrink, allocate a spare id | called by the solver, one instance for each pair of pipes | exact rollback through lazily recomputed ids; ids at the hardware limit | rejected = never happened; live pairs get disjoint ids; ids within the hardware |
| Graph solver (`GraphSolver*.cpp`) | adjacency by pipe, temporary edges, queue and distances | insert, erase, ask | rebuilt and asked for every conflict | cycles, stale queue entries, scalar pipe | answers "ordered" exactly when a chain of syncs orders |
| Sync solver (`SyncSolverBase.cpp`, `SyncSolverV1.cpp`; `SyncSolverV2.cpp` is the default) | chosen and persistent pairs, synced/reused/replaced pairs, barriers, merged events, options of the current run; V2 also kept graphs, the lists they are brought up to date from, and what of a group is done | one conflict after the other; retries (`runSolver`) | both solvers above; code generator | decisions that rely on earlier ones which are later extended, moved, merged or re-run | every conflict ordered at the end; terminates; own assertions |
| Solver IR (`SyncSolverIR.cpp`, `SyncSolverIRTranslator.cpp`, `MemInfo.cpp`) | tree of operations, tree of occurrences (each loop body twice), memory operands | build, processing orders | input of the solver | backward conflicts of nested loops | nearest pairs first, each pair once |
| Code generation (`SyncSolverCodeGen.cpp`) | before/after maps | set, wait, barrier around operations; ids that rotate with the loop | output of the solver | header/footer of backward pairs | sets and waits in equal numbers on every way through |
| Tester (`SyncSolverTester.cpp`, `SyncSolverTest.cpp`) | pipes, running operations, flags | simulate | all of the above | one order of the pipes per seed | no conflicting accesses overlap, no deadlock |
| Custom macros (`CustomMacroSync.cpp`) | pinned and internal ids | reserve, pin, inject boundary sync | event-id solver | pinned ids next to free ones | pins respected |
| Cross-core sync (`CrossCoreGSS.cpp`, `DelayedCrossCoreGSS.cpp`) | the same stack between cube and vector cores; anchors | as above, split kernels | mix-kernel split | sync computed before the split and inserted after it | as above across cores |
| InjectSync (`InjectSync/`) | older implementation and fallback | analyse, move, allocate ids, remove redundant sync | used when the graph solver gives up or is disabled | redundant-sync removal, id reuse | as above |
| Sync-block locks: library (`src/bishengir/lib/Template/lib/Synchronization/SyncBlockLock/SyncBlockLock.cpp`) | ordered: one word, the index whose turn it is; unordered: `choosing` and `ticket` of each participant | `sync_block_lock`, `sync_block_unlock`, `free_lock_var`, the same `_unordered`, all with or without the sub-block in the index | every vector core of a launch | loads and stores of the cores interleave; regions skipped | exclusive; ordered: in the order of the cores; everyone returns |
| Sync-block locks: passes (`SyncBlockHoisting.cpp`, `MarkSyncBlockLockWithSubblock.cpp`, `InsertFreeLockVarBeforeReturn.cpp`) | attributes of lock operations | hoist ordered regions out of loops, mark the index, free before return | atomics lowered to locks; library | decisions of three passes that must agree on an index | each core has one turn, or one slot, and frees that one |
| Sync-block locks: layout (`LowerCreateSyncBlockLock.cpp`, `InsertInferSyncBlockLockNumAndInitFunc.cpp`, `BindSyncBlockLockArg.cpp`) | static counters | offset of each lock; counts for the launcher | launcher | counters shared by functions lowered in parallel | locks do not overlap |
| Block sync (`InjectBlockSync.cpp`) | as InjectSync | sync between cores of a block | cross-core solver | | as cross-core sync |
| Memory planning (`PlanMemory.cpp`, `OptMemPlanForPipeline.cpp`) | bounds of the memory with the lives of what lies there, history of plans, levels, addresses | plan a buffer at a level, split and replace bounds, take back, lower the level, start again; reuse of double buffers | liveness analysis and in-place merging before it; gives the addresses that sync conflicts on | roll back through split bounds; copies entered before their turn; it must end | live buffers do not overlap; taking back is exact; every buffer of a finished plan has its address |
| Multi-buffering, CV pipelining (`EnableMultiBuffer.cpp`, `CVPipelining.cpp`, `CreatePreload.cpp`) | loop rewrites | | gives multi-buffered operands | iteration modulo buffer count | same buffer, same id |
| The rest: dialect definitions, conversions, HFusion, Linalg/Tensor/MemRef/Triton rewriting, templates, bindings, tools | none that outlives a pattern | | | | not a state machine; not modelled |

How a function passes through: the pass `GraphSyncSolver` translates it to the
solver IR, unrolls loops twice into occurrences, creates the solver, calls
`solve()`, which processes every pair of occurrences, asks the graph solver
whether earlier pairs already order it, places a set and a wait, and asks an
event-id solver, as a transaction, for ids. `runSolver` repeats with other
options until ids suffice; the generator then emits sync around operations.

`PROJECT.json` lists the same parts with their status, and under `hazards` what
is hard to test in them, line by line.

## 2. Modules

| Module | Models | Lines of code it stands for |
|---|---|---|
| `GraphTransaction` | abstract: a graph that is kept or given up as a whole | what `handleSetWaitConflict` expects of `EventIdSolver` |
| `EventIdSolver` | the event-id solver and the protocol it is called by | `EventIdSolver.cpp`, `SyncSolverBase.cpp` `handleSetWaitConflict`, `calcAllEventIds` |
| `GraphSolver` | the reachability search | `GraphSolver.cpp`, `GraphSolverBase.cpp` |
| `SyncTree` | the trees of operations and occurrences, and what the solver relies on in them (`WellBuilt`) | `SyncSolverIR.h`, queries of `SyncSolverIR.cpp` |
| `SyncIr` | how those trees and the processing orders are built | `SyncSolverIR.cpp`, `SyncSolverIRTranslator.cpp` |
| `SyncPlacement` | where set and wait go, how many ids, extra pairs | `SyncSolverBase.cpp` (queries on the trees) |
| `SyncMaps` | merging of backward sync, before/after maps | `SyncSolverBase.cpp`, `SyncSolverCodeGen.cpp` |
| `SyncSolver` | the solver with its retry loop | `SyncSolverBase.cpp`, `SyncSolverV1.cpp` |
| `SyncCode` | code of every way through a function | `SyncSolverCodeGen.cpp`, `SyncSolverTester.cpp` `fillPipelines` |
| `PipeCode`, `PipeMachine` | instructions; pipes running them in every order | `SyncSolverTester.cpp` `runSimulation` |
| `SyncOrders` | V2: groups of accesses and the order of its queue | `SyncSolverV2.cpp` `generateProcessingOrders`, `MemInfoTree.h` |
| `SyncSolverV2` | V2: kept graphs, passing over the rest of a group | `SyncSolverV2.cpp` |
| `GraphSyncSolver` | composition: solve with either version, generate, run | `SyncTester::test` |
| `PlanMemory` | planning of one memory space | `PlanMemory.cpp` `MemPlan`, `OptMemPlanForPipeline.cpp` |
| `OrderedLock`, `UnorderedLock` | the two sync-block locks, every load and store of a shared word a step | `SyncBlockLock.cpp` |
| `LockKernel` | a kernel with both locks on the cores of a launch, with the indices and frees that the passes give it | `SyncBlockHoisting.cpp`, `MarkSyncBlockLockWithSubblock.cpp`, `InsertFreeLockVarBeforeReturn.cpp` |
| `MC*`, `SmallPrograms` | instances for TLC | |
| `*Proofs` | theorems | |

`SyncSolver` works on a constant set `Functions`: of each its trees, the pairs of accesses to look at, and
those in groups. All it knows of them is `FunctionsAssumption` (the trees are `WellBuilt`, orders are of two accesses of which the
first comes first). `SyncIr` and `SyncOrders` build them from programs as the translation does, with recursive operators, and the `MC` modules
choose the programs: so the runs evaluate the assumption on what the translation gives, and the theorems need nothing else.
Of the groups of version 2 `GroupsAssumption` says what the queue of `generateProcessingOrders` makes of them, and is evaluated by the same runs: an order
that was queued compares two parts of one scope, or a scope and its child in the other visit; what is left of the group lies in those two parts or
further apart; and no conflict of the function is left out of the groups.
`SyncSolverV2` extends `SyncSolver`, whose handling of one conflict it uses; its variable `version` says which solver a behaviour
of `SpecSolver` is of. `GraphSyncSolver` extends `SyncSolverV2` and `SyncCode` and instantiates `PipeMachine`. `PlanMemory` stands alone: the
lives it gets come from an analysis of the kernel, the addresses it gives become the buffers that the operands of
`SyncIr` name. `LockKernel` instantiates `OrderedLock` and `UnorderedLock`; nothing connects
the locks with the sync solver, they synchronise cores and not the pipes of one.
`EventIdSolver` refines `GraphTransaction`. `SyncSolver` uses
the results that `GraphSolver` and `EventIdSolver` are checked and proved to
give: its `Enforced` is the least fixed point of chains (`GraphSound`,
`GraphComplete`), its transaction on ids is a single step (`Transactional`),
and it colours afresh (`LazyCheckSound`).

### How state and actions correspond

**`EventIdSolver`.** `g` is the solver object: nodes 1..`count`, edge counts
`adj` (`adjacencyList`), `sum` (`sumAdjListSizes`), `ids`, `owner`
(`conflictPair2Node`), `stale` (`needRecalculateEventIds`). `log` is the action stack
and `trail` a history variable, the graph before each logged action, which
only properties read. `pc` says which call is under way. A call that loops is
one action per node or stack entry: `UndoAction`/`UndoMarker` for
`undoActions`, `ClearIds`/`PeelNode`/`ColorNode`/`RobinNode` for the phases of
`calcEventIds`. The callers are part of the module because the protocol is what
makes the solver correct: `CreateNode` or `ReuseNode`, `AddConflicts` and
`AddEdge`, `CheckColorable`, `Judge`, `InsertExtraPair`, `ClearActionStack`, then
`ShrinkEventIdMax`, `Resize`, `AllocateUnusedEventId`. Which nodes intersect the
new one, and whether a pair is new, is a free choice, so every graph is built.

**`GraphSolver`.** `InsertConflictPair`, `EraseConflictPair` and `ClearTemp` build any graph out of
the given pairs, `CheckGraphConflict` asks a query; `PopStale`, `PopAnswer`, `PopExpand`, `Relax`
(one edge) and `NotFound` are the steps of `runDijkstra`. The order of edges is free (the code
iterates over a hash map). The reference of the properties is a chain of pairs, defined without
the search. Whether a temporary edge may follow the scalar pipe depends on
what `adjacencyList` happens to have an entry for; soundness allows such a step and
completeness does not demand it.

**`SyncIr` ... `SyncSolver`.** Trees are sequences of records in pre-order, so an
operation or occurrence is a number and "before" is `<`. All that depends on the
trees alone (filters, multi-buffer ids, placement, extras) is `Plan` of a pair and
worked out once. `SyncSolver` then walks the plans as `processOrders` does.
`SkipOrder`, `HandleBarrierConflict`, `ReuseConflictPair` and
`HandleSetWaitConflict` are the outcomes of `handleConflict`; `ConsiderOuter`,
`ReuseToSaveIds`, `DisableMultiEventId`, `PickBarrierAll`, `Settle`, `Finish` are the
branches of `runSolver`. The code's assertions are predicates on the state
(`SoundPlan`, `IdsSettled`), not guards that hide a failure: `NeverAborts` says
they hold whenever the action they precede is due.

**`SyncOrders`, `SyncSolverV2`.** V2 compares one part of a tree with another (a child of a scope with those before it,
the two visits of a loop) and takes the accesses of the two parts, the nearest first, from a priority queue. An element only
ever puts elements into the queue that come later, so without early exits the queue yields the sorted sequence of
all combinations; `Group` is that sequence and the early exits are `SkipHandled`. `graphSolverMap` is `graphs`, with the
lengths of the lists up to which each graph has taken them in; `inserted` and `erased` are the lists of the
current run. `reset` empties graphs and lists, but the list of persistent pairs stays and is replayed into each new
graph. `handledCorePipePairs` is a local set of one group: `handled` holds the group's number too. `SkipEnforced` is the answer "ordered" with its
second question about the two parts as wholes; `Handle` is `handleConflict` with `insertConflictPair` and
`eraseConflictPair` and the decision whether the new pair orders both parts. Asking is an action's effect, because it brings the graph up to date.

**`PlanMemory`.** `outline` is the list of memory bounds as a set (a bound says where it begins); `his` is the history of
plans; `trail`, which only properties and proofs read, the outline before each; `si` is `SpecInfo`; `status` is the place in
`PlanMemAddressOfWholeLocalBuffer`: all buffers in a row (`PlanWithoutReuse`), a plan in unlimited memory (`"single"`), the plan by levels (`"multi"`), taking
back (`"rollback"`), what to do then (`"strategy"`). `PlanEntry` is one round of `MultiSpecPlan`: the first place of the highest level that
has one. `EnterOther` enters one further copy (`SpecAllocRelationOtherBufferEntry`). `FailToPlan`, `RollBack`,
`LowerLevel`, `RestartWithSplitOutline` and `GiveUp` are the failing side. A place is the beginning of a bound: the bounds that the code's scan jumps
over after a conflict meet the same obstacle, so the first place that passes is the same.

**`PipeMachine`.** A pipe takes its instructions in order; an access once issued
is *running* until a `set_flag` of its pipe, a barrier of its pipe or a barrier of all
pipes waits for it. It never finishes sooner, the worst case. The tester picks one order
of the pipes by priority and seed and looks for overlap; here every order is
explored and conflicting accesses may not change places either.

**`SyncCode`.** All ways through conditions, loops that are not entered or make `Trips`
trips. A while loop's first region runs once more when it is left, as
`scf.while` does (the tester has that call commented out,
`SyncSolverTester.cpp:358`); the properties hold with it too.

**`OrderedLock`, `UnorderedLock`, `LockKernel`.** `lock_var`, `choosing`, `ticket` are the words in
global memory, `j`, `max_ticket`, `my_ticket` the local variables of
`sync_block_lock_unordered_impl`, `turn` and `step` the place of a core in the call. Each load and
each store of a shared word is one step (`ReadTicket`, `TakeTicket`, `EndChoosing`, `PassGate`,
`PassPeer`). A read that does not end a spin loop is a stutter. `Free` of the ordered lock reads
the word, and returns or calls lock and unlock. In `LockKernel`, a core enters the unordered region
in a loop, as often as `Trips` allows (such locks stay in loops), the ordered region at most
once (`SyncBlockHoisting` puts it around the loops), or skips either, and then frees both locks in
any order. `IdOf` is the index a call uses, `WithSubblock` and
`FreeWithSubblock` are the choices of the two passes for lock/unlock and for free.

### What is abstracted

* Locks: a load or store with its `dcci` is atomic, slots do not share a cache line, the launcher clears the
  words and writes the number of participants; both passes are active (regbase, or hivmc 0.2.0 and later). Regions are not
  nested, and there is one lock of each kind. Not modelled: the rewriting in
  `SyncBlockHoisting`, the sync it adds after a loop with an unordered lock, and where locks lie in their buffer.

* Buffers are numbers; an operand is the sequence of buffers it cycles through. How
  an address is traced back through subviews is left out.
* Pipes are `L`, `V`, `S`, standing for MTE2, V and MTE3; the rules for particular
  pipes (scalar pipe against itself, useless cube barriers) are left out of `SyncSolver`.
* Left out of the solver: unit flags, custom macros, CV preloading (one identical
  rerun of `runSolver`), Mmad decomposition, cross-core pairs (with them the temporary pairs of V2), block-all mode.
* An erased pair is always replaced by one of the same wait and a later set, so that a graph that forgot erasures would
  answer the same; `AnswersAfresh` catches a list that is replayed wrongly in other ways.
* Memory planning: buffers, lives, loops, kinds of pipes and in-place pairs are inputs, in any order (the
  pass makes up to 20 attempts with shuffled orders). Sizes count units of the alignment; buffers of size zero, which take no
  memory, are left out. `UINT64_MAX` bits are the constant `Unlimited`, and the comparison that wraps around for "no
  address" (`PlanMemory.cpp:3016`) is spelled out in `EnoughAt`. Lives that touch are merged in the code and then go by the name of the first part; the
  pieces stay apart here, and `MergedName` gives that name where the code looks at it. In-place pairs are only compared at single
  points of time and by that name, which is why `NoOverwrite` allows buffers that meet at single points to share memory.
* `gaveUp` is the failure that test mode reports. Outside it the pass retries without
  optimisations.
* Hash-map order of pipe pairs in merged events: any fixed order, since sets of
  different pipe pairs at one place commute up to the order that the machine explores.

## 3. Runs

| Run | Instance | States | Shows |
|---|---|---|---|
| `solver` | `EventIdSolver.cfg`: 4 nodes, 4 pairs, edges counted to 2, single and reversed double ids, 3 hardware ids | 58,349 | rollback, assertions, lazy recalculation, refinement |
| `round_robin` | 5 nodes, one pinned to a reserved id, round robin | 215,144 | ids proper, reserved ids kept, shrink succeeds |
| `graph_solver` | 9 pairs over two cores, 9 queries | 52,259 | answers exact and least, search ends |
| `pipe_machine` | every program of up to 5 instructions on two pipes; two longer ones | 206,841 | the three conditions suffice |
| `sync_solver` | 430 functions, both versions, 2 ids | 39,480 | no assertion fails, settles, all conflicts covered, ids apart; kept graphs answer as fresh ones, nothing passed over needed sync |
| `graph_sync_solver` | 79 functions, both versions, 2 ids, 3 trips | 60,131 | no race, no hang, no flag left in any order of the pipes |
| `lock_kernel` | 3 blocks of one vector core, block 0 enters the unordered region up to twice, the others once, every region may be skipped | 270,833 | exclusion, order, order of arrival, cores never all wait for each other, every core returns |
| `plan_memory` | 3,889 jobs of up to three buffers | 71,998 | plans never overlap, the outline tells them, taking back is exact, finished plans are whole, every plan ends |
| `sibling_ifs`, `unordered_free`, `limited_free`, `plan_memory_stale_copies` | | | counterexamples, see Findings |

Why these bounds suffice for what they ask:

* *Event ids.* With 3 ids, four nodes are needed to run out, one more than fit. Double
  ids make a node weigh 2, so that the weight test, the colouring and the top-down choice
  all differ. Parallel edges (count 2) are what the sums of weights must survive. Five nodes are what
  the round-robin order needs next to a pin to wrap.
* *Graph.* The pairs contain a long and a short way, a cycle, a detour through the scalar
  pipe, a crossing of cores, a temporary edge and both barriers.
* *Pipe machine.* Two pipes suffice for each conflict, one id because sharing it is the hard case.
  A race needs two accesses, a set, a wait and one thing to go wrong: five instructions.
* *Sync solver.* Every nest of two blocks around two or three operations out of a plain load, a
  double-buffered load and a double-buffered add, of which some load and some add, in the shapes of `SmallPrograms`, and functions
  with more buffers than ids: these drive it through reuse, disabled
  double ids, a barrier over all pipes and merging into outer loops; every action fires. `MaxReuseNum` is the code's 20;
  `MaxRunNum` is 12 where the code has 99, so that `NeverGivesUp` says more.
* *Execution.* Two ids, so that a third concurrent pair must share or become a barrier; three trips, so
  that two buffers come round. The number of functions is limited by the interleavings: one shape with by far the most ways
  through it (`Winding`) is solved and not run.
* *Memory planning.* Three buffers are the least for which one must be taken back for the sake of another
  while a third keeps its place. The memory holds two of the larger ones. The jobs have all combinations of six kinds of
  buffers: lives of two parts, lives that touch (with and without leave to work in place), two and three copies, memory of its own, in a loop
  and outside, all kinds of pipes; copies planned next to their buffer and after all; both forms of the outline; workspaces.

* *Locks.* Three cores are the least for which one is overtaken by a second while a third is in the
  region; the second entry of block 0 meets its own old ticket. Tickets are not capped: they grow
  with the entries, which `Trips` bounds. The counterexamples have two blocks of two sub-blocks, one entry.

Deadlock checking is on in `lock_kernel` and `unordered_free` (a kernel that returned stutters by `Finished`) and in the runs of `PlanMemory`
(a finished plan stutters by `Finished`; a plan that failed in unlimited memory, or a copy without any bound to lie in, both of which the code asserts
against, would show as a deadlock). It is off elsewhere: a
solver stops when it is done, a program when it has run, and `limited_free` is about a kernel that stops.
What must not stop there is stated by properties (`NoStuck`, `SearchEnds`, `NeverGivesUp`).

Fairness is assumed for three modules. `GraphSolver`: weak fairness of the steps of the
search. `checkGraphConflict` is an ordinary call that runs to its answer, so its steps
cannot be postponed for ever; nothing is assumed of the environment that asks. `LockKernel`: weak fairness
of "some core takes a step", the least that a device on which cores run gives. It is not fairness
of each core: as loops are finite and unsuccessful reads are stutters, a behaviour ends only when no core can go
on, and `AllReturn` says that then all have returned. `PlanMemory`: weak fairness of the next step. A plan is one
sequential call that nothing outside interrupts; `Terminates` says that the loop has an end. The safety properties need none.

Not checked, since not true of the code and harmless: that a flag is never set
twice before it is taken. When a branch is skipped it can be; flags are counted.

## 4. Proofs

TLAPS checks the theorems below for every value of the constants. The only assumptions are the
named ones of the modules:

* `SolverAssumption` - sizes are natural numbers, at least one hardware id, finitely many reserved
  ids, pins among the reserved ids (`reset` reserves them);
* `GraphAssumption` - a pair starts no later than it ends; a barrier is at one place on one pipe and
  not temporary;
* `MachineAssumption` - "all pipes" is not itself a pipe;
* `KernelAssumption` - at least one block and sub-block, one sub-block unless the kernel is mix;
* `SyncSolverAssumption` - at least two event ids (an operand has up to two buffers), at least one run of `runSolver`;
* `FunctionsAssumption` - the trees of a function are `WellBuilt` and its orders are of two accesses in program order;
* `GroupsAssumption` - in a group, what is left when two parts are compared lies in them or further apart, and every conflict is in a group (see section 2);
* `JobsAssumption` - jobs have at least one buffer, buffers a size above zero, at least one copy and lives that end no sooner than they begin.

Some theorems about ids have premises in their statement, because they are false without them (see the remarks under Findings):
`IdsAreProper` and `ReservedStaysReserved` that no pair is reversed; `LazyCheckIsSound` and `IdsExistInHardware` that no id is
reserved and the round-robin order is off; `ShrinkIsColorable` that the order is off and that no id is reserved or no pair reversed. The lock theorems assume that each core has a turn
(`OneTurnEach`), or a slot that it also frees (`OneSlotEach`); `LockKernelProofs` derives both from what the
passes do, where they hold.

**`EventIdSolverProofs`.** The heart is `IInv`. `UndoRestores` is not inductive: undo starts in
the middle of a history, from a graph that recalculation changed several times. So `IInv`
carries `History`, that the log inverts the trail: reverting the newest log entry of the current graph
gives the previous graph of the trail, and so on down to the marker; each action of the solver extends that history
(`PushHistory`) and each undo step shortens it (`PopHistory`). To revert a node it must have no edge and
be the last, which needs the well-formed graph (`GraphOK`) in the trail as well. From it follow
`TypeCorrect`, `GraphWellFormed`, `RemoveNodeIsSafe`, `UndoIsExact`, and
`SolverIsTransactional`: every step is a step or a stutter of `GraphTransaction` under the
mapping of the structure (ids are not part of it) and its weight. `ShrinkAlwaysSucceeds` adds
`SInv`: when idle, nothing is stale, logged or too heavy.

**`EventIdSolverProofs`, proper ids.** `PInv`: between coloured nodes, neighbours have disjoint ids, and no id
of a coloured node is reserved unless pinned. A node not yet coloured has the empty set, so the order of colouring
does not matter (`IdsAreProper`, `ReservedStaysReserved`).

**`EventIdSolverProofs`, enough ids.** The solver accepts a graph with ids that are out of date, as long as no edge made
a node too heavy since they were computed. That computing them afresh still needs no id beyond the hardware is an argument about all graphs, in four steps.
*The coloring as a function.* `Canon(q, M)[R]` is what the nodes `R` of a graph of shape `q` get under the maximum `M`; it removes the lightest
node, colors the rest and gives that node its ids. It is a recursive function over the subsets of the nodes, so its existence has to be shown
first (`CanonEquations`), by induction on the set of nodes (`SubsetInduction`, a minimal counterexample under the
subset ordering). *The graph grows lightly* (`GrowFits`): the nodes that stay too heavy however many light ones are taken off first, the core, are colored first; every light node
then finds its ids among the first `M` (`FitsUp`). Nodes and edges added while the flag stays down leave the core as it is, so the new graph fits when the
old one did. *The maximum shrinks* (`ShrinkFits`): if some id below `M` is not used, the used ids fill a part from 0 up and a part from `M - 1` down (`CanonSides`), and
under the maximum of their number each node gets the same ids with the gap closed (`ShiftCanon`). Without reversed pairs the maximum does not matter at all (`SameForAll`).
*The steps compute the function.* `CInv` says that degree sums are the weights of the neighbours, also in the graph to be restored (`SumsInv`), what the maximum is
in each phase (`LimitInv`), and that the phases of `calcEventIds` clear, take off the lightest node, and hold the coloring of the nodes taken back
so far (`CalcInv`). `FInv` says of an accepted graph, and of the one to be restored, that its coloring fits - not that the ids it has do -
and of one under way that it fits, or holds a node of more ids than the hardware has, whose placeholders alone get it rejected.
`LazyCheckIsSound`, `ShrinkIsColorable` and `IdsExistInHardware` follow.

**`GraphSolverProofs`.** `SearchIInv` says that a search has just begun or is both sound (each distance is
realised by a chain) and complete (what a chain begins with has been relaxed, and a pipe that was reached is in the queue or expanded).
`BehindTheQueue` derives from it that an edge on a chain that ends before every queue element has been reached and is no answer. The answer
steps turn that into `GraphSound`, `GraphComplete` and `GraphLeast`.

**`PipeMachineProofs`.** `IInv` has three parts: what was taken is closed under program order of each pipe (`InOrder`);
the flags count the sets minus the waits taken (`Counted`); what finishes an access and was taken
means that the access is not running (`Finished`). Hence the taken instructions always form
a `Takeable` set and a condition on such sets, that is on the text of the program, decides. `SynchronisedIsOrdered`,
`SequentialNeverStuck` and `BalancedLeavesNoFlag` reduce "in every order of
the pipes" to the program.

**`SyncSolverProofs` and `SyncCoverageProofs`.** About `SpecSolver`, for any function that `FunctionsAssumption` admits and, where groups matter, `GroupsAssumption`.
Five arguments, each on those before; the second module, which extends the first, begins with *Coverage*.

*Placement.* `SetWaitOccIsGood` follows the code through its cases: the children of the common scope, lifted out of loops that hold the two in different
visits, kept in an unlikely branch, moved for while loops, branches and whole loops. A tree is in pre-order and its occurrences are timed (`IsTree`, `IsTimed`), so that
"a scope around" is membership in `up` and "not before" compares times. Where a barrier goes (`BarrierWaitOccIsGood`) and the pairs that only reserve ids
(`ExtrasAreSpots`) rest on it.

*Pairs and ids.* `IdsApart` is not inductive: that two pairs got different ids rests on an edge drawn when the second was chosen, in a graph that later reuse and merging changed.
`Core` is the inductive invariant: the chosen and the persistent pairs stand where their placement put them (`PairsOk`), each has a node in its
channel's graph (`HaveNodes`), the nodes of two that intersect are joined (`Linked`), and what the rest of the state refers to exists
(`SyncedOk`, `ReuseOk`, `MergedOk`, `BarriersOk`). The hard steps are the reuse of a pair, whose set moves, and
the start of a run with merged pairs. The coloring of a graph is proper whatever it is (`FinalIdsAreProper`, by induction on the nodes colored), and `IdsAreApart` follows.

*Coverage.* `ConflictsAreCovered` needs that what was enforced when a conflict was passed stays enforced (`Passed`). What chains of pairs arrive at is the least
set that has the start and is closed. A pair stands for another if they agree but for its set, which comes no earlier (`StandsFor`), and where every pair
is replaced by one that stands for it no less is enforced. A pair that was reused stands for the one before, and all other steps within a run only add pairs.
A run that starts over has passed nothing.

*Kept graphs.* A kept graph is brought up to date from what the three lists got since it was last asked. `Logged` says that it holds each edge as often as the
parts of the lists that it took in say (`AreTallied`), and that the whole lists count what is chosen (`Balanced`): so after `getGraphSolverRef` its
edges are those of the pairs that stand. But it holds what concerns the *scopes* of the accesses and the fresh graph what concerns the
accesses themselves. They differ only in edges that do not lie between the two accesses, since the scopes of a pair are aligned with its ends
(`ConcernsWhatIsSeen`), and no other edges matter to a chain between them (`SameInside`). `KeptGraphsAnswer` follows.

*Groups.* When version 2 finds a conflict ordered by pairs that lie outside the two parts its group compares, or gives it such a pair or barrier, it passes over the rest of
the group on those pipes (`handled`). `PassedOver` is what that rests on: whatever is left of a handled group is enforced already. The scopes of a pair
or barrier that is outside a part are around that part, and what is left of the group lies in the parts or further apart (`GroupsAssumption`), so its set still
comes after the first access and its wait before the second. `PassedOver` is kept like `Passed` is, and with it `NothingIsPassedOver` shows
that all that the run is past is enforced; as the plans of version 2 hold those of version 1 (`SecondVersionPlans`), `Covered` and `NothingMissed` follow.

**`UnorderedLockProofs`.** The bakery with tickets read one by one (`UnorderedTypeCorrect`, `UnorderedIsExclusive`). `BakeryIInv` says that the slots
show what their cores are doing (`SlotsHold`) and, of two cores of which the first has passed the other's slot
(`Waits`), that the other is out, or has a ticket that comes later, or is choosing and has read, or is going to read, the first
core's ticket and so will take a larger one. A core at a slot's `queue` has passed its `gate`, so a core of that slot that is choosing now began
after the first core's ticket was stored. Exclusion follows since two tickets cannot each come before the other. Of finitely many waiting
cores one has the ticket that comes first; no gate or queue stops that core (which `KernelIsNeverStuck` uses).

**`LockKernelProofs`.** First the ordered lock by itself: `TurnIInv` adds to the types that a holder's turn is the word's value, and
that a core is done with the lock exactly when the word is past its turn; `TurnsAreInOrder` and `TurnsAreNotLost` follow.
The kernel implements both locks (`UsesOrdered`, `UsesUnordered`), the index of a core is
different from all others and fits the launcher's slots (`IdsDiffer`, arithmetic of block and sub-block), and the theorems of the locks
are applied through `INSTANCE` (`KernelTurnsAreInOrder`, `KernelTurnsAreNotLost`, `KernelIsExclusive`, `KernelTypeCorrect`).
`KernelIsNeverStuck` says, for one vector core a block (`NumSubs = 1`) and at most `MaxParticipants` blocks, that until every core has returned some core has a step other than polling
(`NeverStuck`): if anybody is inside the unordered lock, a core that still takes its ticket or the one whose ticket, and then slot, is smallest does not poll (`SomebodyGoesOn`);
otherwise the ordered lock's word names a core that has not taken its turn and does not spin. `KernelServesInOrder` proves `ArrivalOrder`: `ArrivalInv` adds to `BakeryIInv`
that whoever had its ticket when `c` called the lock, and has not left since, keeps a ticket that `c` reads or has read, so that `c`'s becomes larger (`Larger`). What is excluded by the premises is what the two counterexamples show.

**`PlanMemoryProofs`.** For any number of buffers, sizes, lives and copies. `NoOverwrite` alone is not inductive: that a buffer does not
overlap an earlier one follows from the bounds it is put into, and what these tell after a roll back follows from what they told before the plan that
is taken back. So `IInv` says of every outline in the trail, and of the current one, that it covers the memory once and tells the lives of
the plans made up to then (`OutlinesTold`), that undoing the last plan of each gives the one before (`UndoGivesBack`), and what plans
record of their size (`RecordsSized`), that nothing is planned before the start (`StartsEmpty`), and that at the places of copies still to be
entered no buffer is planned that lives at the same time (`OthersFree`). The
geometry is in lemmas about one plan: what is left of the bounds around it (head, pieces, tail) still tiles the memory and loses
no life; erasing it and putting the replaced bounds back is the identity. A copy is entered without a look at the outline, but
its place was compared with all plans just before (`PlannedConflict`) and only its siblings were entered since: that is what `OthersFree` keeps.
`PlansNeverOverwrite`, `OutlineTellsPlans`, `RollBackIsExact` and `PlanTypeCorrect` follow. `PlansAreComplete`, that after a plan that ends well every copy of every buffer
has an address within the memory, that of its plan in the history, needs `CompleteInv`: the order of planning is the sorted one (`InOrder`), the statuses that plans of local and of
workspace memory pass through (`KindKnown`), every entry before the current one has a plan (`Progress`), the address of a plan is still that of its entry, its first copy and all
earlier entries being planned before it (`PlansKnown`), and the first copy is planned while further copies are due (`FirstPlanned`). The sums of sizes and the ranks in that order are recursive functions, whose existence is proved too.

Only model-checked: of the sync solver, that its assertions hold (`NeverAborts`) and that it settles (`NeverGivesUp`); of
`GraphSyncSolver`, that the generated code runs well (`Ordered`, `NoStuck`, `FlagsBalanced`; `PipeMachineProofs` says what to ask of that code); and the liveness properties. `LazyCheckSound`, `ShrinkKeepsColorable` and
`IdsInHardwareRange` are proved where they are true (their premises above are also those of the run that checks them, but for sizes).
Proved and in no run, because other proofs rest on them: `CoreHolds`, `NothingIsPassedOver`, `KeptGraphsTally` and the theorems on placement and coloring, `GraphWellFormed`, `GraphTypeCorrect`, `KernelTypeCorrect`, and of the locks by themselves `TurnsAreInOrder`, `TurnsAreNotLost`, `UnorderedIsExclusive` and `UnorderedTypeCorrect`.

Out of the prover's reach: `SearchEnds`, `AllReturn` and `Terminates` (liveness under fairness), `ENABLED` (`KernelIsNeverStuck` is about the guards spelled out),
and what the `RECURSIVE` operators of `SyncIr`, `SyncOrders` and `SyncCode` compute: that they build what `FunctionsAssumption` and `GroupsAssumption` ask is evaluated on the functions of the runs. The library's induction theorems take an operator as a parameter, which the installed provers cannot
instantiate; the proofs above do induction on *sets* instead (the numbers, or subsets of nodes, for which a statement holds), which reaches recursive functions.

## 5. Findings

1. **Two conflicts across the same sibling conditions race** (`sibling_ifs`). The extra pairs that stand for the mirrored
   set and wait in the else branches keep the parents of the pair they are cloned
   from, the true branches (`SyncSolverBase.cpp:2374`, from line 227). A later conflict between the true branches is then taken to
   be ordered by a set that does not run. It is the first version of the solver that meets this. V2 inserts the same pairs, but takes the conflicts
   in another order, and gave the later conflict a sync of its own in every small function tried. The passing end-to-end run therefore has no function with two
   conflicting pairs across one pair of sibling conditions. The random tests do not meet this: the option is for
   intra-core sync and the lit tests run the tester in cross-core mode.

2. **The free of an unordered lock clears another core's ticket** (`unordered_free`). In a mix module lock and
   unlock of an unordered lock use block and sub-block as index (`MarkSyncBlockLockWithSubblock.cpp:100`,
   `HIVMToStandard.cpp:1899-1904`), the free before the return only the block
   (`InsertFreeLockVarBeforeReturn.cpp:130`, `else if`). With two sub-blocks, block 1's free clears the slot
   of block 0's second sub-block, and a core that waited for that ticket goes in too. The comment at `SyncBlockLock.cpp:308` calls
   the free safe because it clears a ticket that is zero already.
3. **A lock limited to sub-block 0 is freed by the others** (`limited_free`). Inside an `scf.if` with
   `limit_sub_block_id0` the lock keeps the block as index. The free is outside of it, so that sub-block 1 takes, and ends, the turn of its block;
   sub-block 0, which spins in `sync_block_lock`, never sees its turn.
   The pass is there "to prevent deadlock when control flow skips sync_block_lock/unlock" (`Passes.td:1097`).
4. **A buffer follows a copy that was never planned** (`plan_memory_stale_copies`). Where copies are planned after all buffers
   (L1, L0C), the level that lets a single buffer follow a double one through all its copies takes
   `bitsOffset != 0` (`PlanMemory.cpp:2312`) to mean that a copy has its place already, as the comment at
   2331-2333 says. But the field still holds what the plan in unlimited memory, or a plan taken back since, left there.
   `SpecAllocRelationOtherBufferEntry` (2392) reserves nothing when no bound begins there, and
   `UpdateMultiBufferReuseExtraOffset` (1645) hands the address out all the same: another buffer lives there, or the memory ends before it. The
   developer guide (`plan_memory.md:28`, `:67`) promises that live buffers are never overwritten. `PlansNeverOverwrite` is not
   contradicted: it is about the plans that stand, and this address is not one.

Remarks without a run. With the round-robin order `getRoundRobinEventIds` searches up to and including `eventIdsNumMax`
(`EventIdSolver.cpp:331`, `347`), so that after the shrink the recalculation may use one id more than the maximum, against
`assert(eventIdSolver->isColorable())` (`SyncSolverBase.cpp:2844`): `ShrinkKeepsColorable` fails
with that order, two hardware ids and none reserved (an instance no run has). The ids that complete a reversed choice (`EventIdSolver.cpp:295-301`) may lie below, or repeat, ids already chosen,
against `assert(llvm::is_sorted(chosenEventIds))` (310). `isColorable` (`EventIdSolver.cpp:60`) compares the ids in use with the maximum and leaves
reserved ids out, so that a graph that needs all ids next to a reserved one is accepted and gets an id the hardware does not have; and with two ids, a
node pinned to id 0 and two more nodes joined by an edge no node is too heavy, though they need three (`LazyCheckSound` fails).
A reversed choice is completed (`EventIdSolver.cpp:295-301`) without looking at reserved ids, against
`EventIdSolver.h:208`. Both are properties of the model that fail as soon as an instance has such ids (`IdsInHardwareRange` with
`PinnedKinds` in the default order, `ReservedNotAssigned` with reversed pairs), and are why the theorems and the runs leave that combination out.

Suspected and not shown by a run: `ConflictPair::clone` does not copy
`mirrorSetIfOcc`/`mirrorWaitIfOcc`, so a sibling-condition pair that is reused loses the sync in its else branches
(modelled in `Extended`); and `checkMemoryConflicts` (`SyncSolverBase.cpp:679`) leaves an
empty entry in the cache that `getMemoryConflicts` reads, so that with unit flags a conflict first
looked at there is later taken to be none; the latter is to be modelled with the unit flags. `pipeDmaConflictMap`
(`PlanMemory.cpp:2548`) is keyed by addresses of entries, among them those of copies that are freed and made again, so an answer may be that of
another copy.

## 6. Mutants

Each property of a passing run has a mutant in `PROJECT.json`: a plausible bug in a
mapped definition (`Faulty...`, beside the definition it replaces) under which TLC finds the property violated.
Nothing else uses the `Faulty...` operators.

## 7. Running

    tlasany SyncSolver.tla
    tlc -workers 2 -config SyncSolver.cfg MCSyncSolver
    tlc -workers 2 -config PlanMemory.cfg MCPlanMemory
    tlapm EventIdSolverProofs.tla

The slowest run is `lock_kernel` (two minutes); the slowest proofs are `SyncSolverProofs` and `SyncCoverageProofs` (some ten minutes each).

## 8. Plan

Done: event-id solver with refinement and proofs; graph solver with proofs; pipe machine with proofs; solver IR,
placement, merging and retry loop in intra-core mode, with both versions of the solver, and proofs; composition with execution;
memory planning of one space with proofs; sync-block locks with proofs.

Left, in this order:

1. *Unit flags*: `GraphSolverUnitFlag.cpp`, `checkUnitFlagPatterns`, the memory-conflict cache.
2. *Cross-core mode*: `checkCrossCoreIntersect`, one shared event-id solver, temporary pairs, then delayed insertion with anchors.
3. *Layout of sync-block locks*: offsets from static counters of a pass that runs on functions in parallel
   (`LowerCreateSyncBlockLock.cpp:54-140`), and the counts given to the launcher by one half of a mix kernel
   (`InsertInferSyncBlockLockNumAndInitFunc.cpp:86-184`): locks must not overlap. Then the sync after a loop with an unordered lock.
4. *Memory planning, its inputs*: `MemLivenessAnalysis` and the merging of buffers that work in place, with the older `regbase/PlanMemory.cpp`.
5. *Custom macros*: boundary sync, pins compared across macros, internal slots.
6. *Static check of generated code.* `Synchronised` quantifies over all sets of instructions. An equivalent closure (the n-th
   wait of a flag needs its first n sets) lets many more functions be checked without
   interleavings, and `PipeMachineProofs` carries the result over to every order.
7. *InjectSync* event-id allocation and removal of redundant sync; multi-buffer counters.

Theorems to add: `NeverAborts`; properness with reversed pairs that fit; the closure of step 6 equals `Synchronised`.

## 9. Not modelled

The parts with status `not_modelled` in `PROJECT.json`: the cross-core solver, unit flags, InjectSync and block sync, multi-buffering and pipelining (planned, see
above, as far as they keep state), and the great rest of the repository, which is dialect definitions, conversions and rewriting patterns, the Triton and
HFusion front ends, template kernels, bindings and tools. A pattern there rewrites one operation and keeps nothing: what could
be wrong is the meaning of an operation, for which a model of states and steps has no use. That is by far most of the
lines, and why the models stand for a small share of them.
