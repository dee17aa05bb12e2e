---------------------------- MODULE GraphSolver ----------------------------
(***************************************************************************)
(* The reachability solver the sync solver asks before it adds a sync: is  *)
(* the order of two operations already enforced by the pairs chosen so far?*)
(*                                                                         *)
(* A chosen set/wait pair is an edge from the pipe of its set to the pipe  *)
(* of its wait, annotated with the program positions of both.  An order is *)
(* enforced when a barrier lies between the two operations or when a chain *)
(* of pairs leads from one to the other, each set standing no earlier than *)
(* the wait before it.  The chain is searched as Dijkstra does, by the     *)
(* position reached; one edge is relaxed per step, in any order, because   *)
(* the code iterates over hash tables.                                     *)
(***************************************************************************)
EXTENDS Integers, FiniteSets

CONSTANTS
    CorePipe,      \* the pipes of every core: records [core, pipe]
    PipeS,         \* the scalar pipe: it runs the program and issues the others
    PipeAll,       \* the pseudo pipe of a barrier over all pipes
    LastIndex,     \* the last program position
    Pairs,         \* the pairs that may be chosen
    MaxCopies,     \* bound: pairs with the same edge
    Queries        \* the questions asked: [src, dst, start, end]

Index == 0 .. LastIndex

(* What the graph keeps of a pair.  Edges of `temp' pairs live in a list of *)
(* their own and are dropped together.                                      *)
Pair == [src : CorePipe, dst : CorePipe, start : Index, end : Index,
         barrier : BOOLEAN, temp : BOOLEAN]

ASSUME GraphAssumption ==
    /\ LastIndex \in Nat /\ MaxCopies \in Nat
    /\ Pairs \subseteq Pair
    /\ \A p \in Pairs :
          /\ p.start <= p.end
          /\ p.barrier => p.src = p.dst /\ p.start = p.end /\ ~p.temp
    /\ Queries \subseteq [src : CorePipe, dst : CorePipe, start : Index, end : Index]
    /\ Queries # {}

VARIABLES
    count,     \* how often each pair is in the adjacency and barrier lists
    keys,      \* the pipes that have an entry in adjacencyList
    query,     \* the arguments of checkGraphConflict
    que,       \* the priority queue: <<index, pipe>>
    distance,  \* the lowest index known to be reached, Far when there is none
    todo,      \* the edges processAdjList has still to look at
    pc,        \* "idle", "search", or the answer: "barrier", "path" or "none"
    result     \* the index runDijkstra returns

vars == <<count, keys, query, que, distance, todo, pc, result>>
-----------------------------------------------------------------------------
Far     == LastIndex + 1
NoQuery == CHOOSE q \in Queries : TRUE

Present         == {p \in Pairs : count[p] > 0}
IsBarrierAll(p) == p.barrier /\ p.src.pipe = PipeAll

(* A barrier over all pipes is only an index; any other pair is an edge too.*)
Edges == {p \in Present : ~IsBarrierAll(p)}

(* checkAnyBarrierAllBetween and checkAnyBarrierBetween.                    *)
BarrierBetween(q) ==
    \E b \in Present :
        /\ b.barrier
        /\ q.start <= b.start /\ b.start <= q.end
        /\ IsBarrierAll(b) \/ (q.src = q.dst /\ b.src = q.src)

Init ==
    /\ count = [p \in Pairs |-> 0]
    /\ keys = {}
    /\ query = NoQuery
    /\ que = {} /\ todo = {}
    /\ distance = [k \in CorePipe |-> Far]
    /\ pc = "idle"
    /\ result = Far

Locals == <<query, que, distance, todo, pc, result>>

InsertConflictPair(p) ==
    /\ pc = "idle"
    /\ count[p] < MaxCopies
    /\ count' = [count EXCEPT ![p] = @ + 1]
    /\ keys' = IF p.temp \/ IsBarrierAll(p) THEN keys ELSE keys \cup {p.src}
    /\ UNCHANGED Locals

EraseConflictPair(p) ==
    /\ pc = "idle"
    /\ count[p] > 0
    /\ count' = [count EXCEPT ![p] = @ - 1]
    /\ UNCHANGED <<keys, Locals>>

ClearTemp ==
    /\ pc = "idle"
    /\ \E p \in Present : p.temp
    /\ count' = [p \in Pairs |-> IF p.temp THEN 0 ELSE count[p]]
    /\ UNCHANGED <<keys, Locals>>

(* checkGraphConflict: a barrier answers at once, else the search begins.   *)
CheckGraphConflict(q) ==
    /\ pc = "idle"
    /\ query' = q
    /\ pc' = IF BarrierBetween(q) THEN "barrier" ELSE "search"
    /\ que' = IF BarrierBetween(q) THEN {} ELSE {<<q.start, q.src>>}
    /\ UNCHANGED <<count, keys, distance, todo, result>>
-----------------------------------------------------------------------------
FaultyTop(e) == e \in que

Top(e) == e \in que /\ \A f \in que : e[1] <= f[1]

Reached(k) == distance[k] # Far

(* The popped element answers the question: its pipe was reached and is the *)
(* one asked for, or the scalar pipe of that core, which every later        *)
(* operation of the core waits for; a barrier pipe needs no edge.           *)
Answers(k) ==
    \/ Reached(k) /\ k = query.dst
    \/ /\ k.core = query.dst.core
       /\ (Reached(k) /\ k.pipe = PipeS) \/ k.pipe = PipeAll

FaultyStarts(k) == {k}

(* The pipes whose edges continue from k: the scalar pipe, once reached,    *)
(* issues to every pipe of its core that adjacencyList has an entry for.    *)
Starts(k) ==
    {k} \cup {s \in keys : Reached(k) /\ k.pipe = PipeS /\ s.core = k.core}

FaultyFits(e, i) == e.start >= i

Fits(e, i) == e.start >= i /\ e.end <= query.end

PopStale ==
    /\ pc = "search" /\ todo = {}
    /\ \E e \in que :
          /\ Top(e)
          /\ Reached(e[2]) /\ distance[e[2]] < e[1]
          /\ que' = que \ {e}
    /\ UNCHANGED <<count, keys, query, distance, todo, pc, result>>

PopAnswer ==
    /\ pc = "search" /\ todo = {}
    /\ \E e \in que :
          /\ Top(e)
          /\ ~(Reached(e[2]) /\ distance[e[2]] < e[1])
          /\ Answers(e[2])
          /\ que' = que \ {e}
          /\ result' = e[1]
    /\ pc' = "path"
    /\ UNCHANGED <<count, keys, query, distance, todo>>

PopExpand ==
    /\ pc = "search" /\ todo = {}
    /\ \E e \in que :
          /\ Top(e)
          /\ ~(Reached(e[2]) /\ distance[e[2]] < e[1])
          /\ ~Answers(e[2])
          /\ que' = que \ {e}
          /\ todo' = {f \in Edges : f.src \in Starts(e[2]) /\ Fits(f, e[1])}
          /\ keys' = keys \cup {e[2]}
    /\ UNCHANGED <<count, query, distance, pc, result>>

FaultyImprovesTies(e)  == distance[e.dst] >= e.end
Improves(e) == distance[e.dst] > e.end

(* One edge of processAdjList.                                              *)
Relax(e) ==
    /\ pc = "search"
    /\ e \in todo
    /\ todo' = todo \ {e}
    /\ IF Improves(e)
       THEN /\ distance' = [distance EXCEPT ![e.dst] = e.end]
            /\ que' = que \cup {<<e.end, e.dst>>}
       ELSE UNCHANGED <<distance, que>>
    /\ UNCHANGED <<count, keys, query, pc, result>>

NotFound ==
    /\ pc = "search" /\ todo = {} /\ que = {}
    /\ pc' = "none"
    /\ UNCHANGED <<count, keys, query, que, distance, todo, result>>

(* The caller has the answer; the locals of the search are gone.            *)
Return ==
    /\ pc \in {"barrier", "path", "none"}
    /\ pc' = "idle"
    /\ que' = {} /\ todo' = {}
    /\ distance' = [k \in CorePipe |-> Far]
    /\ query' = NoQuery
    /\ result' = Far
    /\ UNCHANGED <<count, keys>>

Search == PopStale \/ PopAnswer \/ PopExpand \/ (\E e \in Pairs : Relax(e)) \/ NotFound

Next ==
    \/ \E p \in Pairs : InsertConflictPair(p) \/ EraseConflictPair(p)
    \/ ClearTemp
    \/ \E q \in Queries : CheckGraphConflict(q)
    \/ Search
    \/ Return

Spec == Init /\ [][Next]_vars

(* checkGraphConflict is a plain call: once begun it runs to its answer.    *)
FairSpec == Spec /\ WF_vars(Search)
-----------------------------------------------------------------------------
(***************************************************************************)
(* The reference: an edge is on a chain when it is in every set that has   *)
(* the edges a chain may begin with and, with an edge, those that may      *)
(* follow it.  `temps' says whether a temporary edge may follow the scalar *)
(* pipe: the search only tries it when adjacencyList knows its pipe.       *)
(***************************************************************************)
Begins(q, f) == f.src = q.src /\ f.start >= q.start /\ f.end <= q.end

Follows(q, e, f, temps) ==
    /\ f.start >= e.end /\ f.end <= q.end
    /\ \/ f.src = e.dst
       \/ /\ e.dst.pipe = PipeS /\ f.src.core = e.dst.core
          /\ temps \/ ~f.temp

Closed(q, R, temps) ==
    /\ \A f \in Edges : Begins(q, f) => f \in R
    /\ \A e \in R, f \in Edges : Follows(q, e, f, temps) => f \in R

OnChain(q, e, temps) ==
    \A R \in SUBSET Edges : Closed(q, R, temps) => e \in R

Ends(q, e) ==
    \/ e.dst = q.dst
    \/ e.dst.core = q.dst.core /\ e.dst.pipe \in {PipeS, PipeAll}

FromBarrierPipe(q) == q.src.core = q.dst.core /\ q.src.pipe = PipeAll

TypeOK ==
    /\ count \in [Pairs -> 0 .. MaxCopies]
    /\ keys \subseteq CorePipe
    /\ query \in Queries
    /\ que \subseteq Index \X CorePipe
    /\ distance \in [CorePipe -> 0 .. Far]
    /\ todo \subseteq Edges
    /\ pc \in {"idle", "search", "barrier", "path", "none"}
    /\ result \in 0 .. Far

(* A sync is left out only when a chain of chosen pairs already enforces    *)
(* the order, and the index returned is where that chain arrives.           *)
PathIsReal ==
    pc = "path" =>
        \/ FromBarrierPipe(query) /\ result = query.start
        \/ \E e \in Edges : /\ OnChain(query, e, TRUE)
                            /\ Ends(query, e) /\ e.end = result

(* No sync is added for an order that is already enforced: when the search  *)
(* gives up there is no chain.                                              *)
NoneIsReal ==
    pc = "none" =>
        /\ ~FromBarrierPipe(query)
        /\ \A e \in Edges : OnChain(query, e, FALSE) => ~Ends(query, e)

(* The index returned is the minimal reachable one, as GraphSolver.h says.  *)
ResultIsLeast ==
    pc = "path" =>
        \A e \in Edges :
            OnChain(query, e, FALSE) /\ Ends(query, e) => result <= e.end

(* Every question is answered: no cycle of edges keeps the search alive.    *)
SearchEnds == (pc = "search") ~> (pc # "search")
=============================================================================
