------------------------------ MODULE SyncTree ------------------------------
(***************************************************************************)
(* The trees of a function that the sync solver works on: its operations,  *)
(* and their occurrences, in which every loop body appears twice, once for *)
(* an iteration and once for a later one.  A tree is a sequence of records *)
(* in pre-order, so "before in the program" is < and the deepest of some   *)
(* ancestors is the largest; a record names its parent and `up', the set   *)
(* of all its proper ancestors.                                            *)
(*                                                                         *)
(* SyncIr builds the trees.  Here is what the solver relies on in them.    *)
(***************************************************************************)
EXTENDS Integers, Sequences, FiniteSets, SequencesExt

Top == 0   \* the parent of the root

(* The numbers up to n that are in S, in order.                             *)
InOrder(S, n) == SelectSeq([i \in 1 .. n |-> i], LAMBDA i : i \in S)

ChildrenOf(t, x) == InOrder({c \in DOMAIN t : t[c].parent = x}, Len(t))

IsScope(ops, x) == ops[x].kind \in {"function", "scope", "block", "loop", "if"}
IsRw(ops, x)    == ops[x].kind = "rw"
KindOf(ir, k)   == ir.op[ir.occ[k].op].kind

Deepest(S) == IF S = {} THEN Top ELSE CHOOSE x \in S : \A y \in S : y <= x

(* The child of c that is a, or contains it.                                *)
Toward(t, c, a) == CHOOSE x \in {a} \cup t[a].up : t[x].parent = c

ParentLoopOp(ops, x) == Deepest({y \in ops[x].up : ops[y].kind = "loop"})
ParentLoopOcc(ir, k) == Deepest({y \in ir.occ[k].up : KindOf(ir, y) = "loop"})

ScopeBegin(k)    == k + 1
ScopeEnd(ir, k)  == ir.occ[k].last - 1
BeforeLoop(k)    == k - 1
AfterLoop(ir, k) == ir.occ[k].last

(* From a place in the first visit of loop l to the same in the second.     *)
Shift(ir, l) == ir.occ[l].split - (l + 1)
-----------------------------------------------------------------------------
(* In pre-order: the ancestors of one are those of the next above it.       *)
IsTree(t) ==
    /\ Len(t) \in Nat \ {0} /\ DOMAIN t = 1 .. Len(t)
    /\ \A k \in DOMAIN t :
          /\ t[k].up \subseteq 1 .. k - 1 /\ t[k].parent = Deepest(t[k].up)
          /\ k > 1 => 1 \in t[k].up
          /\ \A x \in t[k].up :
                /\ t[x].up = {y \in t[k].up : y < x}
                /\ \A j \in x + 1 .. k : x \in t[j].up

(* `start' and `end' are ticks of one clock; `last' follows the subtree.    *)
IsTimed(t) ==
    \A k \in DOMAIN t :
        /\ t[k].start \in Nat /\ t[k].end \in Nat /\ t[k].start < t[k].end
        /\ t[k].last \in k + 1 .. Len(t) + 1
        /\ \A j \in DOMAIN t : k \in t[j].up <=> j \in k + 1 .. t[k].last - 1
        /\ \A x \in t[k].up : t[x].start < t[k].start /\ t[k].end < t[x].end
        /\ \A j \in 1 .. k - 1 : j \in t[k].up \/ t[j].end < t[k].start

(* An occurrence is inside occurrences of what its operation is inside.     *)
IsUnrolled(ir) ==
    \A k \in DOMAIN ir.occ :
        /\ ir.occ[k].op \in DOMAIN ir.op
        /\ {ir.occ[x].op : x \in ir.occ[k].up} = ir.op[ir.occ[k].op].up
        /\ \A x \in ir.occ[k].up : IsScope(ir.op, ir.occ[x].op)

(* Of a loop or a condition, the children are scopes that begin and end     *)
(* with a placeholder; within one visit they come in program order.         *)
IsScoped(ir) ==
    \A k \in DOMAIN ir.occ \ {1} :
        LET par == ir.occ[k].parent
        IN  /\ KindOf(ir, k) # "function"
            /\ KindOf(ir, par) \in {"loop", "if"} =>
                  /\ KindOf(ir, k) = "scope"
                  /\ ScopeBegin(k) < ScopeEnd(ir, k)
                  /\ \A e \in {<<"begin", ScopeBegin(k)>>, <<"end", ScopeEnd(ir, k)>>} :
                        ir.occ[e[2]].parent = k /\ KindOf(ir, e[2]) = e[1]
            /\ \A j \in par + 1 .. k - 1 :
                  /\ ir.occ[j].parent = par
                  /\ KindOf(ir, par) = "loop" => (j < ir.occ[par].split <=> k < ir.occ[par].split)
                  => ir.occ[j].op < ir.occ[k].op

(* Placeholders before and after a loop, and between them two visits alike. *)
IsVisitedTwice(ir, l) ==
    LET t == ir.occ
        n == Shift(ir, l)
    IN  /\ BeforeLoop(l) \in DOMAIN t /\ AfterLoop(ir, l) \in DOMAIN t
        /\ \A e \in {<<"before", BeforeLoop(l)>>, <<"after", AfterLoop(ir, l)>>} :
              t[e[2]].parent = t[l].parent /\ KindOf(ir, e[2]) = e[1]
        /\ t[l].split \in l + 2 .. t[l].last - 1 /\ t[l].last = t[l].split + n
        /\ \A j \in l + 1 .. t[l].split - 1 :
              /\ t[j + n].op = t[j].op
              /\ t[j + n].start - t[j].start = t[t[l].split].start - t[l + 1].start
              /\ t[j + n].end - t[j].end = t[t[l].split].start - t[l + 1].start

(* Of a condition, the true branch and then another.                        *)
IsBranching(ir, c) ==
    /\ c + 1 \in DOMAIN ir.occ /\ ir.occ[c + 1].parent = c
    /\ ir.occ[c + 1].last \in DOMAIN ir.occ /\ ir.occ[ir.occ[c + 1].last].parent = c

WellBuilt(ir) ==
    /\ IsTree(ir.op) /\ IsTree(ir.occ) /\ IsTimed(ir.occ)
    /\ IsUnrolled(ir) /\ KindOf(ir, 1) = "function" /\ IsScoped(ir)
    /\ \A k \in DOMAIN ir.occ :
          /\ KindOf(ir, k) = "loop" => IsVisitedTwice(ir, k)
          /\ KindOf(ir, k) = "if"   => IsBranching(ir, k)
    /\ \A x \in DOMAIN ir.op : IsRw(ir.op, x) =>
          ir.op[x].rd \in Seq(Int) /\ ir.op[x].wr \in Seq(Int)
=============================================================================
