---------------------------- MODULE MCPlanMemory ----------------------------
(* Instances for PlanMemory: three buffers in a memory that holds two of   *)
(* them side by side.                                                      *)
EXTENDS PlanMemory

Buffer(bits, life, num, loop, pipes, unique) ==
    [bits |-> bits, life |-> life, num |-> num, loop |-> loop, pipes |-> pipes,
     memoryUnique |-> unique]

LocalJob(maxBits, buffers, inplacable, continuous, split) ==
    [kind |-> "local", maxBits |-> maxBits, buffers |-> buffers,
     inplacable |-> inplacable, continuous |-> continuous, splitOutline |-> split]

(* Buffers of one loop, single or double: the first is double-buffered.    *)
Plain(nums, pipes) ==
    {Buffer(bits, {life}, num, 1, {pipe}, FALSE) :
        bits \in 1 .. 2, life \in {<<0, 1>>, <<0, 3>>, <<2, 5>>}, num \in nums, pipe \in pipes}
Doubles == {<<a, b, c>> : a \in Plain({2}, {"dma"}),
                          b \in Plain({2}, {"dma"}) \cup Plain({1}, {"vector"}),
                          c \in Plain({1}, {"dma", "vector"})}

(* All kinds of buffers: lives of two parts, three copies, no loop, scalar *)
(* pipe, memory of their own; two touch at time 2 and may work in place.   *)
Kinds ==
    {Buffer(1, {<<0, 1>>, <<4, 5>>}, 1, 0, {"vector"}, FALSE),
     Buffer(2, {<<0, 2>>}, 2, 1, {"dma"}, FALSE),
     Buffer(1, {<<2, 4>>}, 1, 1, {"scalar"}, FALSE),
     Buffer(2, {<<2, 5>>}, 1, 1, {"dma", "vector"}, FALSE),
     Buffer(1, {<<0, 2>>}, 1, 0, {"dma"}, TRUE),
     Buffer(1, {<<1, 3>>}, 3, 1, {"dma"}, FALSE)}
Mixed == Kinds \X Kinds \X Kinds

MCJobs ==
    {LocalJob(4, buffers, {}, continuous, FALSE) :
        buffers \in Doubles, continuous \in BOOLEAN}
    \cup {LocalJob(5, buffers, mates, continuous, split) :
             buffers \in Mixed, mates \in {{}, {{1, 2}, {2, 3}}},
             continuous \in BOOLEAN, split \in BOOLEAN}
    \cup {[LocalJob(5, buffers, {}, FALSE, FALSE) EXCEPT !.kind = kind] :
             buffers \in Mixed, kind \in {"workspace", "workspaceNoReuse"}}
    \cup {LocalJob(1, <<Buffer(2, {<<0, 2>>}, 1, 1, {"dma"}, FALSE)>>, {}, FALSE, FALSE)}

(* The copies of the first buffer are planned after the third one, which   *)
(* follows it at level 1 into the addresses the plan in unlimited memory   *)
(* gave them: where another buffer lives, or beyond the memory.            *)
StaleJobs ==
    {LocalJob(4, <<Buffer(1, {<<3, 5>>}, 2, 1, {"vector"}, FALSE),
                   Buffer(1, {<<0, 2>>}, 2, 1, {"dma"}, FALSE),
                   Buffer(1, {<<0, 2>>}, 1, 1, {"dma"}, FALSE)>>, {}, FALSE, FALSE),
     LocalJob(6, <<Buffer(3, {<<0, 1>>}, 2, 1, {"dma"}, FALSE),
                   Buffer(3, {<<3, 5>>}, 1, 1, {"dma"}, FALSE),
                   Buffer(1, {<<2, 3>>}, 1, 1, {"vector"}, FALSE)>>, {}, FALSE, TRUE)}
=============================================================================
