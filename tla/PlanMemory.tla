----------------------------- MODULE PlanMemory -----------------------------
(***************************************************************************)
(* Memory planning (MemPlan): every buffer of one memory space of a kernel *)
(* gets an address, so that buffers that live at the same time never share *)
(* memory.                                                                 *)
(*                                                                         *)
(* When all buffers fit side by side they are laid out in a row.           *)
(* Otherwise they are planned one after the other, each at the first place *)
(* that passes the checks of a level: 3 and 2 keep pipes from waiting for  *)
(* each other, 1 lets a buffer follow a double-buffered one through all of *)
(* its copies, 0 only asks that the lives do not meet.  A first plan is    *)
(* made at level 3 in memory without end; when it is too large, a second   *)
(* one in the memory there is.  There a buffer that fits nowhere takes     *)
(* back the buffers planned before it, until one of them can be planned    *)
(* again at a lower level; when none can, the plan starts once more with   *)
(* an outline that is kept piece by piece (splitOutline).                  *)
(*                                                                         *)
(* Workspaces are planned in memory without end, too.                      *)
(*                                                                         *)
(* The list of memory bounds is a set here: a bound says where it begins.  *)
(* Sizes and offsets are counted in units of the alignment.                *)
(***************************************************************************)
EXTENDS Integers, Sequences, FiniteSets, FiniteSetsExt

CONSTANTS
    Jobs,      \* what can be planned: see Job
    MaxNum,    \* bound: copies of one buffer
    Unlimited  \* UINT64_MAX bits: more than all buffers of a job need

(* A buffer: its size, the times at which it lives (a set of intervals,    *)
(* from the operation that writes it first to the one that reads it last), *)
(* how many copies multi-buffering wants, the loop it is allocated in (0:  *)
(* none or several), the kinds of pipes that touch it and whether its      *)
(* memory must be its own.                                                 *)
Interval == {v \in Nat \X Nat : v[1] <= v[2]}
BufferInfo == [bits : Nat \ {0}, life : SUBSET Interval, num : 1 .. MaxNum,
               loop : Nat, pipes : SUBSET {"dma", "scalar", "vector"},
               memoryUnique : BOOLEAN]

(* A job: what is planned (the buffers of a memory of the core, workspaces *)
(* with reuse, workspaces without), the size of the memory, its buffers in *)
(* the order in which they are planned, the pairs that may work in place,  *)
(* whether the copies of a buffer follow it at once (unified buffer) or    *)
(* come after all buffers, and whether an earlier space has switched       *)
(* splitOutline on.                                                        *)
Job == [kind : {"local", "workspace", "workspaceNoReuse"},
        maxBits : Nat \ {0}, buffers : Seq(BufferInfo), inplacable : SUBSET SUBSET Nat,
        continuous : BOOLEAN, splitOutline : BOOLEAN]

ASSUME JobsAssumption ==
    /\ MaxNum \in Nat \ {0}
    /\ Unlimited \in Nat \ {0}
    /\ Jobs \subseteq Job
    /\ \A j \in Jobs : Len(j.buffers) > 0

NoEntry == <<0, 0>>
NoAddr  == -1           \* UINT64_MAX, the rollback address of no entry
Levels  == 0 .. 3

VARIABLES
    job,          \* the job being planned
    order,        \* the root entry and its mergedChildren
    status,       \* where PlanMemAddressOfWholeLocalBuffer is
    outline,      \* the memory bounds: [offset, extent, life, last]
    his,          \* the plans made so far, latest last
    trail,        \* history variable: trail[i] is the outline before his[i]
    si,           \* SpecInfo
    needBits,     \* size of the entry for which plans are taken back
    bitsOffset,   \* entry -> its address
    applied,      \* entry -> appliedSpecLevel
    extra,        \* buffer -> copies added to it by reuse at level 1
    others,       \* the copies of an entry that are still to be entered
    splitOutline

vars == <<job, order, status, outline, his, trail, si, needBits, bitsOffset, applied,
          extra, others, splitOutline>>

-----------------------------------------------------------------------------
(* Entries.  <<b, 0>> is the entry of buffer b, <<b, k>> the entry of copy *)
(* k: one of the num - 1 further copies it was given, or one that reuse of *)
(* a double buffer adds (firstBufferEntry2RelationOtherBufferEntry).       *)

Buffers  == 1 .. Len(job.buffers)
Info(e)  == job.buffers[e[1]]
Bits(e)  == Info(e).bits
Entries  == {e \in Buffers \X (0 .. MaxNum - 1) : e[2] < Info(e).num}
AllEntries == Buffers \X (0 .. MaxNum - 1)
Total    == MapThenSumSet(Bits, Entries)

(* The order of planning: ExpandMultiBufferStorageEntry appends the copies *)
(* after all buffers, the reordering of the unified buffer moves them next *)
(* to theirs.                                                              *)
Lexicographic(e, f) == e[1] < f[1] \/ (e[1] = f[1] /\ e[2] < f[2])
Precedes(e, f) ==
    IF job.continuous \/ (e[2] > 0 /\ f[2] > 0) \/ (e[2] = 0 /\ f[2] = 0)
    THEN Lexicographic(e, f)
    ELSE e[2] = 0
Order == LET before(e) == Cardinality({f \in Entries : Precedes(f, e)})
         IN  [i \in 1 .. Cardinality(Entries) |-> CHOOSE e \in Entries : before(e) = i - 1]

(* The root comes first and has child index -1. *)
EntryAt(i)    == order[i + 2]
ChildrenNum   == Len(order) - 1

-----------------------------------------------------------------------------
(* Lives.  The life of a bound is a set of pieces, each with the buffer it *)
(* comes from.  The code merges pieces that touch; a merged piece goes by  *)
(* the buffer of its first part.                                           *)

Pieces(b)   == {[buffer |-> b, lo |-> v[1], hi |-> v[2]] : v \in job.buffers[b].life}
Times(life) == UNION {p.lo .. p.hi : p \in life}

Earlier(p, q) == p.lo < q.lo \/ (p.lo = q.lo /\ p.hi <= q.hi)
First(life)   == CHOOSE p \in life : \A q \in life : Earlier(p, q)
(* The buffer by which the merged piece at time t goes. *)
MergedName(life, t) ==
    LET run == {p \in life : (p.lo .. t) \subseteq Times(life)}
    IN  First(run).buffer

(* Two consecutive times at which buffer b and the life meet: an overlap   *)
(* whose allocTime and freeTime differ.                                    *)
OverlapsLong(b, life) ==
    \E v \in job.buffers[b].life :
        \E t \in v[1] .. v[2] - 1 : {t, t + 1} \subseteq Times(life)

IsInplacable(b, c) == {b, c} \in job.inplacable

(* VerifyConflictStage0 *)
LifeConflict(b, life) ==
    /\ life # {}
    /\ \/ job.buffers[b].memoryUnique
       \/ job.buffers[First(life).buffer].memoryUnique
       \/ OverlapsLong(b, life)
       \/ \E t \in Times(Pieces(b)) \cap Times(life) :
              ~IsInplacable(b, MergedName(life, t))

-----------------------------------------------------------------------------
(* Pipes and loops *)

(* BufferPipeConflict, of any two buffers of the entries *)
PipeConflict(e, f) ==
    \E p \in Info(e).pipes, q \in Info(f).pipes :
        IF "scalar" \in {p, q} THEN p # q ELSE "dma" \in {p, q}

PipeConflictInSameLoop(e, f) == Info(e).loop = Info(f).loop

Overlap(o1, n1, o2, n2) == o1 + n1 > o2 /\ o1 < o2 + n2

(* VerifyConflictStage2 and 3: nothing planned there before may conflict.  *)
StallConflict(e, offset, level) ==
    \E i \in DOMAIN his :
        /\ Overlap(his[i].offset, his[i].allExtent, offset, Bits(e))
        /\ \/ level = 3 /\ PipeConflict(his[i].entry, e)
           \/ level = 2 /\ PipeConflictInSameLoop(his[i].entry, e)

-----------------------------------------------------------------------------
(* Reuse of a double buffer, VerifyConflictStage1 *)

(* The further copies of the entry of a buffer that have an address: any   *)
(* address but 0.                                                          *)
OtherCopies(f) ==
    LET num == Info(f).num
        ks  == IF f[2] > 0 THEN {}
               ELSE IF num > 1 THEN 1 .. num - 1 ELSE extra[f[1]]
    IN  {k \in ks : bitsOffset[<<f[1], k>>] # 0}

SortedSeq(S) == [i \in 1 .. Cardinality(S) |->
                    CHOOSE k \in S : Cardinality({l \in S : l < k}) = i - 1]

OtherOffsets(f) ==
    LET ks == SortedSeq(OtherCopies(f))
    IN  [i \in DOMAIN ks |-> bitsOffset[<<f[1], ks[i]>>]]

(* Mutant: the addresses of the copies are taken without a look at the     *)
(* plans that stand there.                                                 *)
FaultyPlannedConflict(e, offset) == FALSE

(* IsBufferLifeVecConflict *)
PlannedConflict(e, offset) ==
    \E i \in DOMAIN his :
        /\ Overlap(his[i].offset, his[i].allExtent, offset, Bits(e))
        /\ Times(Pieces(e[1])) \cap Times(Pieces(his[i].entry[1])) # {}

CanFollow(e, f) ==
    LET n == Cardinality(OtherCopies(f))
    IN  /\ f # NoEntry
        /\ n > 0
        /\ Info(e).loop # 0 /\ Info(e).loop = Info(f).loop
        /\ Info(e).num > 1 => n >= Info(e).num - 1 /\ e[2] = 0
        /\ \A i \in 1 .. n : ~PlannedConflict(e, OtherOffsets(f)[i])

-----------------------------------------------------------------------------
(* Places.  The code walks the list from every bound on, adds extents up   *)
(* until the entry fits and jumps ahead when a bound stands in the way;    *)
(* what it finds is the first bound at which all checks pass: the bounds   *)
(* it jumps over would meet the same obstacle.                             *)

Window(offset, bits) == {b \in outline : offset <= b.offset /\ b.offset < offset + bits}
EndOf(b) == b.offset + b.extent
(* The last bound of a window that is long enough. *)
Reaching(W, end) == {b \in W : EndOf(b) >= end}

(* IsSamePlanAsLastRollBack *)
SamePlan(offset) == si.childIdx = si.rollbackIdx /\ offset = si.rollbackAddr

Fits(e, start, level) ==
    LET W == Window(start.offset, Bits(e))
    IN  /\ ~SamePlan(start.offset)
        /\ Reaching(W, start.offset + Bits(e)) # {}
        /\ \A b \in W : ~LifeConflict(e[1], b.life)
        /\ level = 1 => W = {start} /\ CanFollow(e, start.last)
        /\ ~StallConflict(e, start.offset, level)

Places(e, level) == {b \in outline : Fits(e, b, level)}
(* Mutant: a buffer with a plan makes its copies count as planned. *)
FaultyPlanned(e) == \E i \in DOMAIN his : his[i].entry[1] = e[1]

Planned(e) == \E i \in DOMAIN his : his[i].entry = e

-----------------------------------------------------------------------------
(* UpdateOutline: the bounds of the window are replaced by the entry's and *)
(* by what is left of the last one.                                        *)

Split(e, offset) ==
    LET W    == Window(offset, Bits(e))
        end  == offset + Bits(e)
        life == Pieces(e[1])
    IN  IF splitOutline
        THEN {[offset |-> b.offset,
               extent |-> IF EndOf(b) >= end THEN end - b.offset ELSE b.extent,
               life   |-> life \cup b.life, last |-> e] : b \in W}
        ELSE {[offset |-> offset, extent |-> Bits(e),
               life |-> life \cup UNION {b.life : b \in W}, last |-> e]}

(* Mutant: a tail is left of a bound that ends where the entry ends. *)
EmptyRest(e, offset) ==
    LET end == offset + Bits(e)
    IN  {[offset |-> end, extent |-> EndOf(b) - end, life |-> b.life, last |-> b.last] :
            b \in Reaching(Window(offset, Bits(e)), end)}

(* Mutant: the tail of a split bound forgets the life of the bound. *)
FaultyRest(e, offset) ==
    LET end == offset + Bits(e)
    IN  {[offset |-> end, extent |-> EndOf(b) - end, life |-> {}, last |-> b.last] :
            b \in Reaching(Window(offset, Bits(e)), end + 1)}

Rest(e, offset) ==
    LET end == offset + Bits(e)
    IN  {[offset |-> end, extent |-> EndOf(b) - end, life |-> b.life, last |-> b.last] :
            b \in Reaching(Window(offset, Bits(e)), end + 1)}

Record(e, offset, level, directly) ==
    [entry |-> e, offset |-> offset, allExtent |-> Bits(e), specLevel |-> level,
     childIdx |-> si.childIdx, tailed |-> Rest(e, offset) # {},
     replaced |-> Window(offset, Bits(e)), isDirectlyRollback |-> directly]

UpdateOutline(e, offset, level, directly) ==
    /\ outline' = (outline \ Window(offset, Bits(e))) \cup Split(e, offset) \cup Rest(e, offset)
    /\ his' = Append(his, Record(e, offset, level, directly))
    /\ trail' = Append(trail, outline)
    /\ applied' = [applied EXCEPT ![e] = level]

(* Mutant: the tail is not erased. *)
FaultyRollbackOutline(r) ==
    {b \in outline : b.offset < r.offset \/ b.offset >= r.offset + r.allExtent} \cup r.replaced

(* RollbackOutline: erases the record's bounds and its tail, and puts back *)
(* what they replaced.                                                     *)
RollbackOutline(r) ==
    LET end == r.offset + r.allExtent
        erased == {b \in outline : \/ r.offset <= b.offset /\ b.offset < end
                                   \/ r.tailed /\ b.offset = end}
    IN  (outline \ erased) \cup r.replaced

-----------------------------------------------------------------------------
(* Actions *)

SpaceBits == IF status \in {"single", "workspace"} THEN Unlimited ELSE job.maxBits
WholeSpace(bits) == {[offset |-> 0, extent |-> bits, life |-> {}, last |-> NoEntry]}
MaxOf(a, b) == IF a >= b THEN a ELSE b

SpecInfo(level) == [specLevel |-> level, childIdx |-> -1, specStartIdx |-> 0,
                    rollbackIdx |-> -1, rollbackAddr |-> NoAddr]

Init ==
    /\ job \in Jobs
    /\ order = Order
    /\ status = "start"
    /\ outline = {} /\ his = <<>> /\ trail = <<>>
    /\ si = SpecInfo(3)
    /\ needBits = 0
    /\ bitsOffset = [e \in AllEntries |-> 0]
    /\ applied = [e \in AllEntries |-> -1]
    /\ extra = [b \in Buffers |-> {}]
    /\ others = [first |-> NoEntry, copies |-> {}]
    /\ splitOutline = job.splitOutline

(* PlanBuffersWithoutReuse, GlobalWorkspaceNoReuse: all buffers in a row.  *)
PlanWithoutReuse ==
    /\ status = "start"
    /\ job.kind = "workspaceNoReuse" \/ (job.kind = "local" /\ Total <= job.maxBits)
    /\ bitsOffset' = [e \in AllEntries |->
           IF e \in Entries THEN MapThenSumSet(Bits, {f \in Entries : Precedes(f, e)})
           ELSE 0]
    /\ status' = "done"
    /\ UNCHANGED <<job, order, outline, his, trail, si, needBits, applied, extra, others,
                   splitOutline>>

(* A single buffer that is larger than the memory. *)
OneTooLarge ==
    /\ status = "start" /\ job.kind = "local" /\ Total > job.maxBits /\ ChildrenNum = 0
    /\ status' = "failed"
    /\ UNCHANGED <<job, order, outline, his, trail, si, needBits, bitsOffset, applied, extra,
                   others, splitOutline>>

(* PlanMemAddressForSingleLevel begins. *)
StartSingleLevel ==
    /\ status = "start" /\ job.kind = "local" /\ Total > job.maxBits /\ ChildrenNum > 0
    /\ status' = "single"
    /\ outline' = WholeSpace(Unlimited)
    /\ UNCHANGED <<job, order, his, trail, si, needBits, bitsOffset, applied, extra, others,
                   splitOutline>>

(* PlanMemOffsetOfWholeWorkSpace begins, at the lowest level; from the     *)
(* third buffer on the plan is at the highest again.                       *)
StartWorkspace ==
    /\ status = "start" /\ job.kind = "workspace"
    /\ status' = "workspace"
    /\ outline' = WholeSpace(Unlimited)
    /\ si' = SpecInfo(0)
    /\ UNCHANGED <<job, order, his, trail, needBits, bitsOffset, applied, extra, others,
                   splitOutline>>

(* The plan in unlimited memory is complete: keep it, or plan once more in *)
(* the memory there is. Addresses and levels of the first plan stay.       *)
SingleLevelDone ==
    /\ status = "single" /\ si.childIdx >= ChildrenNum
    /\ IF \A e \in Entries : bitsOffset[e] + Bits(e) <= job.maxBits
       THEN /\ status' = "done"
            /\ UNCHANGED <<outline, his, trail, si>>
       ELSE /\ status' = "multi"
            /\ outline' = WholeSpace(job.maxBits)
            /\ his' = <<>> /\ trail' = <<>>
            /\ si' = SpecInfo(3)
    /\ UNCHANGED <<job, order, needBits, bitsOffset, applied, extra, others, splitOutline>>

MultiLevelDone ==
    /\ status \in {"multi", "workspace"} /\ others.copies = {} /\ si.childIdx >= ChildrenNum
    /\ status' = "done"
    /\ UNCHANGED <<job, order, outline, his, trail, si, needBits, bitsOffset, applied, extra,
                   others, splitOutline>>

CurEntry == EntryAt(si.childIdx)
MinLevel == IF status = "single" THEN 3 ELSE 0
HasPlace(e) == \E l \in MinLevel .. si.specLevel : Places(e, l) # {}

Planning ==
    /\ status \in {"single", "multi", "workspace"}
    /\ others.copies = {} /\ si.childIdx < ChildrenNum

(* MultiSpecPlan, on success *)
Advance ==
    si' = [si EXCEPT !.specLevel = IF si.childIdx = si.specStartIdx THEN 3 ELSE @,
                     !.childIdx = @ + 1]

(* A copy that was entered together with its first buffer. *)
AlreadyPlanned ==
    /\ Planning /\ Planned(CurEntry)
    /\ Advance
    /\ UNCHANGED <<job, order, status, outline, his, trail, needBits, bitsOffset, applied,
                   extra, others, splitOutline>>

(* At level 1 the copies of the reused buffer give their addresses to the  *)
(* copies of this one, and to new ones when there are more of them         *)
(* (PlanRelationOtherBufferEntryAddress).                                  *)
PlanAt(e, place, level) ==
    \E offsets \in {IF level = 1 THEN OtherOffsets(place.last) ELSE <<>>} :
        /\ UpdateOutline(e, place.offset, level, FALSE)
        /\ bitsOffset' = [f \in AllEntries |->
               IF f = e THEN place.offset
               ELSE IF f[1] = e[1] /\ f[2] \in DOMAIN offsets THEN offsets[f[2]]
               ELSE bitsOffset[f]]
        /\ extra' = IF level = 1
                    THEN [extra EXCEPT ![e[1]] = Info(e).num .. Len(offsets)]
                    ELSE extra
        /\ others' = [first |-> e, copies |-> DOMAIN offsets]

(* SpecAlloc, at the highest level that finds a place, at the first place. *)
PlanEntry ==
    /\ Planning
    /\ \E e \in Entries :
           /\ e = CurEntry /\ ~Planned(e)
           /\ \E level \in MinLevel .. si.specLevel :
                  /\ \A l \in level + 1 .. si.specLevel : Places(e, l) = {}
                  /\ \E place \in Places(e, level) :
                         /\ \A p \in Places(e, level) : place.offset <= p.offset
                         /\ PlanAt(e, place, level)
    /\ Advance
    /\ UNCHANGED <<job, order, status, needBits, splitOutline>>

(* SpecAllocRelationOtherBufferEntry: the first copy with this address, of *)
(* those just added or else of the buffer's own (the code asserts there is *)
(* one), if a bound begins there and leads far enough.                     *)
CopyAt(first, offset) ==
    LET at(ks) == {k \in ks : bitsOffset[<<first[1], k>>] = offset}
        added  == at(extra[first[1]])
        ks     == IF added # {} THEN added ELSE at(1 .. Info(first).num - 1)
    IN  {<<first[1], k>> : k \in {k \in ks : \A l \in ks : k <= l}}

HasRoom(first, offset) ==
    LET W == Window(offset, Bits(first))
    IN  /\ \E b \in W : b.offset = offset
        /\ Reaching(W, offset + Bits(first)) # {}

EnterOther ==
    \E k \in others.copies :
        /\ \A l \in others.copies : k <= l
        /\ \E first \in {others.first}, offset \in {bitsOffset[<<others.first[1], k>>]} :
               \/ /\ HasRoom(first, offset)
                  /\ \E copy \in CopyAt(first, offset) : UpdateOutline(copy, offset, 1, TRUE)
               \/ ~HasRoom(first, offset) /\ UNCHANGED <<outline, his, trail, applied>>
        /\ others' = [others EXCEPT !.copies = @ \ {k}]
        /\ UNCHANGED <<job, order, status, si, needBits, bitsOffset, extra, splitOutline>>

(* No level finds a place: ApplyFailStrategy begins to take plans back. In *)
(* memory without end there is always a place.                             *)
FailToPlan ==
    /\ status = "multi" /\ Planning /\ ~Planned(CurEntry) /\ ~HasPlace(CurEntry)
    /\ status' = "rollback"
    /\ needBits' = Bits(CurEntry)
    /\ si' = IF his = <<>> THEN si
             ELSE [si EXCEPT !.specStartIdx = MaxOf(@, si.childIdx)]
    /\ UNCHANGED <<job, order, outline, his, trail, bitsOffset, applied, extra, others,
                   splitOutline>>

(* ShouldRollbackMuiltiBuffer *)
RollsBackWithFirst(r) ==
    \/ r.isDirectlyRollback
    \/ /\ r.entry[2] > 0
       /\ applied[<<r.entry[1], 0>>] >= 0
       /\ r.specLevel = applied[<<r.entry[1], 0>>]

(* The root's address is UINT64_MAX, and the sum wraps around. *)
EnoughAt(addr) == IF addr = NoAddr THEN needBits - 1 <= job.maxBits
                  ELSE addr + needBits <= job.maxBits

(* RollBackForAllocFailInner, one record *)
RollBack ==
    /\ status = "rollback" /\ his # <<>>
    /\ LET r == his[Len(his)]
           addr == IF r.childIdx = -1 THEN NoAddr ELSE bitsOffset[EntryAt(r.childIdx)]
       IN  /\ outline' = RollbackOutline(r)
           /\ his' = SubSeq(his, 1, Len(his) - 1)
           /\ trail' = SubSeq(trail, 1, Len(trail) - 1)
           /\ extra' = IF r.entry[2] = 0 THEN [extra EXCEPT ![r.entry[1]] = {}] ELSE extra
           /\ IF RollsBackWithFirst(r)
              THEN UNCHANGED <<si, status>>
              ELSE IF r.specLevel > 0
              THEN /\ si' = [si EXCEPT !.childIdx = r.childIdx, !.specLevel = r.specLevel,
                                       !.rollbackAddr = addr, !.rollbackIdx = r.childIdx]
                   /\ status' = IF EnoughAt(addr) THEN "strategy" ELSE status
              ELSE /\ si' = [si EXCEPT !.childIdx = r.childIdx, !.specLevel = r.specLevel]
                   /\ UNCHANGED status
    /\ UNCHANGED <<job, order, needBits, bitsOffset, applied, others, splitOutline>>

RolledBack == status = "strategy" \/ (status = "rollback" /\ his = <<>>)
CanLower   == si.specLevel > 0 /\ si.childIdx >= 0

(* Mutant: the entry is planned again at the level it had. *)
FaultyLowerLevel ==
    /\ RolledBack /\ CanLower
    /\ status' = "multi"
    /\ UNCHANGED <<job, order, outline, his, trail, si, needBits, bitsOffset, applied, extra,
                   others, splitOutline>>

(* ApplyFailStrategy, after the roll back *)
LowerLevel ==
    /\ RolledBack /\ CanLower
    /\ si' = [si EXCEPT !.specLevel = @ - 1]
    /\ status' = "multi"
    /\ UNCHANGED <<job, order, outline, his, trail, needBits, bitsOffset, applied, extra, others,
                   splitOutline>>

RestartWithSplitOutline ==
    /\ RolledBack /\ ~CanLower /\ ~splitOutline
    /\ splitOutline' = TRUE
    /\ si' = SpecInfo(3)
    /\ status' = "multi"
    /\ UNCHANGED <<job, order, outline, his, trail, needBits, bitsOffset, applied, extra, others>>

GiveUp ==
    /\ RolledBack /\ ~CanLower /\ splitOutline
    /\ status' = "failed"
    /\ UNCHANGED <<job, order, outline, his, trail, si, needBits, bitsOffset, applied, extra,
                   others, splitOutline>>

Finished == status \in {"done", "failed"} /\ UNCHANGED vars

Next ==
    \/ PlanWithoutReuse \/ OneTooLarge \/ StartSingleLevel \/ StartWorkspace
    \/ SingleLevelDone
    \/ MultiLevelDone \/ AlreadyPlanned \/ PlanEntry \/ EnterOther
    \/ FailToPlan \/ RollBack \/ LowerLevel \/ RestartWithSplitOutline \/ GiveUp
    \/ Finished

Spec == Init /\ [][Next]_vars /\ WF_vars(Next)

-----------------------------------------------------------------------------
(* Properties *)

BoundType  == [offset : Nat, extent : Nat \ {0},
               life : SUBSET [buffer : Buffers, lo : Nat, hi : Nat],
               last : (Buffers \X Nat) \cup {NoEntry}]
RecordType == [entry : Buffers \X Nat, offset : Nat, allExtent : Nat \ {0},
               specLevel : Levels, childIdx : Int, tailed : BOOLEAN,
               replaced : SUBSET BoundType, isDirectlyRollback : BOOLEAN]

(* The state has its types, and the history knows one outline per plan.    *)
TypeOK ==
    /\ job \in Job
    /\ status \in {"start", "single", "workspace", "multi", "rollback", "strategy",
                   "done", "failed"}
    /\ outline \subseteq BoundType
    /\ his \in Seq(RecordType)
    /\ trail \in Seq(SUBSET BoundType) /\ Len(trail) = Len(his)
    /\ DOMAIN si = {"specLevel", "childIdx", "specStartIdx", "rollbackIdx", "rollbackAddr"}
    /\ si.specLevel \in Levels /\ si.childIdx \in Int
    /\ DOMAIN bitsOffset = AllEntries
    /\ extra \in [Buffers -> SUBSET (1 .. MaxNum - 1)]
    /\ others \in [first : Entries \cup {NoEntry}, copies : SUBSET (1 .. MaxNum - 1)]

SameMemory(r, s) == Overlap(r.offset, r.allExtent, s.offset, s.allExtent)

(* The lives of two buffers have at most single points of time in common:  *)
(* the operation that reads the one last writes the other.                 *)
MeetOnlyAtPoints(b, c) ==
    \A v \in job.buffers[b].life, w \in job.buffers[c].life :
        \A t \in (v[1] .. v[2]) \cap (w[1] .. w[2]) :
            t + 1 \notin (v[1] .. v[2]) \cap (w[1] .. w[2])

(* Two buffers whose plans stand at the same time never share memory while *)
(* both live: what a plan reserves (SpecAlloc, and the copies that         *)
(* SpecAllocRelationOtherBufferEntry enters without looking at the lives   *)
(* in the outline) holds against every plan made before, whatever was      *)
(* planned and taken back in between.                                      *)
NoOverwrite ==
    \A i, j \in DOMAIN his :
        his[i].entry[1] # his[j].entry[1] /\ SameMemory(his[i], his[j])
            => MeetOnlyAtPoints(his[i].entry[1], his[j].entry[1])

Spans(b, c) == b.offset <= c /\ c < EndOf(b)
Tiles(bounds, space) ==
    /\ \A c \in 0 .. space - 1 : \E b \in bounds : Spans(b, c)
    /\ \A a, b \in bounds : a # b => EndOf(a) <= b.offset \/ EndOf(b) <= a.offset
    /\ \A b \in bounds : EndOf(b) <= space
Tells(bounds, r, life) ==
    \A c \in r.offset .. r.offset + r.allExtent - 1 :
        \E b \in bounds : Spans(b, c) /\ life \subseteq b.life

(* While a plan is made the bounds cover the memory without gap or         *)
(* overlap, and wherever a plan stands the bounds there tell its life:     *)
(* UpdateOutline, with its heads, pieces and tails, and RollbackOutline    *)
(* lose nothing.  The search trusts the outline alone.                     *)
OutlineTold ==
    status \in {"single", "workspace", "multi", "rollback", "strategy"} =>
        /\ Tiles(outline, SpaceBits)
        /\ \A i \in DOMAIN his : Tells(outline, his[i], Pieces(his[i].entry[1]))

(* Taking back a plan leaves the outline exactly as it was before that     *)
(* plan was made (RollbackOutline), so that a second attempt at a lower    *)
(* level sees the memory the first one saw.                                *)
RollBackExact ==
    [][Len(his') < Len(his) /\ status' # "multi" => outline' = trail[Len(his)]]_vars

(* A finished plan is whole: every copy of every buffer has an address in  *)
(* the memory, and it is the address of its plan in the history, although  *)
(* plans of others were taken back, made again at another level and copies *)
(* were entered before their turn.                                         *)
PlanComplete ==
    status = "done" =>
        \A e \in Entries :
            /\ job.kind = "local" => bitsOffset[e] + Bits(e) <= job.maxBits
            /\ his # <<>> =>
                 \E i \in DOMAIN his : his[i].entry = e /\ his[i].offset = bitsOffset[e]

(* Every address that UpdateBuffer2Offsets hands out, those of the copies  *)
(* that level 1 adds included, is apart from the addresses of the buffers  *)
(* that live at the same time, and in the memory.  The developer guide     *)
(* promises it of the whole pass; the code does not keep it.               *)
HandedOut == Entries \cup {e \in AllEntries : e[2] \in extra[e[1]]}
AddressesApart ==
    status = "done" =>
        \A e, f \in HandedOut :
            /\ job.kind = "local" => bitsOffset[e] + Bits(e) <= job.maxBits
            /\ e[1] # f[1] /\ Overlap(bitsOffset[e], Bits(e), bitsOffset[f], Bits(f))
                 => MeetOnlyAtPoints(e[1], f[1])

(* Every plan ends: the levels a roll back lowers and the places it skips  *)
(* never lead back to a plan that was tried, and splitOutline is tried     *)
(* once.                                                                   *)
Terminates == <>(status \in {"done", "failed"})
=============================================================================
