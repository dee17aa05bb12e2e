-------------------------- MODULE PlanMemoryProofs --------------------------
(***************************************************************************)
(* The plans of PlanMemory never overwrite a buffer that lives.            *)
(*                                                                         *)
(* The search looks at the outline, not at the plans.  So the invariant    *)
(* says that the outline tells the truth about the plans, not only now but *)
(* at every earlier point of the history, to which taking plans back will  *)
(* lead: the outline before a plan is what undoing the plan gives.  Copies *)
(* that are still to be entered were compared with the plans themselves.   *)
(*                                                                         *)
(* A finished plan is also whole.  That rests on the history as well: a    *)
(* plan knows the index at which it was made, and all entries before it    *)
(* were planned earlier, so going back to it leaves no gap.  And it rests  *)
(* on the order of planning, in which every entry comes once and the first *)
(* of a buffer before its copies, and on the sum of the sizes, which does  *)
(* not depend on the order in which they are added.                        *)
(***************************************************************************)
EXTENDS PlanMemory, TLAPS, FiniteSetTheorems

(* RollbackOutline, of any outline. *)
Undone(bounds, r) ==
    LET end == r.offset + r.allExtent
    IN  {b \in bounds : /\ ~(r.offset <= b.offset /\ b.offset < end)
                        /\ ~(r.tailed /\ b.offset = end)} \cup r.replaced

(* The outline after the first k plans. *)
After(k) == IF k = Len(his) THEN outline ELSE trail[k + 1]

(* No plan of another buffer at these addresses lives when e does. *)
Free(e, offset) ==
    \A i \in DOMAIN his :
        his[i].entry[1] # e[1] /\ Overlap(his[i].offset, his[i].allExtent, offset, Bits(e))
            => Times(Pieces(e[1])) \cap Times(Pieces(his[i].entry[1])) = {}

Running == status \in {"single", "workspace", "multi", "rollback", "strategy"}

OutlinesTold ==
    Running => \A k \in 0 .. Len(his) :
                   /\ Tiles(After(k), SpaceBits)
                   /\ \A i \in 1 .. k : Tells(After(k), his[i], Pieces(his[i].entry[1]))
UndoGivesBack ==
    \A k \in 1 .. Len(his) : trail[k] = Undone(After(k), his[k])
RecordsSized ==
    \A i \in DOMAIN his : his[i].allExtent = Bits(his[i].entry)
StartsEmpty ==
    status = "start" => his = <<>>
OthersFree ==
    others.copies # {} =>
        /\ status \in {"multi", "workspace"}
        /\ others.first \in Entries
        /\ \A k \in others.copies : Free(others.first, bitsOffset[<<others.first[1], k>>])

IInv ==
    /\ TypeOK
    /\ OutlinesTold
    /\ UndoGivesBack
    /\ RecordsSized
    /\ NoOverwrite
    /\ StartsEmpty
    /\ OthersFree

-----------------------------------------------------------------------------
(* Where an entry goes: at the beginning of a bound, and its end is in a   *)
(* bound of the window.                                                    *)
Place(e, offset) ==
    /\ e \in Buffers \X Nat
    /\ \E b \in Window(offset, Bits(e)) : b.offset = offset
    /\ Reaching(Window(offset, Bits(e)), offset + Bits(e)) # {}

NewOutline(e, offset) ==
    (outline \ Window(offset, Bits(e))) \cup Split(e, offset) \cup Rest(e, offset)

LEMMA BufferTypes ==
    ASSUME TypeOK, NEW e, e[1] \in Buffers
    PROVE  /\ Info(e) \in BufferInfo
           /\ Bits(e) \in Nat \ {0}
           /\ Pieces(e[1]) \subseteq [buffer : Buffers, lo : Nat, hi : Nat]
<1>1. job.buffers \in Seq(BufferInfo) BY DEF TypeOK, Job
<1>2. Info(e) \in BufferInfo BY <1>1 DEF Info, Buffers
<1>3. Info(e).life \subseteq Interval /\ Info(e).bits \in Nat \ {0} BY <1>2 DEF BufferInfo
<1>4. ASSUME NEW v \in job.buffers[e[1]].life PROVE v[1] \in Nat /\ v[2] \in Nat
    <2>1. v \in Nat \X Nat BY <1>3, <1>4 DEF Info, Interval
    <2> QED BY <2>1
<1> QED BY <1>2, <1>3, <1>4 DEF Bits, Pieces

(* The bounds of the window lie between the entry's ends, but for one that *)
(* may lead beyond; the others lie before or behind.                       *)
LEMMA WindowShape ==
    ASSUME TypeOK, Tiles(outline, SpaceBits), NEW e, NEW offset, Place(e, offset)
    PROVE  /\ offset \in Nat /\ Bits(e) \in Nat \ {0}
           /\ \A b \in outline : b.offset \in Nat /\ b.extent \in Nat \ {0}
           /\ \A b \in outline, c \in offset .. offset + Bits(e) - 1 :
                  Spans(b, c) => b \in Window(offset, Bits(e))
           /\ \E l \in Window(offset, Bits(e)) :
                  /\ EndOf(l) >= offset + Bits(e)
                  /\ \A b \in Window(offset, Bits(e)) : b # l => EndOf(b) <= l.offset
                  /\ \A b \in outline \ Window(offset, Bits(e)) :
                         EndOf(b) <= offset \/ b.offset >= EndOf(l)
<1> DEFINE W == Window(offset, Bits(e))
           end == offset + Bits(e)
<1>1. \A b \in outline : b.offset \in Nat /\ b.extent \in Nat \ {0}
    BY DEF TypeOK, BoundType
<1>2. PICK b0 \in W : b0.offset = offset BY DEF Place
<1>3. offset \in Nat /\ b0 \in outline BY <1>1, <1>2 DEF Window
<1>4. Bits(e) \in Nat \ {0} BY BufferTypes DEF Place
<1>5. \A a, b \in outline : a # b => EndOf(a) <= b.offset \/ EndOf(b) <= a.offset
    BY DEF Tiles
<1>6. ASSUME NEW b \in outline, NEW c \in offset .. end - 1, Spans(b, c) PROVE b \in W
    BY <1>1, <1>2, <1>3, <1>4, <1>5, <1>6 DEF Window, Spans, EndOf
<1>7. PICK l \in W : EndOf(l) >= end BY DEF Place, Reaching
<1>8. ASSUME NEW b \in W, b # l PROVE EndOf(b) <= l.offset
    BY <1>1, <1>3, <1>4, <1>5, <1>7, <1>8 DEF Window, EndOf
<1>9. ASSUME NEW b \in outline \ W PROVE EndOf(b) <= offset \/ b.offset >= EndOf(l)
    BY <1>1, <1>2, <1>3, <1>4, <1>5, <1>7, <1>9 DEF Window, EndOf
<1> QED BY <1>1, <1>3, <1>4, <1>6, <1>7, <1>8, <1>9

(* What UpdateOutline puts into the outline: for each bound of the window  *)
(* or for the whole of it a piece that lies in the entry's memory and      *)
(* tells more than the bound did, and the rest of the last bound.          *)
LEMMA NewBounds ==
    ASSUME TypeOK, Tiles(outline, SpaceBits), NEW e, NEW offset, Place(e, offset)
    PROVE  /\ \A s \in Split(e, offset) :
                  /\ s \in BoundType
                  /\ offset <= s.offset /\ EndOf(s) <= offset + Bits(e)
                  /\ Pieces(e[1]) \subseteq s.life
           /\ \A s, t \in Split(e, offset) :
                  s # t => EndOf(s) <= t.offset \/ EndOf(t) <= s.offset
           /\ \A b \in Window(offset, Bits(e)), c \in offset .. offset + Bits(e) - 1 :
                  Spans(b, c) => \E s \in Split(e, offset) : Spans(s, c) /\ b.life \subseteq s.life
<1> DEFINE W == Window(offset, Bits(e))
           end == offset + Bits(e)
           life == Pieces(e[1])
           Part(b) == [offset |-> b.offset,
                       extent |-> IF EndOf(b) >= end THEN end - b.offset ELSE b.extent,
                       life   |-> life \cup b.life, last |-> e]
           whole == [offset |-> offset, extent |-> Bits(e),
                     life |-> life \cup UNION {b.life : b \in W}, last |-> e]
<1>1. /\ offset \in Nat /\ Bits(e) \in Nat \ {0}
      /\ \A b \in outline : b.offset \in Nat /\ b.extent \in Nat \ {0}
    BY WindowShape
<1>2. \A b \in W : /\ b \in outline /\ offset <= b.offset /\ b.offset < end
                   /\ b.life \subseteq [buffer : Buffers, lo : Nat, hi : Nat]
    BY DEF Window, TypeOK, BoundType
<1>3. life \subseteq [buffer : Buffers, lo : Nat, hi : Nat] /\ e \in Buffers \X Nat
    BY BufferTypes DEF Place
<1>4. splitOutline => Split(e, offset) = {Part(b) : b \in W} BY DEF Split
<1>5. ~splitOutline => Split(e, offset) = {whole} BY DEF Split
<1>6. ASSUME NEW b \in W
      PROVE  /\ Part(b) \in BoundType
             /\ Part(b).offset = b.offset /\ Part(b).life = life \cup b.life
             /\ EndOf(Part(b)) <= end /\ EndOf(Part(b)) <= EndOf(b)
             /\ \A c \in offset .. end - 1 : Spans(b, c) => Spans(Part(b), c)
    <2>1. /\ b.offset \in Nat /\ b.extent \in Nat \ {0}
          /\ offset <= b.offset /\ b.offset < end
          /\ life \cup b.life \subseteq [buffer : Buffers, lo : Nat, hi : Nat]
        BY <1>1, <1>2, <1>3
    <2>2. CASE EndOf(b) >= end
        <3>1. Part(b) = [offset |-> b.offset, extent |-> end - b.offset,
                         life |-> life \cup b.life, last |-> e]
            BY <2>2
        <3> HIDE DEF Part
        <3>2. end - b.offset \in Nat \ {0} BY <1>1, <2>1
        <3> QED BY <1>1, <1>3, <2>1, <2>2, <3>1, <3>2 DEF BoundType, EndOf, Spans
    <2>3. CASE ~(EndOf(b) >= end)
        <3>1. Part(b) = [offset |-> b.offset, extent |-> b.extent,
                         life |-> life \cup b.life, last |-> e]
            BY <2>3
        <3> HIDE DEF Part
        <3> QED BY <1>1, <1>3, <2>1, <2>3, <3>1 DEF BoundType, EndOf, Spans
    <2> QED BY <2>2, <2>3
<1>7. /\ whole \in BoundType /\ whole.offset = offset /\ EndOf(whole) = end
      /\ life \subseteq whole.life /\ \A b \in W : b.life \subseteq whole.life
    <2>1. life \cup UNION {b.life : b \in W} \subseteq [buffer : Buffers, lo : Nat, hi : Nat]
        BY <1>2, <1>3
    <2> QED BY <1>1, <1>3, <2>1 DEF BoundType, EndOf
<1>8. \A a, b \in W : a # b => EndOf(a) <= b.offset \/ EndOf(b) <= a.offset
    BY <1>2 DEF Tiles
<1> HIDE DEF Part, whole
<1>9. CASE splitOutline
    <2>1. ASSUME NEW a \in W, NEW b \in W, Part(a) # Part(b)
          PROVE  EndOf(Part(a)) <= Part(b).offset \/ EndOf(Part(b)) <= Part(a).offset
        <3>1. EndOf(a) <= b.offset \/ EndOf(b) <= a.offset BY <1>8, <2>1
        <3>2. /\ a.offset \in Nat /\ a.extent \in Nat /\ b.offset \in Nat /\ b.extent \in Nat
              /\ EndOf(Part(a)) \in Int /\ EndOf(Part(b)) \in Int
            BY <1>1, <1>2, <1>6 DEF BoundType, EndOf
        <3> QED BY <1>6, <3>1, <3>2 DEF EndOf
    <2>2. ASSUME NEW b \in W
          PROVE  /\ Part(b) \in BoundType
                 /\ offset <= Part(b).offset /\ EndOf(Part(b)) <= end
                 /\ life \subseteq Part(b).life
        BY <1>2, <1>6, <2>2
    <2>3. ASSUME NEW b \in W, NEW c \in offset .. end - 1, Spans(b, c)
          PROVE  Part(b) \in Split(e, offset) /\ Spans(Part(b), c) /\ b.life \subseteq Part(b).life
        BY <1>4, <1>6, <1>9, <2>3
    <2>4. \A s \in Split(e, offset) : \E b \in W : s = Part(b) BY <1>4, <1>9
    <2>5. ASSUME NEW s \in Split(e, offset)
          PROVE  /\ s \in BoundType
                 /\ offset <= s.offset /\ EndOf(s) <= offset + Bits(e)
                 /\ Pieces(e[1]) \subseteq s.life
        <3>1. PICK b \in W : s = Part(b) BY <2>4
        <3> QED BY <2>2, <3>1
    <2>6. ASSUME NEW s \in Split(e, offset), NEW t \in Split(e, offset), s # t
          PROVE  EndOf(s) <= t.offset \/ EndOf(t) <= s.offset
        <3>1. PICK a \in W : s = Part(a) BY <2>4
        <3>2. PICK b \in W : t = Part(b) BY <2>4
        <3> QED BY <2>1, <2>6, <3>1, <3>2
    <2>7. ASSUME NEW b \in W, NEW c \in offset .. end - 1, Spans(b, c)
          PROVE  \E s \in Split(e, offset) : Spans(s, c) /\ b.life \subseteq s.life
        <3>1. Part(b) \in Split(e, offset) /\ Spans(Part(b), c) /\ b.life \subseteq Part(b).life
            BY <2>3, <2>7
        <3> QED BY <3>1
    <2> QED BY <1>1, <2>5, <2>6, <2>7
<1>10. CASE ~splitOutline
    <2>1. \A c \in offset .. end - 1 : Spans(whole, c) BY <1>1, <1>7 DEF Spans
    <2> QED BY <1>1, <1>5, <1>7, <1>10, <2>1
<1> QED BY <1>9, <1>10

LEMMA RestShape ==
    ASSUME TypeOK, Tiles(outline, SpaceBits), NEW e, NEW offset, Place(e, offset),
           NEW l \in Window(offset, Bits(e)), EndOf(l) >= offset + Bits(e),
           \A b \in Window(offset, Bits(e)) : b # l => EndOf(b) <= l.offset
    PROVE  LET end == offset + Bits(e)
           IN  Rest(e, offset) =
                   IF EndOf(l) > end
                   THEN {[offset |-> end, extent |-> EndOf(l) - end, life |-> l.life,
                          last |-> l.last]}
                   ELSE {}
<1> DEFINE W == Window(offset, Bits(e))
           end == offset + Bits(e)
<1>1. /\ offset \in Nat /\ Bits(e) \in Nat \ {0}
      /\ \A b \in outline : b.offset \in Nat /\ b.extent \in Nat \ {0}
    BY WindowShape
<1>2. \A b \in W : b \in outline /\ b.offset < end BY DEF Window
<1>3. Reaching(W, end + 1) = IF EndOf(l) > end THEN {l} ELSE {}
    <2>1. ASSUME NEW b \in W, b # l PROVE ~(EndOf(b) >= end + 1)
        <3>1. EndOf(b) <= l.offset /\ l.offset < end BY <1>2, <2>1
        <3> QED BY <1>1, <1>2, <3>1 DEF EndOf
    <2>2. EndOf(l) >= end + 1 <=> EndOf(l) > end BY <1>1, <1>2 DEF EndOf
    <2> QED BY <2>1, <2>2 DEF Reaching
<1> QED BY <1>3 DEF Rest

(* UpdateOutline keeps the memory tiled, forgets no plan and can be undone. *)
LEMMA Placing ==
    ASSUME TypeOK, Tiles(outline, SpaceBits), NEW e, NEW offset, Place(e, offset), NEW level, NEW directly
    PROVE  LET new == NewOutline(e, offset)
               r   == Record(e, offset, level, directly)
           IN  /\ new \subseteq BoundType
               /\ Tiles(new, SpaceBits)
               /\ \A q \in RecordType : \A life : Tells(outline, q, life) => Tells(new, q, life)
               /\ Tells(new, r, Pieces(e[1]))
               /\ Undone(new, r) = outline
<1> DEFINE W == Window(offset, Bits(e))
           end == offset + Bits(e)
           new == NewOutline(e, offset)
           r == Record(e, offset, level, directly)
<1>1. /\ offset \in Nat /\ Bits(e) \in Nat \ {0}
      /\ \A b \in outline : b.offset \in Nat /\ b.extent \in Nat \ {0}
      /\ \A b \in outline, c \in offset .. end - 1 : Spans(b, c) => b \in W
    BY WindowShape
<1>2. PICK l \in W :
          /\ EndOf(l) >= end
          /\ \A b \in W : b # l => EndOf(b) <= l.offset
          /\ \A b \in outline \ W : EndOf(b) <= offset \/ b.offset >= EndOf(l)
    BY WindowShape
<1>3. \A b \in W : b \in outline /\ offset <= b.offset /\ b.offset < end BY DEF Window
<1>4. \A b \in outline : b \notin W => b.offset < offset \/ b.offset >= end
    BY <1>1 DEF Window
<1> DEFINE tail == [offset |-> end, extent |-> EndOf(l) - end, life |-> l.life, last |-> l.last]
<1>5. Rest(e, offset) = IF EndOf(l) > end THEN {tail} ELSE {} BY <1>2, RestShape
<1>6. EndOf(l) > end => tail \in BoundType /\ EndOf(tail) = EndOf(l)
    <2> HAVE EndOf(l) > end
    <2>1. EndOf(l) - end \in Nat \ {0} /\ end \in Nat BY <1>1, <1>3 DEF EndOf
    <2>2. l \in BoundType BY <1>3 DEF TypeOK
    <2> QED BY <1>1, <1>3, <2>1, <2>2 DEF BoundType, EndOf
<1>7. /\ tail.offset = end /\ tail.life = l.life OBVIOUS
<1> HIDE DEF tail
<1>8. /\ \A s \in Split(e, offset) :
             /\ s \in BoundType /\ offset <= s.offset /\ EndOf(s) <= end
             /\ Pieces(e[1]) \subseteq s.life
      /\ \A s, t \in Split(e, offset) :
             s # t => EndOf(s) <= t.offset \/ EndOf(t) <= s.offset
      /\ \A b \in W, c \in offset .. end - 1 :
             Spans(b, c) => \E s \in Split(e, offset) : Spans(s, c) /\ b.life \subseteq s.life
    BY <1>1, NewBounds
<1>9. /\ \A b \in outline : EndOf(b) <= SpaceBits
      /\ \A a, b \in outline : a # b => EndOf(a) <= b.offset \/ EndOf(b) <= a.offset
      /\ \A c \in 0 .. SpaceBits - 1 : \E b \in outline : Spans(b, c)
      /\ SpaceBits \in Nat
    <2>1. SpaceBits \in Nat BY JobsAssumption DEF SpaceBits, TypeOK, Job
    <2> QED BY <2>1 DEF Tiles
<1>10. new = (outline \ W) \cup Split(e, offset) \cup Rest(e, offset) BY DEF NewOutline
<1>11. \A b \in BoundType : b.offset \in Nat /\ b.extent \in Nat \ {0} BY DEF BoundType
<1>12. new \subseteq BoundType
    BY <1>5, <1>6, <1>8, <1>10 DEF TypeOK
(* Whatever an old bound told at an address, a new one tells. *)
<1>13. ASSUME NEW b \in outline, NEW c \in Nat, Spans(b, c)
       PROVE  \E s \in new : Spans(s, c) /\ b.life \subseteq s.life
    <2>1. CASE b \notin W BY <1>10, <1>13, <2>1
    <2>2. CASE b \in W /\ c < end
        <3>1. c \in offset .. end - 1 BY <1>1, <1>3, <2>2, <1>13 DEF Spans
        <3> QED BY <1>8, <1>10, <1>13, <2>2, <3>1
    <2>3. CASE b \in W /\ c >= end
        <3>1. b = l BY <1>1, <1>2, <1>3, <1>13, <2>3 DEF Spans, EndOf
        <3>2. EndOf(l) > end BY <1>1, <1>3, <1>13, <2>3, <3>1 DEF Spans, EndOf
        <3>3. tail \in new BY <1>5, <1>10, <3>2
        <3>4. Spans(tail, c) BY <1>1, <1>6, <1>7, <1>13, <2>3, <3>1, <3>2 DEF Spans
        <3> QED BY <1>7, <3>1, <3>3, <3>4
    <2> QED BY <1>1, <2>1, <2>2, <2>3
<1>14. Tiles(new, SpaceBits)
    <2>1. \A c \in 0 .. SpaceBits - 1 : \E b \in new : Spans(b, c)
        BY <1>9, <1>13
    <2>2. \A b \in new : EndOf(b) <= SpaceBits
        <3>1. EndOf(l) \in Int /\ end <= EndOf(l) /\ EndOf(l) <= SpaceBits
            BY <1>1, <1>2, <1>3, <1>9 DEF EndOf
        <3>2. ASSUME NEW s \in Split(e, offset) PROVE EndOf(s) <= SpaceBits
            <4>1. EndOf(s) \in Int BY <1>8, <1>11 DEF EndOf
            <4> QED BY <1>1, <1>8, <1>9, <3>1, <4>1
        <3> QED BY <1>5, <1>6, <1>9, <1>10, <3>1, <3>2
    <2>3. ASSUME NEW a \in outline \ W, NEW s \in Split(e, offset)
          PROVE  EndOf(a) <= s.offset \/ EndOf(s) <= a.offset
        BY <1>1, <1>2, <1>3, <1>8, <1>11 DEF EndOf
    <2>4. ASSUME NEW a \in outline \ W, EndOf(l) > end
          PROVE  EndOf(a) <= tail.offset \/ EndOf(tail) <= a.offset
        BY <1>1, <1>2, <1>3, <1>6, <1>7, <2>4 DEF EndOf
    <2>5. ASSUME NEW s \in Split(e, offset) PROVE EndOf(s) <= tail.offset
        BY <1>7, <1>8
    <2>6. ASSUME NEW a \in new, NEW b \in new, a # b
          PROVE  EndOf(a) <= b.offset \/ EndOf(b) <= a.offset
        <3>1. CASE a \in outline \ W
            BY <1>5, <1>9, <1>10, <2>3, <2>4, <2>6, <3>1
        <3>2. CASE a \in Split(e, offset)
            BY <1>5, <1>8, <1>10, <2>3, <2>5, <2>6, <3>2
        <3>3. CASE a \in Rest(e, offset)
            BY <1>5, <1>10, <2>4, <2>5, <2>6, <3>3
        <3> QED BY <1>10, <3>1, <3>2, <3>3
    <2> QED BY <2>1, <2>2, <2>6 DEF Tiles
<1>15. ASSUME NEW q \in RecordType, NEW life, Tells(outline, q, life) PROVE Tells(new, q, life)
    <2>1. q.offset \in Nat /\ q.allExtent \in Nat BY DEF RecordType
    <2>2. ASSUME NEW c \in q.offset .. q.offset + q.allExtent - 1
          PROVE  \E s \in new : Spans(s, c) /\ life \subseteq s.life
        <3>1. PICK b \in outline : Spans(b, c) /\ life \subseteq b.life
            BY <1>15, <2>2 DEF Tells
        <3>2. c \in Nat BY <2>1, <2>2
        <3> QED BY <1>13, <3>1, <3>2
    <2> QED BY <2>2 DEF Tells
<1>16. /\ r.offset = offset /\ r.allExtent = Bits(e) /\ r.entry = e
       /\ r.replaced = W /\ r.tailed = (Rest(e, offset) # {})
    BY DEF Record
<1>17. Tells(new, r, Pieces(e[1]))
    <2>1. ASSUME NEW c \in offset .. end - 1
          PROVE  \E s \in new : Spans(s, c) /\ Pieces(e[1]) \subseteq s.life
        <3>1. c \in 0 .. SpaceBits - 1
            <4>1. EndOf(l) <= SpaceBits /\ EndOf(l) \in Int BY <1>1, <1>3, <1>9 DEF EndOf
            <4> QED BY <1>1, <1>2, <1>9, <2>1, <4>1
        <3>2. PICK b \in outline : Spans(b, c) BY <1>9, <3>1
        <3>3. b \in W BY <1>1, <2>1, <3>2
        <3>4. PICK s \in Split(e, offset) : Spans(s, c) BY <1>8, <2>1, <3>2, <3>3
        <3> QED BY <1>8, <1>10, <3>4
    <2> QED BY <1>1, <1>16, <2>1 DEF Tells
<1>18. Undone(new, r) = outline
    <2> DEFINE kept == {b \in new : ~(offset <= b.offset /\ b.offset < end)
                                    /\ ~((Rest(e, offset) # {}) /\ b.offset = end)}
    <2>1. Undone(new, r) = kept \cup W BY <1>16 DEF Undone
    <2>2. ASSUME NEW b \in outline \ W PROVE b \in kept
        <3>1. b \in new BY <1>10
        <3>2. Rest(e, offset) # {} => b.offset # end
            BY <1>1, <1>2, <1>3, <1>5 DEF EndOf
        <3> QED BY <1>1, <1>4, <3>1, <3>2
    <2>3. ASSUME NEW b \in kept PROVE b \in outline \ W
        <3>1. b \notin Split(e, offset)
            BY <1>1, <1>8, <1>11 DEF EndOf
        <3>2. b \notin Rest(e, offset) BY <1>5, <1>7
        <3> QED BY <1>10, <3>1, <3>2
    <2>4. W \subseteq outline BY <1>3
    <2> QED BY <2>1, <2>2, <2>3, <2>4
<1> QED BY <1>12, <1>14, <1>15, <1>17, <1>18

-----------------------------------------------------------------------------
(* One plan more, and one plan less *)

HistoryOK ==
    /\ outline \subseteq BoundType
    /\ his \in Seq(RecordType)
    /\ trail \in Seq(SUBSET BoundType) /\ Len(trail) = Len(his)
    /\ OutlinesTold
    /\ UndoGivesBack
    /\ RecordsSized

LEMMA Extending ==
    ASSUME TypeOK, HistoryOK, Running, NEW e, NEW offset, NEW level \in Levels,
           NEW directly \in BOOLEAN, Place(e, offset),
           UpdateOutline(e, offset, level, directly), job' = job, status' = status
    PROVE  /\ HistoryOK'
           /\ Len(his') = Len(his) + 1
           /\ \A i \in 1 .. Len(his) : his'[i] = his[i]
           /\ his'[Len(his) + 1] = Record(e, offset, level, directly)
<1> DEFINE new == NewOutline(e, offset)
           r == Record(e, offset, level, directly)
           n == Len(his)
<1>1. /\ his \in Seq(RecordType) /\ trail \in Seq(SUBSET BoundType) /\ Len(trail) = n
      /\ n \in Nat /\ outline \subseteq BoundType
    BY DEF HistoryOK
<1>2. Tiles(outline, SpaceBits) /\ SpaceBits' = SpaceBits
    <2>1. After(n) = outline BY DEF After
    <2> QED BY <1>1, <2>1 DEF HistoryOK, OutlinesTold, SpaceBits
<1>3. /\ new \subseteq BoundType /\ Tiles(new, SpaceBits)
      /\ \A q \in RecordType : \A life : Tells(outline, q, life) => Tells(new, q, life)
      /\ Tells(new, r, Pieces(e[1])) /\ Undone(new, r) = outline
    BY <1>2, Placing
<1>4. outline' = new /\ his' = Append(his, r) /\ trail' = Append(trail, outline)
    BY DEF UpdateOutline, NewOutline
<1>5. r \in RecordType /\ r.entry = e /\ r.allExtent = Bits(e)
    <2>1. offset \in Nat /\ Bits(e) \in Nat \ {0} BY <1>2, WindowShape
    <2>2. Window(offset, Bits(e)) \subseteq BoundType BY <1>1 DEF Window
    <2>3. si.childIdx \in Int BY DEF TypeOK
    <2> QED BY <2>1, <2>2, <2>3 DEF Record, RecordType, Place
<1> HIDE DEF new, r
<1>6. /\ his' \in Seq(RecordType) /\ Len(his') = n + 1
      /\ \A i \in 1 .. n : his'[i] = his[i]
      /\ his'[n + 1] = r
    BY <1>1, <1>4, <1>5
<1>7. /\ trail' \in Seq(SUBSET BoundType) /\ Len(trail') = n + 1
      /\ \A i \in 1 .. n : trail'[i] = trail[i]
      /\ trail'[n + 1] = outline
    BY <1>1, <1>4
<1>8. \A k \in 0 .. n : After(k)' = After(k)
    BY <1>1, <1>6, <1>7 DEF After
<1>9. \A k : k = n + 1 => After(k)' = new BY <1>1, <1>4, <1>6 DEF After
<1>10. \A b : Pieces(b)' = Pieces(b) BY DEF Pieces
<1>11. OutlinesTold'
    <2> SUFFICES ASSUME NEW k \in 0 .. n + 1
                 PROVE  /\ Tiles(After(k)', SpaceBits)
                        /\ \A i \in 1 .. k : Tells(After(k)', his'[i], Pieces(his'[i].entry[1]))
        BY <1>2, <1>6, <1>10 DEF OutlinesTold
    <2>1. CASE k \in 0 .. n
        <3>1. /\ Tiles(After(k), SpaceBits)
              /\ \A i \in 1 .. k : Tells(After(k), his[i], Pieces(his[i].entry[1]))
            BY <2>1 DEF HistoryOK, OutlinesTold
        <3>2. \A i \in 1 .. k : his'[i] = his[i] BY <1>1, <1>6, <2>1
        <3> QED BY <1>8, <2>1, <3>1, <3>2
    <2>2. CASE k = n + 1
        <3>1. \A i \in 1 .. n : Tells(outline, his[i], Pieces(his[i].entry[1]))
            BY <1>1 DEF HistoryOK, OutlinesTold, After
        <3>2. \A i \in 1 .. n : his[i] \in RecordType BY <1>1
        <3>3. \A i \in 1 .. n : Tells(new, his[i], Pieces(his[i].entry[1]))
            BY <1>3, <3>1, <3>2
        <3>4. \A i \in 1 .. n + 1 : Tells(new, his'[i], Pieces(his'[i].entry[1]))
            BY <1>1, <1>3, <1>5, <1>6, <3>3
        <3> QED BY <1>3, <1>9, <2>2, <3>4
    <2> QED BY <1>1, <2>1, <2>2
<1>12. UndoGivesBack'
    <2> SUFFICES ASSUME NEW k \in 1 .. n + 1 PROVE trail'[k] = Undone(After(k)', his'[k])
        BY <1>6 DEF UndoGivesBack
    <2>1. CASE k \in 1 .. n
        BY <1>1, <1>6, <1>7, <1>8, <2>1 DEF HistoryOK, UndoGivesBack
    <2>2. CASE k = n + 1 BY <1>3, <1>6, <1>7, <1>9, <2>2
    <2> QED BY <1>1, <2>1, <2>2
<1>13. RecordsSized'
    <2>1. \A f : Bits(f)' = Bits(f) BY DEF Bits, Info
    <2>2. \A i \in 1 .. n : his[i].allExtent = Bits(his[i].entry)
        BY <1>1 DEF HistoryOK, RecordsSized
    <2> SUFFICES ASSUME NEW i \in 1 .. n + 1 PROVE his'[i].allExtent = Bits(his'[i].entry)
        BY <1>1, <1>6, <2>1 DEF RecordsSized
    <2> QED BY <1>1, <1>5, <1>6, <2>2
<1>14. HistoryOK'
    <2>1. BoundType' = BoundType /\ RecordType' = RecordType
        BY DEF BoundType, RecordType, Buffers
    <2> QED BY <1>3, <1>4, <1>6, <1>7, <1>11, <1>12, <1>13, <2>1 DEF HistoryOK
<1> QED BY <1>6, <1>14 DEF r

(* Taking the last plan back leads to the outline before it. *)
LEMMA Shrinking ==
    ASSUME HistoryOK, Running, Running', his # <<>>, job' = job, SpaceBits' = SpaceBits,
           outline' = RollbackOutline(his[Len(his)]),
           his' = SubSeq(his, 1, Len(his) - 1), trail' = SubSeq(trail, 1, Len(trail) - 1)
    PROVE  /\ HistoryOK'
           /\ outline' = trail[Len(his)]
           /\ Len(his') = Len(his) - 1
           /\ \A i \in 1 .. Len(his) - 1 : his'[i] = his[i]
<1> DEFINE n == Len(his)
<1>1. /\ his \in Seq(RecordType) /\ trail \in Seq(SUBSET BoundType) /\ Len(trail) = n
      /\ n \in Nat \ {0}
    BY DEF HistoryOK
<1>2. /\ his' \in Seq(RecordType) /\ Len(his') = n - 1
      /\ \A i \in 1 .. n - 1 : his'[i] = his[i]
    BY <1>1
<1>3. /\ trail' \in Seq(SUBSET BoundType) /\ Len(trail') = n - 1
      /\ \A i \in 1 .. n - 1 : trail'[i] = trail[i]
    BY <1>1
<1>4. outline' = trail[n] /\ outline' \subseteq BoundType
    <2>1. After(n) = outline /\ trail[n] \subseteq BoundType BY <1>1 DEF After
    <2>2. trail[n] = Undone(outline, his[n])
        BY <1>1, <2>1 DEF HistoryOK, UndoGivesBack
    <2>3. RollbackOutline(his[n]) = Undone(outline, his[n])
        BY DEF RollbackOutline, Undone
    <2> QED BY <2>1, <2>2, <2>3
<1>5. \A k \in 0 .. n - 1 : After(k)' = After(k)
    BY <1>1, <1>2, <1>3, <1>4 DEF After
<1>6. OutlinesTold'
    <2>1. \A b : Pieces(b)' = Pieces(b) BY DEF Pieces
    <2> SUFFICES ASSUME NEW k \in 0 .. n - 1
                 PROVE  /\ Tiles(After(k)', SpaceBits)
                        /\ \A i \in 1 .. k : Tells(After(k)', his'[i], Pieces(his'[i].entry[1]))
        BY <1>2, <2>1 DEF OutlinesTold
    <2>2. /\ Tiles(After(k), SpaceBits)
          /\ \A i \in 1 .. k : Tells(After(k), his[i], Pieces(his[i].entry[1]))
        BY <1>1 DEF HistoryOK, OutlinesTold
    <2>3. \A i \in 1 .. k : his'[i] = his[i] BY <1>1, <1>2
    <2> QED BY <1>5, <2>2, <2>3
<1>7. UndoGivesBack'
    BY <1>1, <1>2, <1>3, <1>5 DEF HistoryOK, UndoGivesBack
<1>8. RecordsSized'
    <2>1. \A f : Bits(f)' = Bits(f) BY DEF Bits, Info
    <2> QED BY <1>1, <1>2, <2>1 DEF HistoryOK, RecordsSized
<1>9. BoundType' = BoundType /\ RecordType' = RecordType
    BY DEF BoundType, RecordType, Buffers
<1> QED BY <1>2, <1>3, <1>4, <1>6, <1>7, <1>8, <1>9 DEF HistoryOK

-----------------------------------------------------------------------------
(* What a new plan shares memory with *)

(* The bounds of the window tell of every plan that stands there.          *)
LEMMA LivesApart ==
    ASSUME IInv, Running, NEW e, NEW offset, Place(e, offset),
           \A b \in Window(offset, Bits(e)) : ~LifeConflict(e[1], b.life),
           NEW i \in DOMAIN his, Overlap(his[i].offset, his[i].allExtent, offset, Bits(e))
    PROVE  MeetOnlyAtPoints(his[i].entry[1], e[1])
<1> DEFINE r == his[i]
<1>1. /\ TypeOK /\ r \in RecordType /\ i \in 1 .. Len(his) /\ Len(his) \in Nat
    BY DEF IInv, TypeOK
<1>2. After(Len(his)) = outline BY DEF After
<1>3. Tiles(outline, SpaceBits) /\ Tells(outline, r, Pieces(r.entry[1]))
    BY <1>1, <1>2 DEF IInv, OutlinesTold
<1>4. /\ r.offset \in Nat /\ r.allExtent \in Nat \ {0} /\ r.entry[1] \in Buffers
      /\ offset \in Nat /\ Bits(e) \in Nat \ {0}
    BY <1>1, <1>3, WindowShape DEF RecordType
<1>5. \E c \in Nat : /\ c \in r.offset .. r.offset + r.allExtent - 1
                     /\ c \in offset .. offset + Bits(e) - 1
    <2>1. CASE r.offset <= offset
        <3>1. offset \in r.offset .. r.offset + r.allExtent - 1 BY <1>4, <2>1 DEF Overlap
        <3> QED BY <1>4, <3>1
    <2>2. CASE offset <= r.offset
        <3>1. r.offset \in offset .. offset + Bits(e) - 1 BY <1>4, <2>2 DEF Overlap
        <3> QED BY <1>4, <3>1
    <2> QED BY <1>4, <2>1, <2>2
<1>6. PICK c \in Nat : /\ c \in r.offset .. r.offset + r.allExtent - 1
                      /\ c \in offset .. offset + Bits(e) - 1
    BY <1>5
<1>7. PICK b \in outline : Spans(b, c) /\ Pieces(r.entry[1]) \subseteq b.life
    BY <1>3, <1>6 DEF Tells
<1>8. b \in Window(offset, Bits(e)) BY <1>1, <1>3, <1>6, <1>7, WindowShape
<1>9. ~LifeConflict(e[1], b.life) BY <1>8
<1> SUFFICES ASSUME NEW v \in job.buffers[r.entry[1]].life, NEW w \in job.buffers[e[1]].life,
                    NEW t \in (v[1] .. v[2]) \cap (w[1] .. w[2]),
                    t + 1 \in (v[1] .. v[2]) \cap (w[1] .. w[2])
             PROVE  FALSE
    BY DEF MeetOnlyAtPoints
<1> DEFINE p == [buffer |-> r.entry[1], lo |-> v[1], hi |-> v[2]]
<1>10. p \in b.life BY <1>7 DEF Pieces
<1>11. v[1] \in Nat /\ v[2] \in Nat /\ w[1] \in Nat /\ w[2] \in Nat
    <2>1. Info(r.entry) \in BufferInfo BY <1>1, <1>4, BufferTypes
    <2>2. Info(e) \in BufferInfo BY <1>1, BufferTypes DEF Place
    <2>3. v \in Interval /\ w \in Interval BY <2>1, <2>2 DEF BufferInfo, Info
    <2>4. v \in Nat \X Nat /\ w \in Nat \X Nat BY <2>3 DEF Interval
    <2> QED BY <2>4
<1>12. p.lo = v[1] /\ p.hi = v[2] OBVIOUS
<1> HIDE DEF p
<1>13. {t, t + 1} \subseteq Times(b.life)
    BY <1>10, <1>12 DEF Times
<1>14. t \in w[1] .. w[2] - 1 BY <1>11
<1>15. OverlapsLong(e[1], b.life) BY <1>13, <1>14 DEF OverlapsLong
<1> QED BY <1>9, <1>10, <1>15 DEF LifeConflict

(* A plan more, that meets the plans of other buffers in single points at  *)
(* most.                                                                   *)
LEMMA OneMore ==
    ASSUME IInv, job' = job, NEW r, Len(his') = Len(his) + 1,
           his' \in Seq(RecordType),
           \A i \in 1 .. Len(his) : his'[i] = his[i],
           his'[Len(his) + 1] = r,
           \A i \in DOMAIN his :
               his[i].entry[1] # r.entry[1] /\ SameMemory(his[i], r)
                   => MeetOnlyAtPoints(his[i].entry[1], r.entry[1])
    PROVE  NoOverwrite'
<1>1. his \in Seq(RecordType) /\ Len(his) \in Nat /\ DOMAIN his = 1 .. Len(his)
    BY DEF IInv, TypeOK
<1>2. \A b, c : MeetOnlyAtPoints(b, c)' <=> MeetOnlyAtPoints(b, c) BY DEF MeetOnlyAtPoints
<1>3. \A b, c : MeetOnlyAtPoints(b, c) => MeetOnlyAtPoints(c, b) BY DEF MeetOnlyAtPoints
<1>4. r \in RecordType /\ DOMAIN his' = 1 .. Len(his) + 1 BY <1>1
<1> SUFFICES ASSUME NEW i \in 1 .. Len(his) + 1, NEW j \in 1 .. Len(his) + 1,
                    his'[i].entry[1] # his'[j].entry[1], SameMemory(his'[i], his'[j])
             PROVE  MeetOnlyAtPoints(his'[i].entry[1], his'[j].entry[1])
    BY <1>2, <1>4 DEF NoOverwrite
<1>5. SameMemory(his'[j], his'[i])
    <2>1. \A q \in RecordType : q.offset \in Nat /\ q.allExtent \in Nat BY DEF RecordType
    <2>2. his'[i] \in RecordType /\ his'[j] \in RecordType BY <1>1
    <2> QED BY <2>1, <2>2 DEF SameMemory, Overlap
<1>6. CASE i \in 1 .. Len(his) /\ j \in 1 .. Len(his)
    BY <1>1, <1>6 DEF IInv, NoOverwrite
<1>7. CASE i \in 1 .. Len(his) /\ j = Len(his) + 1 BY <1>1, <1>7
<1>8. CASE i = Len(his) + 1 /\ j \in 1 .. Len(his)
    <2>1. MeetOnlyAtPoints(his'[j].entry[1], his'[i].entry[1]) BY <1>1, <1>5, <1>8
    <2> QED BY <1>3, <2>1
<1>9. CASE i = Len(his) + 1 /\ j = Len(his) + 1 BY <1>9
<1> QED BY <1>1, <1>6, <1>7, <1>8, <1>9

-----------------------------------------------------------------------------
(* The steps *)

Statuses == {"start", "single", "workspace", "multi", "rollback", "strategy", "done", "failed"}
SiOK == /\ DOMAIN si = {"specLevel", "childIdx", "specStartIdx", "rollbackIdx", "rollbackAddr"}
        /\ si.specLevel \in Levels /\ si.childIdx \in Int

LEMMA SameJob ==
    ASSUME job' = job
    PROVE  /\ BoundType' = BoundType /\ RecordType' = RecordType
           /\ Buffers' = Buffers /\ Entries' = Entries /\ AllEntries' = AllEntries
           /\ \A b : Pieces(b)' = Pieces(b)
           /\ \A e : Bits(e)' = Bits(e)
           /\ \A b, c : MeetOnlyAtPoints(b, c)' <=> MeetOnlyAtPoints(b, c)
BY DEF BoundType, RecordType, Buffers, Entries, AllEntries, Pieces, Bits, Info, MeetOnlyAtPoints

(* Steps that leave the plans alone. *)
LEMMA Idle ==
    ASSUME IInv, job' = job, outline' = outline, his' = his, trail' = trail, extra' = extra,
           others' = others \/ \E k : others' = [others EXCEPT !.copies = @ \ {k}],
           status' \in Statuses, SiOK', DOMAIN bitsOffset' = AllEntries,
           Running' => Running /\ SpaceBits' = SpaceBits,
           others.copies # {} => status' = status /\ bitsOffset' = bitsOffset,
           status' = "start" => status = "start"
    PROVE  IInv'
<1>1. /\ others'.first = others.first /\ others'.copies \subseteq others.copies
      /\ others' \in [first : Entries \cup {NoEntry}, copies : SUBSET (1 .. MaxNum - 1)]
    BY DEF IInv, TypeOK
<1>2. TypeOK' BY <1>1, SameJob DEF IInv, TypeOK, Statuses, SiOK
<1>3. \A k : After(k)' = After(k) BY DEF After
<1>4. OutlinesTold' BY <1>3, SameJob DEF IInv, OutlinesTold
<1>5. UndoGivesBack' BY <1>3 DEF IInv, UndoGivesBack
<1>6. RecordsSized' BY SameJob DEF IInv, RecordsSized
<1>7. NoOverwrite' BY SameJob DEF IInv, NoOverwrite, SameMemory
<1>8. OthersFree'
    <2> SUFFICES ASSUME others.copies # {} PROVE OthersFree'
        BY <1>1 DEF OthersFree
    <2>1. status' = status /\ bitsOffset' = bitsOffset OBVIOUS
    <2>2. \A e, offset : Free(e, offset)' <=> Free(e, offset) BY SameJob DEF Free
    <2> QED BY <1>1, <2>1, <2>2, SameJob DEF IInv, OthersFree
<1>9. StartsEmpty' BY DEF IInv, StartsEmpty
<1> QED BY <1>2, <1>4, <1>5, <1>6, <1>7, <1>8, <1>9 DEF IInv

LEMMA SpecInfoOK ==
    ASSUME NEW level \in Levels, si' = SpecInfo(level) PROVE SiOK'
BY DEF SpecInfo, SiOK, Levels

(* An empty memory is tiled by one bound. *)
LEMMA WholeSpaceTiles ==
    ASSUME NEW bits \in Nat \ {0}
    PROVE  WholeSpace(bits) \subseteq BoundType /\ Tiles(WholeSpace(bits), bits)
<1> DEFINE w == [offset |-> 0, extent |-> bits, life |-> {}, last |-> NoEntry]
<1>1. w \in BoundType BY DEF BoundType
<1>2. w.offset = 0 /\ EndOf(w) = bits BY DEF EndOf
<1> HIDE DEF w
<1>3. \A c \in 0 .. bits - 1 : Spans(w, c) BY <1>2 DEF Spans
<1>4. Tiles({w}, bits) BY <1>2, <1>3 DEF Tiles
<1> QED BY <1>1, <1>4 DEF WholeSpace, w

(* A plan begins in an empty memory. *)
LEMMA Beginning ==
    ASSUME IInv, job' = job, his' = <<>>, trail' = <<>>, extra' = extra, others' = others,
           bitsOffset' = bitsOffset, others.copies = {}, SiOK',
           status' \in {"single", "workspace", "multi"}, outline' = WholeSpace(SpaceBits')
    PROVE  IInv'
<1>1. SpaceBits' \in Nat \ {0} BY JobsAssumption DEF IInv, TypeOK, SpaceBits, Job
<1>2. outline' \subseteq BoundType /\ Tiles(outline', SpaceBits') BY <1>1, WholeSpaceTiles
<1>3. Len(his') = 0 /\ DOMAIN his' = {} /\ his' \in Seq(RecordType)
      /\ trail' \in Seq(SUBSET BoundType) /\ Len(trail') = 0
    OBVIOUS
<1>4. TypeOK' BY <1>2, <1>3, SameJob DEF IInv, TypeOK, SiOK
<1>5. After(0)' = outline' BY <1>3 DEF After
<1>6. OutlinesTold' BY <1>2, <1>3, <1>5 DEF OutlinesTold
<1>7. UndoGivesBack' /\ RecordsSized' /\ NoOverwrite' /\ StartsEmpty'
    BY <1>3 DEF UndoGivesBack, RecordsSized, NoOverwrite, StartsEmpty
<1>8. OthersFree' BY DEF OthersFree
<1> QED BY <1>4, <1>6, <1>7, <1>8 DEF IInv

LEMMA HistoryFromInv ==
    ASSUME IInv PROVE HistoryOK
BY DEF IInv, TypeOK, HistoryOK

LEMMA InitOK ==
    ASSUME Init PROVE IInv
<1>1. job \in Job BY JobsAssumption DEF Init
<1>2. Len(his) = 0 /\ DOMAIN his = {} /\ his \in Seq(RecordType)
      /\ trail \in Seq(SUBSET BoundType) /\ Len(trail) = 0
    BY DEF Init
<1>3. SiOK BY DEF Init, SpecInfo, SiOK, Levels
<1>4. TypeOK BY <1>1, <1>2, <1>3 DEF Init, TypeOK, SiOK
<1>5. OutlinesTold BY DEF Init, OutlinesTold, Running
<1>6. UndoGivesBack /\ RecordsSized /\ NoOverwrite /\ StartsEmpty
    BY <1>2 DEF Init, UndoGivesBack, RecordsSized, NoOverwrite, StartsEmpty
<1>7. OthersFree BY DEF Init, OthersFree
<1> QED BY <1>4, <1>5, <1>6, <1>7 DEF IInv

(* The entry that follows at level 1 is the first of its buffer, and gets  *)
(* addresses for 1 .. n copies.                                            *)
LEMMA Following ==
    ASSUME TypeOK, NEW e \in Entries, NEW f \in Buffers \X Nat, CanFollow(e, f)
    PROVE  LET n == Cardinality(OtherCopies(f))
           IN  /\ e[2] = 0
               /\ n \in Nat /\ n <= MaxNum - 1
               /\ DOMAIN OtherOffsets(f) = 1 .. n /\ Len(OtherOffsets(f)) = n
<1> DEFINE n == Cardinality(OtherCopies(f))
<1>1. Info(f).num \in 1 .. MaxNum /\ Info(e).num \in 1 .. MaxNum
    <2>1. e[1] \in Buffers BY DEF Entries
    <2> QED BY <2>1, BufferTypes DEF BufferInfo
<1>2. extra[f[1]] \subseteq 1 .. MaxNum - 1 BY DEF TypeOK
<1>3. OtherCopies(f) \subseteq 1 .. MaxNum - 1
    BY <1>1, <1>2, JobsAssumption DEF OtherCopies
<1>4. IsFiniteSet(1 .. MaxNum - 1) /\ Cardinality(1 .. MaxNum - 1) = MaxNum - 1
    BY FS_Interval, JobsAssumption
<1>5. n \in Nat /\ n <= MaxNum - 1
    BY <1>3, <1>4, FS_Subset, FS_CardinalityType
<1>6. OtherOffsets(f) = [i \in 1 .. n |-> bitsOffset[<<f[1], SortedSeq(OtherCopies(f))[i]>>]]
    BY DEF OtherOffsets, SortedSeq
<1>7. e[2] = 0
    <2>1. e[2] \in 0 .. MaxNum - 1 /\ e[2] < Info(e).num BY DEF Entries
    <2>2. Info(e).num > 1 => e[2] = 0 BY DEF CanFollow
    <2> QED BY <1>1, <2>1, <2>2, JobsAssumption
<1> HIDE DEF n
<1> QED BY <1>5, <1>6, <1>7 DEF n

LEMMA PlanEntryOK ==
    ASSUME IInv, PlanEntry PROVE IInv'
<1>1. /\ status \in {"single", "multi", "workspace"} /\ Running /\ Running'
      /\ job' = job /\ status' = status /\ TypeOK /\ HistoryOK
    BY HistoryFromInv DEF PlanEntry, Planning, Running, IInv
<1>2. PICK e \in Entries : \E level \in MinLevel .. si.specLevel :
          \E place \in Places(e, level) : PlanAt(e, place, level)
    BY DEF PlanEntry
<1>18. PICK level \in MinLevel .. si.specLevel :
          \E place \in Places(e, level) : PlanAt(e, place, level)
    BY <1>2
<1>19. PICK place \in Places(e, level) : PlanAt(e, place, level)
    BY <1>18
<1> DEFINE offset == place.offset
           r == Record(e, offset, level, FALSE)
<1>3. e \in Buffers \X Nat /\ e[1] \in Buffers /\ e \in AllEntries
    BY DEF Entries, AllEntries
<1>4. level \in Levels /\ level \in Nat
    <2>1. si.specLevel \in 0 .. 3 BY <1>1 DEF TypeOK, Levels
    <2> QED BY <2>1 DEF MinLevel, Levels
<1>5. /\ place \in outline /\ place \in BoundType /\ offset \in Nat
      /\ Reaching(Window(offset, Bits(e)), offset + Bits(e)) # {}
      /\ \A b \in Window(offset, Bits(e)) : ~LifeConflict(e[1], b.life)
      /\ level = 1 => CanFollow(e, place.last)
    BY <1>1 DEF Places, Fits, TypeOK, BoundType
<1>6. Place(e, offset)
    <2>1. Bits(e) \in Nat \ {0} BY <1>1, <1>3, BufferTypes
    <2>2. place \in Window(offset, Bits(e)) BY <1>5, <2>1 DEF Window
    <2> QED BY <1>3, <1>5, <2>2 DEF Place
<1> DEFINE offsets == IF level = 1 THEN OtherOffsets(place.last) ELSE <<>>
<1>7. /\ UpdateOutline(e, offset, level, FALSE)
      /\ bitsOffset' = [f \in AllEntries |->
             IF f = e THEN offset
             ELSE IF f[1] = e[1] /\ f[2] \in DOMAIN offsets THEN offsets[f[2]]
             ELSE bitsOffset[f]]
      /\ extra' = IF level = 1
                  THEN [extra EXCEPT ![e[1]] = Info(e).num .. Len(offsets)]
                  ELSE extra
      /\ others' = [first |-> e, copies |-> DOMAIN offsets]
    BY <1>19 DEF PlanAt
<1>8. /\ HistoryOK' /\ Len(his') = Len(his) + 1
      /\ \A i \in 1 .. Len(his) : his'[i] = his[i]
      /\ his'[Len(his) + 1] = r
    BY <1>1, <1>4, <1>6, <1>7, Extending
<1>9. r.entry = e /\ r.offset = offset /\ r.allExtent = Bits(e) BY DEF Record
<1> HIDE DEF r
(* The addresses of the copies that follow. *)
<1> DEFINE f == place.last
           n == Cardinality(OtherCopies(f))
<1>10. ASSUME level = 1
       PROVE  /\ n \in Nat /\ n <= MaxNum - 1 /\ DOMAIN offsets = 1 .. n /\ Len(offsets) = n
              /\ \A k \in 1 .. n : offsets[k] = OtherOffsets(f)[k] /\ ~PlannedConflict(e, offsets[k])
              /\ e[2] = 0
    <2>1. f \in Buffers \X Nat /\ CanFollow(e, f)
        BY <1>5, <1>10 DEF BoundType, CanFollow
    <2>2. offsets = OtherOffsets(f) BY <1>10
    <2>3. /\ e[2] = 0 /\ n \in Nat /\ n <= MaxNum - 1
          /\ DOMAIN offsets = 1 .. n /\ Len(offsets) = n
        BY <1>1, <2>1, <2>2, Following
    <2>4. \A k \in 1 .. n : ~PlannedConflict(e, OtherOffsets(f)[k]) BY <2>1 DEF CanFollow
    <2> QED BY <2>2, <2>3, <2>4
<1>11. level # 1 => DOMAIN offsets = {} OBVIOUS
<1> HIDE DEF offsets
<1>12. DOMAIN offsets \subseteq 1 .. MaxNum - 1
    BY <1>10, <1>11, JobsAssumption
<1>13. NoOverwrite'
    <2>1. ASSUME NEW i \in DOMAIN his, SameMemory(his[i], r)
          PROVE  MeetOnlyAtPoints(his[i].entry[1], r.entry[1])
        BY <1>1, <1>5, <1>6, <1>9, <2>1, LivesApart DEF SameMemory
    <2>2. his' \in Seq(RecordType) BY <1>1, <1>8, SameJob DEF HistoryOK
    <2> QED BY <1>1, <1>8, <2>1, <2>2, OneMore
<1>14. ASSUME level = 1, NEW k \in DOMAIN offsets
       PROVE  \A i \in DOMAIN his' :
                  his'[i].entry[1] # e[1]
                  /\ Overlap(his'[i].offset, his'[i].allExtent, bitsOffset'[<<e[1], k>>], Bits(e))
                      => Times(Pieces(e[1])) \cap Times(Pieces(his'[i].entry[1])) = {}
    <2>1. bitsOffset'[<<e[1], k>>] = offsets[k]
        <3>1. k \in 1 .. MaxNum - 1 BY <1>12, <1>14
        <3>2. <<e[1], k>> \in AllEntries BY <1>3, <3>1, JobsAssumption DEF AllEntries
        <3>3. <<e[1], k>> # e BY <1>10, <1>14, <3>1
        <3> QED BY <1>7, <1>14, <3>2, <3>3
    <2>2. ~PlannedConflict(e, offsets[k]) BY <1>10, <1>14
    <2>3. /\ his \in Seq(RecordType) /\ Len(his) \in Nat
          /\ his' \in Seq(RecordType)' /\ DOMAIN his' = 1 .. Len(his) + 1
        BY <1>1, <1>8 DEF HistoryOK
    <2>4. ASSUME NEW i \in 1 .. Len(his) + 1, his'[i].entry[1] # e[1],
                 Overlap(his'[i].offset, his'[i].allExtent, offsets[k], Bits(e))
          PROVE  Times(Pieces(e[1])) \cap Times(Pieces(his'[i].entry[1])) = {}
        <3>1. i \in 1 .. Len(his) BY <1>8, <1>9, <2>3, <2>4
        <3> QED BY <1>8, <2>2, <2>3, <2>4, <3>1 DEF PlannedConflict
    <2> QED BY <2>1, <2>3, <2>4
<1>20. OthersFree'
    <2>1. level = 1 => status # "single" BY <1>4 DEF MinLevel
    <2>2. others'.first = e /\ others'.copies = DOMAIN offsets BY <1>7
    <2>3. DOMAIN offsets # {} => level = 1 BY <1>11
    <2>4. /\ \A b : Times(Pieces(b))' = Times(Pieces(b))
          /\ \A x : Bits(x)' = Bits(x)
        BY <1>1, SameJob DEF Times
    <2>5. ASSUME NEW k \in DOMAIN offsets
          PROVE  Free(others.first, bitsOffset[<<others.first[1], k>>])'
        BY <1>14, <2>2, <2>3, <2>4 DEF Free
    <2> QED BY <1>1, <2>1, <2>2, <2>3, <2>5, SameJob DEF OthersFree
<1>15. TypeOK'
    <2>1. SiOK'
        <3>1. SiOK BY <1>1 DEF TypeOK, SiOK
        <3>2. Advance BY DEF PlanEntry
        <3> QED BY <3>1, <3>2 DEF Advance, SiOK, Levels
    <2>2. extra' \in [Buffers -> SUBSET (1 .. MaxNum - 1)]
        <3>1. extra \in [Buffers -> SUBSET (1 .. MaxNum - 1)] BY <1>1 DEF TypeOK
        <3>2. Info(e).num \in 1 .. MaxNum BY <1>1, <1>3, BufferTypes DEF BufferInfo
        <3>3. level = 1 => Info(e).num .. Len(offsets) \subseteq 1 .. MaxNum - 1
            BY <1>10, <3>2, JobsAssumption
        <3> QED BY <1>7, <3>1, <3>3
    <2>3. others' \in [first : Entries \cup {NoEntry}, copies : SUBSET (1 .. MaxNum - 1)]
        BY <1>7, <1>12
    <2>4. DOMAIN bitsOffset' = AllEntries BY <1>7
    <2> QED BY <1>1, <1>8, <2>1, <2>2, <2>3, <2>4, SameJob DEF TypeOK, HistoryOK, SiOK
<1>16. StartsEmpty' BY <1>1 DEF StartsEmpty
<1> QED BY <1>8, <1>13, <1>15, <1>16, <1>20 DEF IInv, HistoryOK

(* A copy is entered where no plan of another buffer lives when it does.   *)
LEMMA EnterOtherOK ==
    ASSUME IInv, EnterOther PROVE IInv'
<1>1. PICK k \in others.copies :
          /\ \E first \in {others.first}, offset \in {bitsOffset[<<others.first[1], k>>]} :
                 \/ /\ HasRoom(first, offset)
                    /\ \E copy \in CopyAt(first, offset) : UpdateOutline(copy, offset, 1, TRUE)
                 \/ ~HasRoom(first, offset) /\ UNCHANGED <<outline, his, trail, applied>>
          /\ others' = [others EXCEPT !.copies = @ \ {k}]
          /\ UNCHANGED <<job, order, status, si, needBits, bitsOffset, extra, splitOutline>>
    BY DEF EnterOther
<1>2. /\ status \in {"multi", "workspace"} /\ Running /\ Running' /\ status' = status
      /\ job' = job /\ bitsOffset' = bitsOffset /\ extra' = extra
      /\ others.first \in Entries /\ TypeOK /\ HistoryOK
      /\ \A l \in others.copies : Free(others.first, bitsOffset[<<others.first[1], l>>])
    BY <1>1, HistoryFromInv DEF IInv, OthersFree, Running
<1> DEFINE first == others.first
           offset == bitsOffset[<<first[1], k>>]
<1>3. SiOK' BY <1>1, <1>2 DEF TypeOK, SiOK
<1>4. /\ others'.first = first /\ others'.copies \subseteq others.copies
      /\ others' \in [first : Entries \cup {NoEntry}, copies : SUBSET (1 .. MaxNum - 1)]
    BY <1>1, <1>2 DEF TypeOK
<1>5. CASE UNCHANGED <<outline, his, trail>>
    <2>1. SpaceBits' = SpaceBits BY <1>2 DEF SpaceBits
    <2>2. \E l : others' = [others EXCEPT !.copies = @ \ {l}] BY <1>1
    <2>3. status' \in Statuses /\ status' # "start" BY <1>2 DEF Statuses
    <2>4. DOMAIN bitsOffset' = AllEntries BY <1>2 DEF TypeOK
    <2> QED BY <1>2, <1>3, <1>5, <2>1, <2>2, <2>3, <2>4, Idle
<1>6. ASSUME HasRoom(first, offset), NEW copy \in CopyAt(first, offset),
             UpdateOutline(copy, offset, 1, TRUE)
      PROVE  IInv'
    <2>1. first \in Buffers \X Nat /\ first[1] \in Buffers BY <1>2 DEF Entries
    <2>2. Info(first).num \in 1 .. MaxNum /\ extra[first[1]] \subseteq 1 .. MaxNum - 1
        BY <1>2, <2>1, BufferTypes DEF TypeOK, BufferInfo
    <2>3. copy \in Buffers \X Nat /\ copy[1] = first[1] /\ Bits(copy) = Bits(first)
        <3>1. PICK c \in extra[first[1]] \cup 1 .. Info(first).num - 1 : copy = <<first[1], c>>
            BY <1>6 DEF CopyAt
        <3>2. c \in Nat BY <2>2, <3>1, JobsAssumption
        <3> QED BY <2>1, <3>1, <3>2 DEF Bits, Info
    <2>4. Place(copy, offset) BY <1>6, <2>3 DEF HasRoom, Place
    <2> DEFINE r == Record(copy, offset, 1, TRUE)
    <2>5. /\ HistoryOK' /\ Len(his') = Len(his) + 1
          /\ \A i \in 1 .. Len(his) : his'[i] = his[i]
          /\ his'[Len(his) + 1] = r
        <3>1. 1 \in Levels /\ TRUE \in BOOLEAN BY DEF Levels
        <3>2. UpdateOutline(copy, offset, 1, TRUE) BY <1>6
        <3> HIDE DEF offset
        <3> QED BY <1>2, <2>4, <3>1, <3>2, Extending
    <2>6. r.entry = copy /\ r.offset = offset /\ r.allExtent = Bits(first)
        BY <2>3 DEF Record
    <2> HIDE DEF r, offset
    <2>7. his \in Seq(RecordType) /\ Len(his) \in Nat /\ his' \in Seq(RecordType)
        BY <1>2, <2>5, SameJob DEF HistoryOK
    <2>8. ASSUME NEW i \in DOMAIN his, his[i].entry[1] # r.entry[1], SameMemory(his[i], r)
          PROVE  MeetOnlyAtPoints(his[i].entry[1], r.entry[1])
        <3>1. Free(first, offset) BY <1>2 DEF offset
        <3>2. Times(Pieces(first[1])) \cap Times(Pieces(his[i].entry[1])) = {}
            BY <2>3, <2>6, <2>8, <3>1 DEF Free, SameMemory
        <3>3. ASSUME NEW b, NEW v \in job.buffers[b].life, NEW t \in v[1] .. v[2]
              PROVE  t \in Times(Pieces(b))
            <4>1. [buffer |-> b, lo |-> v[1], hi |-> v[2]] \in Pieces(b) BY <3>3 DEF Pieces
            <4> QED BY <3>3, <4>1 DEF Times
        <3> QED BY <2>3, <2>6, <3>2, <3>3 DEF MeetOnlyAtPoints
    <2>9. NoOverwrite' BY <1>2, <2>5, <2>7, <2>8, OneMore
    <2>10. OthersFree'
        <3>1. /\ \A b : Times(Pieces(b))' = Times(Pieces(b))
              /\ \A x : Bits(x)' = Bits(x)
            BY <1>2, SameJob DEF Times
        <3>2. ASSUME NEW l \in others'.copies, NEW i \in DOMAIN his', his'[i].entry[1] # first[1],
                     Overlap(his'[i].offset, his'[i].allExtent, bitsOffset[<<first[1], l>>],
                             Bits(first))
              PROVE  Times(Pieces(first[1])) \cap Times(Pieces(his'[i].entry[1])) = {}
            <4>1. i \in 1 .. Len(his) + 1 BY <2>5, <2>7, <3>2
            <4>2. i \in 1 .. Len(his) BY <2>3, <2>5, <2>6, <2>7, <3>2, <4>1
            <4>3. Free(first, bitsOffset[<<first[1], l>>]) BY <1>2, <1>4, <3>2
            <4>4. i \in DOMAIN his /\ his'[i] = his[i] BY <2>5, <2>7, <4>2
            <4> QED BY <3>2, <4>3, <4>4 DEF Free
        <3>3. ASSUME NEW l \in others'.copies
              PROVE  Free(others.first, bitsOffset[<<others.first[1], l>>])'
            BY <1>2, <1>4, <3>1, <3>2 DEF Free
        <3> QED BY <1>2, <1>4, <3>3, SameJob DEF OthersFree
    <2>11. TypeOK' BY <1>2, <1>3, <1>4, <2>5, SameJob DEF TypeOK, HistoryOK, SiOK
    <2>12. StartsEmpty' BY <1>2 DEF StartsEmpty
    <2> QED BY <2>5, <2>9, <2>10, <2>11, <2>12 DEF IInv, HistoryOK
<1> QED BY <1>1, <1>5, <1>6

(* No plan stands there that did not stand there before. *)
LEMMA RollBackOK ==
    ASSUME IInv, RollBack PROVE IInv'
<1>1. /\ status = "rollback" /\ Running /\ his # <<>> /\ job' = job /\ others' = others
      /\ bitsOffset' = bitsOffset /\ status' \in {"rollback", "strategy"} /\ Running'
      /\ outline' = RollbackOutline(his[Len(his)])
      /\ his' = SubSeq(his, 1, Len(his) - 1) /\ trail' = SubSeq(trail, 1, Len(trail) - 1)
    BY DEF RollBack, Running
<1>2. SpaceBits' = SpaceBits BY <1>1 DEF SpaceBits
<1>3. HistoryOK /\ TypeOK BY HistoryFromInv DEF IInv
<1>4. /\ HistoryOK' /\ Len(his') = Len(his) - 1
      /\ \A i \in 1 .. Len(his) - 1 : his'[i] = his[i]
    BY <1>1, <1>2, <1>3, Shrinking
<1>5. /\ his \in Seq(RecordType) /\ Len(his) \in Nat /\ his' \in Seq(RecordType)
      /\ Len(his) > 0
    BY <1>1, <1>3, <1>4, SameJob DEF HistoryOK
<1>6. NoOverwrite'
    <2>1. DOMAIN his' = 1 .. Len(his) - 1 BY <1>4, <1>5
    <2> SUFFICES ASSUME NEW i \in 1 .. Len(his) - 1, NEW j \in 1 .. Len(his) - 1,
                        his'[i].entry[1] # his'[j].entry[1], SameMemory(his'[i], his'[j])
                 PROVE  MeetOnlyAtPoints(his'[i].entry[1], his'[j].entry[1])
        BY <1>1, <2>1, SameJob DEF NoOverwrite, SameMemory
    <2>2. i \in DOMAIN his /\ j \in DOMAIN his BY <1>5
    <2> QED BY <1>4, <2>2 DEF IInv, NoOverwrite
<1>7. OthersFree' BY <1>1 DEF IInv, OthersFree
<1>8. SiOK'
    <2> DEFINE r == his[Len(his)]
    <2>1. r \in RecordType BY <1>5
    <2>2. r.childIdx \in Int /\ r.specLevel \in Levels BY <2>1 DEF RecordType
    <2> QED BY <1>3, <2>2 DEF RollBack, TypeOK, SiOK
<1>9. extra' \in [Buffers -> SUBSET (1 .. MaxNum - 1)]
    BY <1>3 DEF TypeOK, RollBack
<1>10. TypeOK' BY <1>1, <1>3, <1>4, <1>8, <1>9, SameJob DEF TypeOK, HistoryOK, SiOK
<1>11. StartsEmpty' BY <1>1 DEF StartsEmpty
<1> QED BY <1>4, <1>6, <1>7, <1>10, <1>11 DEF IInv, HistoryOK

(* The plan in unlimited memory is kept, or a plan in the memory there is  *)
(* begins.                                                                 *)
LEMMA SingleLevelDoneOK ==
    ASSUME IInv, SingleLevelDone PROVE IInv'
<1>1. /\ status = "single" /\ job' = job /\ extra' = extra /\ others' = others
      /\ bitsOffset' = bitsOffset
    BY DEF SingleLevelDone
<1>2. others.copies = {} BY <1>1 DEF IInv, OthersFree
<1>3. CASE status' = "done"
    <2>1. outline' = outline /\ his' = his /\ trail' = trail /\ si' = si
        BY <1>3 DEF SingleLevelDone
    <2>2. SiOK' /\ DOMAIN bitsOffset' = AllEntries
        BY <1>1, <2>1 DEF IInv, TypeOK, SiOK
    <2>3. status' \in Statuses /\ ~Running' /\ status' # "start"
        BY <1>3 DEF Statuses, Running
    <2> QED BY <1>1, <1>2, <2>1, <2>2, <2>3, Idle
<1>4. CASE status' # "done"
    <2>1. /\ status' = "multi" /\ outline' = WholeSpace(job.maxBits)
          /\ his' = <<>> /\ trail' = <<>> /\ si' = SpecInfo(3)
        BY <1>4 DEF SingleLevelDone
    <2>2. SiOK' BY <2>1, SpecInfoOK DEF Levels
    <2>3. outline' = WholeSpace(SpaceBits') BY <1>1, <2>1 DEF SpaceBits
    <2> QED BY <1>1, <1>2, <2>1, <2>2, <2>3, Beginning
<1> QED BY <1>3, <1>4

LEMMA StartingOK ==
    ASSUME IInv, StartSingleLevel \/ StartWorkspace PROVE IInv'
<1>1. /\ status = "start" /\ status' \in {"single", "workspace"} /\ job' = job
      /\ extra' = extra /\ others' = others /\ bitsOffset' = bitsOffset
      /\ his' = his /\ trail' = trail /\ outline' = WholeSpace(Unlimited)
      /\ si' = si \/ si' = SpecInfo(0)
    BY DEF StartSingleLevel, StartWorkspace
<1>2. others.copies = {} BY <1>1 DEF IInv, OthersFree
<1>3. his' = <<>> BY <1>1 DEF IInv, StartsEmpty
<1>4. trail' = <<>>
    <2>1. trail \in Seq(SUBSET BoundType) /\ Len(trail) = 0
        BY <1>1, <1>3 DEF IInv, TypeOK
    <2> QED BY <1>1, <2>1
<1>5. SiOK'
    <2>1. SiOK BY DEF IInv, TypeOK, SiOK
    <2>2. 0 \in Levels BY DEF Levels
    <2>3. si' = si => SiOK' BY <2>1 DEF SiOK
    <2> QED BY <1>1, <2>2, <2>3, SpecInfoOK
<1>6. outline' = WholeSpace(SpaceBits') BY <1>1 DEF SpaceBits
<1> QED BY <1>1, <1>2, <1>3, <1>4, <1>5, <1>6, Beginning

(* The other steps touch neither outline nor history. *)
LEMMA QuietStepsOK ==
    ASSUME IInv,
           \/ PlanWithoutReuse \/ OneTooLarge \/ MultiLevelDone \/ AlreadyPlanned
           \/ FailToPlan \/ LowerLevel \/ RestartWithSplitOutline \/ GiveUp \/ Finished
    PROVE  IInv'
<1>1. /\ SiOK /\ DOMAIN bitsOffset = AllEntries /\ status \in Statuses
      /\ (others.copies # {} => status \in {"multi", "workspace"})
    BY DEF IInv, TypeOK, SiOK, Statuses, OthersFree
<1>2. CASE PlanWithoutReuse
    <2>1. SiOK' BY <1>1, <1>2 DEF PlanWithoutReuse, SiOK
    <2>2. status' = "done" /\ others.copies = {} BY <1>1, <1>2 DEF PlanWithoutReuse
    <2>3. status' \in Statuses /\ ~Running' /\ status' # "start"
        BY <2>2 DEF Statuses, Running
    <2>4. DOMAIN bitsOffset' = AllEntries BY <1>2 DEF PlanWithoutReuse
    <2> QED BY <1>2, <2>1, <2>2, <2>3, <2>4, Idle DEF PlanWithoutReuse
<1>3. ASSUME job' = job, outline' = outline, his' = his, trail' = trail, extra' = extra,
             others' = others, bitsOffset' = bitsOffset, SiOK', status' \in Statuses,
             others.copies # {} => status' = status, status' # "start" \/ status' = status,
             Running' => Running /\ SpaceBits' = SpaceBits
      PROVE  IInv'
    <2>1. DOMAIN bitsOffset' = AllEntries BY <1>1, <1>3
    <2> QED BY <1>3, <2>1, Idle
<1>4. CASE OneTooLarge \/ MultiLevelDone \/ GiveUp
    <2>1. SiOK' BY <1>1, <1>4 DEF OneTooLarge, MultiLevelDone, GiveUp, SiOK
    <2>2. status' \in {"done", "failed"} BY <1>4 DEF OneTooLarge, MultiLevelDone, GiveUp
    <2>3. others.copies = {}
        BY <1>1, <1>4 DEF OneTooLarge, MultiLevelDone, GiveUp, RolledBack
    <2>4. status' \in Statuses /\ ~Running' /\ status' # "start"
        BY <2>2 DEF Statuses, Running
    <2> QED BY <1>3, <1>4, <2>1, <2>3, <2>4 DEF OneTooLarge, MultiLevelDone, GiveUp
<1>5. CASE AlreadyPlanned
    <2>1. SiOK' BY <1>1, <1>5 DEF AlreadyPlanned, Advance, SiOK, Levels
    <2>2. status' = status /\ job' = job BY <1>5 DEF AlreadyPlanned
    <2>3. Running' => Running /\ SpaceBits' = SpaceBits BY <2>2 DEF Running, SpaceBits
    <2> QED BY <1>1, <1>3, <1>5, <2>1, <2>2, <2>3 DEF AlreadyPlanned
<1>6. CASE FailToPlan
    <2>1. SiOK' BY <1>1, <1>6 DEF FailToPlan, SiOK
    <2>2. /\ status = "multi" /\ status' = "rollback" /\ others.copies = {} /\ job' = job
        BY <1>6 DEF FailToPlan, Planning
    <2>3. Running /\ SpaceBits' = SpaceBits /\ status' \in Statuses
        BY <2>2 DEF Running, SpaceBits, Statuses
    <2> QED BY <1>3, <1>6, <2>1, <2>2, <2>3 DEF FailToPlan
<1>7. CASE LowerLevel \/ RestartWithSplitOutline
    <2>1. SiOK'
        <3>1. CASE LowerLevel
            <4>1. si.specLevel > 0 /\ si' = [si EXCEPT !.specLevel = @ - 1]
                BY <3>1 DEF LowerLevel, CanLower
            <4> QED BY <1>1, <4>1 DEF SiOK, Levels
        <3>2. CASE RestartWithSplitOutline
            BY <3>2, SpecInfoOK DEF RestartWithSplitOutline, Levels
        <3> QED BY <1>7, <3>1, <3>2
    <2>2. /\ status \in {"rollback", "strategy"} /\ status' = "multi" /\ job' = job
        BY <1>7 DEF LowerLevel, RestartWithSplitOutline, RolledBack
    <2>3. others.copies = {} BY <1>1, <2>2
    <2>4. Running /\ SpaceBits' = SpaceBits /\ status' \in Statuses
        BY <2>2 DEF Running, SpaceBits, Statuses
    <2> QED BY <1>3, <1>7, <2>1, <2>2, <2>3, <2>4 DEF LowerLevel, RestartWithSplitOutline
<1>8. CASE Finished
    <2>1. SiOK' BY <1>1, <1>8 DEF Finished, vars, SiOK
    <2>2. status' = status /\ job' = job BY <1>8 DEF Finished, vars
    <2>3. Running' => Running /\ SpaceBits' = SpaceBits BY <2>2 DEF Running, SpaceBits
    <2> QED BY <1>1, <1>3, <1>8, <2>1, <2>2, <2>3 DEF Finished, vars
<1> QED BY <1>2, <1>4, <1>5, <1>6, <1>7, <1>8

LEMMA Stutter ==
    ASSUME IInv, UNCHANGED vars PROVE IInv'
<1>1. SiOK' /\ DOMAIN bitsOffset' = AllEntries /\ status' \in Statuses
    BY DEF IInv, TypeOK, SiOK, Statuses, vars
<1>2. Running' => Running /\ SpaceBits' = SpaceBits BY DEF Running, SpaceBits, vars
<1> QED BY <1>1, <1>2, Idle DEF vars

LEMMA Inductive ==
    IInv /\ [Next]_vars => IInv'
<1> SUFFICES ASSUME IInv, [Next]_vars PROVE IInv'
    OBVIOUS
<1>1. CASE PlanEntry BY <1>1, PlanEntryOK
<1>2. CASE EnterOther BY <1>2, EnterOtherOK
<1>3. CASE RollBack BY <1>3, RollBackOK
<1>4. CASE SingleLevelDone BY <1>4, SingleLevelDoneOK
<1>5. CASE StartSingleLevel \/ StartWorkspace BY <1>5, StartingOK
<1>6. CASE \/ PlanWithoutReuse \/ OneTooLarge \/ MultiLevelDone \/ AlreadyPlanned
           \/ FailToPlan \/ LowerLevel \/ RestartWithSplitOutline \/ GiveUp \/ Finished
    BY <1>6, QuietStepsOK
<1>7. CASE UNCHANGED vars BY <1>7, Stutter
<1> QED BY <1>1, <1>2, <1>3, <1>4, <1>5, <1>6, <1>7 DEF Next

LEMMA Invariance ==
    Spec => []IInv
<1>1. Init => IInv BY InitOK
<1> QED BY <1>1, Inductive, PTL DEF Spec

-----------------------------------------------------------------------------
(* Least numbers *)

(* A set of numbers that has 0 and with each number the next has them all. *)
LEMMA Induction ==
    ASSUME NEW S, 0 \in S, \A n \in Nat : n \in S => n + 1 \in S
    PROVE  Nat \subseteq S
<1> DEFINE Upto(n) == 0 .. n
           T == {Upto(n) : n \in Nat \ S}
<1> SUFFICES ASSUME Nat \ S # {} PROVE FALSE
    OBVIOUS
<1>1. IsWellFoundedOn(StrictSubsetOrdering(Nat), FiniteSubsetsOf(Nat))
    BY FS_StrictSubsetOrderingWellFounded
<1>2. T \subseteq FiniteSubsetsOf(Nat) /\ T # {}
    <2>1. \A n \in Nat : Upto(n) \in SUBSET Nat /\ IsFiniteSet(Upto(n))
        BY FS_Interval
    <2> QED BY <2>1 DEF FiniteSubsetsOf
<1>3. PICK U \in T : \A V \in T : <<V, U>> \notin StrictSubsetOrdering(Nat)
    BY <1>1, <1>2, WFMin
<1>4. PICK n \in Nat \ S : U = Upto(n)
    BY <1>3
<1>5. n - 1 \in Nat \ S /\ n \in Nat
    BY <1>4
<1>6. Upto(n - 1) \subseteq Upto(n) /\ n \notin Upto(n - 1) /\ n \in Upto(n)
    BY <1>5
<1>7. Upto(n - 1) \in SUBSET Nat /\ Upto(n) \in SUBSET Nat /\ Upto(n - 1) \in T
    BY <1>5
<1> HIDE DEF Upto
<1>8. <<Upto(n - 1), U>> \in StrictSubsetOrdering(Nat)
    BY <1>4, <1>6, <1>7 DEF StrictSubsetOrdering
<1> QED BY <1>3, <1>7, <1>8

-----------------------------------------------------------------------------
(* Sums of sizes *)

Pick(s) == CHOOSE x \in s : TRUE
IsSum(g, S) ==
    g = [s \in SUBSET S |-> IF s = {} THEN 0 ELSE Bits(Pick(s)) + g[s \ {Pick(s)}]]

LEMMA Fewer ==
    ASSUME NEW s, IsFiniteSet(s), NEW n \in Nat, Cardinality(s) <= n + 1, NEW x \in s
    PROVE  IsFiniteSet(s \ {x}) /\ Cardinality(s \ {x}) <= n
<1>1. Cardinality(s \ {x}) = Cardinality(s) - 1 /\ IsFiniteSet(s \ {x})
    BY FS_RemoveElement
<1> QED BY <1>1, FS_CardinalityType

LEMMA NoneLeft ==
    ASSUME NEW s, IsFiniteSet(s), Cardinality(s) <= 0 PROVE s = {}
BY FS_CardinalityType, FS_EmptySet

LEMMA SumExists ==
    ASSUME NEW S, IsFiniteSet(S) PROVE \E g : IsSum(g, S)
<1> DEFINE Right(g, s) == g[s] = IF s = {} THEN 0 ELSE Bits(Pick(s)) + g[s \ {Pick(s)}]
           Upto(n) == {s \in SUBSET S : Cardinality(s) <= n}
           Good(g, n) == /\ g = [s \in SUBSET S |-> g[s]]
                         /\ \A s \in Upto(n) : Right(g, s)
           N == {n \in Nat : \E g : Good(g, n)}
<1>1. 0 \in N
    <2> DEFINE g == [s \in SUBSET S |-> 0]
    <2>1. \A s \in Upto(0) : s = {} BY NoneLeft, FS_Subset
    <2>2. Good(g, 0) BY <2>1
    <2> QED BY <2>2
<1>2. ASSUME NEW n \in Nat, n \in N PROVE n + 1 \in N
    <2>1. PICK g : Good(g, n) BY <1>2
    <2> DEFINE h == [s \in SUBSET S |->
                        IF s = {} THEN 0 ELSE Bits(Pick(s)) + g[s \ {Pick(s)}]]
    <2>2. \A s \in Upto(n) : h[s] = g[s] BY <2>1
    <2>3. ASSUME NEW s \in Upto(n + 1) PROVE Right(h, s)
        <3>1. CASE s = {} BY <3>1
        <3>2. CASE s # {}
            <4>1. Pick(s) \in s BY <3>2 DEF Pick
            <4>2. IsFiniteSet(s) BY FS_Subset
            <4>3. Cardinality(s \ {Pick(s)}) <= n BY <4>1, <4>2, Fewer
            <4>4. s \ {Pick(s)} \in Upto(n) BY <4>3
            <4>5. h[s \ {Pick(s)}] = g[s \ {Pick(s)}] BY <2>2, <4>4
            <4>6. h[s] = Bits(Pick(s)) + g[s \ {Pick(s)}] BY <3>2
            <4> HIDE DEF h
            <4> QED BY <3>2, <4>5, <4>6
        <3> QED BY <3>1, <3>2
    <2>4. h = [s \in SUBSET S |-> h[s]] OBVIOUS
    <2> HIDE DEF h, Right
    <2>5. Good(h, n + 1) BY <2>3, <2>4
    <2>6. n + 1 \in Nat OBVIOUS
    <2> HIDE DEF Good
    <2> QED BY <2>5, <2>6
<1>3. Cardinality(S) \in N
    <2> HIDE DEF N
    <2>1. Nat \subseteq N BY <1>1, <1>2, Induction
    <2> QED BY <2>1, FS_CardinalityType
<1>4. PICK g : Good(g, Cardinality(S)) BY <1>3
<1>5. \A s \in SUBSET S : s \in Upto(Cardinality(S)) BY FS_Subset
<1>6. \A s \in SUBSET S : Right(g, s) BY <1>4, <1>5
<1>7. g = [s \in SUBSET S |-> IF s = {} THEN 0 ELSE Bits(Pick(s)) + g[s \ {Pick(s)}]]
    BY <1>4, <1>6
<1> QED BY <1>7 DEF IsSum

LEMMA SumsAgree ==
    ASSUME NEW S, IsFiniteSet(S), NEW T \in SUBSET S, NEW g, IsSum(g, S), NEW h, IsSum(h, T),
           NEW s \in SUBSET T
    PROVE  g[s] = h[s]
<1> DEFINE N == {n \in Nat : \A u \in SUBSET T : Cardinality(u) <= n => g[u] = h[u]}
<1>1. \A u \in SUBSET T : IsFiniteSet(u) BY FS_Subset
<1>2. \A u \in SUBSET S :
          g[u] = IF u = {} THEN 0 ELSE Bits(Pick(u)) + g[u \ {Pick(u)}]
    BY DEF IsSum
<1>3. \A u \in SUBSET T :
          h[u] = IF u = {} THEN 0 ELSE Bits(Pick(u)) + h[u \ {Pick(u)}]
    BY DEF IsSum
<1>4. 0 \in N
    <2>1. \A u \in SUBSET T : Cardinality(u) <= 0 => u = {} BY <1>1, NoneLeft
    <2> QED BY <1>2, <1>3, <2>1
<1>5. ASSUME NEW n \in Nat, n \in N PROVE n + 1 \in N
    <2>1. ASSUME NEW u \in SUBSET T, Cardinality(u) <= n + 1, u # {} PROVE g[u] = h[u]
        <3>1. Pick(u) \in u BY <2>1 DEF Pick
        <3>2. Cardinality(u \ {Pick(u)}) <= n BY <1>1, <2>1, <3>1, Fewer
        <3>3. g[u \ {Pick(u)}] = h[u \ {Pick(u)}] BY <1>5, <3>2
        <3> QED BY <1>2, <1>3, <2>1, <3>3
    <2>2. \A u \in SUBSET T : Cardinality(u) <= n + 1 => g[u] = h[u]
        BY <1>2, <1>3, <2>1
    <2>3. n + 1 \in Nat OBVIOUS
    <2> QED BY <2>2, <2>3
<1>6. Cardinality(s) \in N
    <2> HIDE DEF N
    <2>1. Nat \subseteq N BY <1>4, <1>5, Induction
    <2> QED BY <1>1, <2>1, FS_CardinalityType
<1>7. Cardinality(s) <= Cardinality(s) BY <1>1, FS_CardinalityType
<1> QED BY <1>6, <1>7

(* MapThenSumSet is such a sum. *)
LEMMA SumOf ==
    ASSUME NEW S, IsFiniteSet(S), NEW g, IsSum(g, S), NEW T \in SUBSET S
    PROVE  MapThenSumSet(Bits, T) = g[T]
<1> DEFINE sum[s \in SUBSET T] == IF s = {} THEN 0 ELSE Bits(Pick(s)) + sum[s \ {Pick(s)}]
<1>1. MapThenSumSet(Bits, T) = sum[T] BY DEF MapThenSumSet, MapThenFoldSet, Pick
<1>2. IsFiniteSet(T) BY FS_Subset
<1>3. \E h : IsSum(h, T) BY <1>2, SumExists
<1>4. IsSum(sum, T) BY <1>3 DEF IsSum
<1> HIDE DEF sum
<1>5. g[T] = sum[T] BY <1>4, SumsAgree
<1> QED BY <1>1, <1>5

(* The members may be taken in any order. *)
LEMMA SumTakes ==
    ASSUME NEW S, IsFiniteSet(S), \A x \in S : Bits(x) \in Nat, NEW g, IsSum(g, S),
           NEW s \in SUBSET S
    PROVE  g[s] \in Nat /\ \A x \in s : g[s] = Bits(x) + g[s \ {x}]
<1> DEFINE Takes(u) == g[u] \in Nat /\ \A x \in u : g[u] = Bits(x) + g[u \ {x}]
           N == {n \in Nat : \A u \in SUBSET S : Cardinality(u) <= n => Takes(u)}
<1>1. \A u \in SUBSET S : IsFiniteSet(u) BY FS_Subset
<1>2. \A u \in SUBSET S :
          g[u] = IF u = {} THEN 0 ELSE Bits(Pick(u)) + g[u \ {Pick(u)}]
    BY DEF IsSum
<1>3. 0 \in N
    <2>1. \A u \in SUBSET S : Cardinality(u) <= 0 => u = {} BY <1>1, NoneLeft
    <2>2. Takes({})
        <3>1. g[{}] = 0 BY <1>2
        <3> QED BY <3>1
    <2> HIDE DEF Takes
    <2> QED BY <2>1, <2>2
<1>4. ASSUME NEW n \in Nat, n \in N PROVE n + 1 \in N
    <2>1. ASSUME NEW u \in SUBSET S, Cardinality(u) <= n + 1, u # {} PROVE Takes(u)
        <3> DEFINE p == Pick(u)
        <3>1. p \in u BY <2>1 DEF Pick
        <3>2. \A x \in u : Takes(u \ {x})
            <4>1. \A x \in u : Cardinality(u \ {x}) <= n BY <1>1, <2>1, Fewer
            <4> QED BY <1>4, <4>1
        <3>3. g[u] = Bits(p) + g[u \ {p}] BY <1>2, <2>1
        <3> HIDE DEF p
        <3>4. \A x \in u : Bits(x) \in Nat /\ g[u \ {x}] \in Nat BY <3>2
        <3>5. ASSUME NEW x \in u, x # p PROVE g[u] = Bits(x) + g[u \ {x}]
            <4>1. g[u \ {p}] = Bits(x) + g[(u \ {p}) \ {x}]
                <5>1. x \in u \ {p} BY <3>5
                <5> QED BY <3>1, <3>2, <5>1
            <4>2. g[u \ {x}] = Bits(p) + g[(u \ {x}) \ {p}]
                <5>1. p \in u \ {x} BY <3>1, <3>5
                <5> QED BY <3>2, <5>1
            <4>3. (u \ {p}) \ {x} = (u \ {x}) \ {p} OBVIOUS
            <4>4. g[(u \ {x}) \ {p}] \in Nat
                <5>1. Cardinality((u \ {x}) \ {p}) <= n
                    <6>1. IsFiniteSet(u \ {x}) /\ Cardinality(u \ {x}) <= n
                        BY <1>1, <2>1, Fewer
                    <6>2. Cardinality((u \ {x}) \ {p}) <= Cardinality(u \ {x})
                        BY <6>1, FS_Subset
                    <6>3. IsFiniteSet((u \ {x}) \ {p}) BY <6>1, FS_Subset
                    <6> QED BY <6>1, <6>2, <6>3, FS_CardinalityType
                <5>2. (u \ {x}) \ {p} \in SUBSET S OBVIOUS
                <5>3. Takes((u \ {x}) \ {p})
                    <6> HIDE DEF Takes
                    <6> QED BY <1>4, <5>1, <5>2
                <5> QED BY <5>3
            <4>5. Bits(x) \in Nat /\ Bits(p) \in Nat BY <3>1, <3>4
            <4>6. g[(u \ {p}) \ {x}] = g[(u \ {x}) \ {p}] BY <4>3
            <4> QED BY <3>3, <4>1, <4>2, <4>4, <4>5, <4>6
        <3>6. g[u] \in Nat
            <4>1. Bits(p) \in Nat /\ g[u \ {p}] \in Nat BY <3>1, <3>4
            <4> QED BY <3>3, <4>1
        <3> QED BY <3>3, <3>5, <3>6
    <2>2. Takes({})
        <3>1. g[{}] = 0 BY <1>2
        <3> QED BY <3>1
    <2>3. n + 1 \in Nat OBVIOUS
    <2> HIDE DEF Takes
    <2> QED BY <2>1, <2>2, <2>3
<1>5. Cardinality(s) \in N
    <2> HIDE DEF N
    <2>1. Nat \subseteq N BY <1>3, <1>4, Induction
    <2> QED BY <1>1, <2>1, FS_CardinalityType
<1>6. Cardinality(s) <= Cardinality(s) BY <1>1, FS_CardinalityType
<1> QED BY <1>5, <1>6

LEMMA SumGrows ==
    ASSUME NEW S, IsFiniteSet(S), \A x \in S : Bits(x) \in Nat, NEW g, IsSum(g, S),
           NEW s \in SUBSET S, NEW t \in SUBSET s
    PROVE  g[t] <= g[s]
<1> DEFINE N == {n \in Nat : \A u \in SUBSET S : t \subseteq u /\ Cardinality(u) <= n
                                                    => g[t] <= g[u]}
<1>1. \A u \in SUBSET S : IsFiniteSet(u) BY FS_Subset
<1>2. \A u \in SUBSET S : g[u] \in Nat /\ \A x \in u : g[u] = Bits(x) + g[u \ {x}]
    BY SumTakes
<1>3. 0 \in N
    <2>1. \A u \in SUBSET S : Cardinality(u) <= 0 => u = {} BY <1>1, NoneLeft
    <2>2. g[{}] <= g[{}] BY <1>2
    <2>3. \A u \in SUBSET S : t \subseteq u /\ Cardinality(u) <= 0 => t = {} /\ u = {} BY <2>1
    <2> QED BY <2>2, <2>3
<1>4. ASSUME NEW n \in Nat, n \in N PROVE n + 1 \in N
    <2>1. ASSUME NEW u \in SUBSET S, t \subseteq u, Cardinality(u) <= n + 1 PROVE g[t] <= g[u]
        <3>1. CASE u = t BY <1>2, <3>1
        <3>2. CASE u # t
            <4>1. PICK x \in u : x \notin t BY <2>1, <3>2
            <4>2. Cardinality(u \ {x}) <= n BY <1>1, <2>1, Fewer
            <4>3. g[t] <= g[u \ {x}] BY <1>4, <2>1, <4>1, <4>2
            <4>4. g[u] = Bits(x) + g[u \ {x}] /\ g[u \ {x}] \in Nat /\ Bits(x) \in Nat
                BY <1>2
            <4> QED BY <1>2, <4>3, <4>4
        <3> QED BY <3>1, <3>2
    <2>2. n + 1 \in Nat OBVIOUS
    <2> QED BY <2>1, <2>2
<1>5. Cardinality(s) \in N
    <2> HIDE DEF N
    <2>1. Nat \subseteq N BY <1>3, <1>4, Induction
    <2> QED BY <1>1, <2>1, FS_CardinalityType
<1>6. Cardinality(s) <= Cardinality(s) BY <1>1, FS_CardinalityType
<1> QED BY <1>5, <1>6

LEMMA EntriesFinite ==
    ASSUME TypeOK
    PROVE  IsFiniteSet(Entries) /\ \A e \in Entries : Bits(e) \in Nat \ {0}
<1>1. Len(job.buffers) \in Nat BY DEF TypeOK, Job
<1>2. IsFiniteSet(Buffers) /\ IsFiniteSet(0 .. MaxNum - 1)
    BY <1>1, FS_Interval, JobsAssumption DEF Buffers
<1>3. IsFiniteSet(Buffers \X (0 .. MaxNum - 1)) BY <1>2, FS_Product
<1>4. IsFiniteSet(Entries) BY <1>3, FS_Subset DEF Entries
<1>5. \A e \in Entries : e[1] \in Buffers BY DEF Entries
<1> QED BY <1>4, <1>5, BufferTypes

(* In a row every entry ends within the sum of all sizes. *)
LEMMA RowFits ==
    ASSUME TypeOK, NEW e \in Entries, NEW T \in SUBSET Entries, e \notin T
    PROVE  /\ MapThenSumSet(Bits, T) \in Nat /\ Total \in Nat
           /\ MapThenSumSet(Bits, T) + Bits(e) <= Total
<1>1. IsFiniteSet(Entries) /\ \A f \in Entries : Bits(f) \in Nat BY EntriesFinite
<1>2. PICK g : IsSum(g, Entries) BY <1>1, SumExists
<1>3. /\ MapThenSumSet(Bits, T) = g[T]
      /\ Total = g[Entries]
    BY <1>1, <1>2, SumOf DEF Total
<1>4. /\ g[T] \in Nat /\ g[Entries] \in Nat /\ g[Entries \ {e}] \in Nat
      /\ g[Entries] = Bits(e) + g[Entries \ {e}]
    <2>1. \A s \in SUBSET Entries :
              g[s] \in Nat /\ \A x \in s : g[s] = Bits(x) + g[s \ {x}]
        BY <1>1, <1>2, SumTakes
    <2>2. T \in SUBSET Entries /\ Entries \in SUBSET Entries /\ Entries \ {e} \in SUBSET Entries
        OBVIOUS
    <2> QED BY <2>1, <2>2
<1>5. g[T] <= g[Entries \ {e}] BY <1>1, <1>2, SumGrows
<1>6. Bits(e) \in Nat BY <1>1
<1> QED BY <1>3, <1>4, <1>5, <1>6

-----------------------------------------------------------------------------
(* The order of planning *)

Rank(e) == Cardinality({f \in Entries : Precedes(f, e)})

LEMMA Pairs ==
    ASSUME TypeOK, NEW e \in Entries
    PROVE  /\ e = <<e[1], e[2]>> /\ e[1] \in Buffers /\ e[1] \in Nat /\ e[2] \in Nat
           /\ <<e[1], 0>> \in Entries
<1>1. e \in Buffers \X (0 .. MaxNum - 1) BY DEF Entries
<1>2. Len(job.buffers) \in Nat BY DEF TypeOK, Job
<1>3. /\ e = <<e[1], e[2]>> /\ e[1] \in Buffers /\ e[1] \in Nat /\ e[2] \in 0 .. MaxNum - 1
    BY <1>1, <1>2 DEF Buffers
<1>4. <<e[1], 0>> \in Buffers \X (0 .. MaxNum - 1) BY <1>3, JobsAssumption
<1>5. 0 < Info(<<e[1], 0>>).num
    <2>1. Info(<<e[1], 0>>) \in BufferInfo BY <1>3, BufferTypes
    <2> QED BY <2>1, JobsAssumption DEF BufferInfo
<1> QED BY <1>3, <1>4, <1>5 DEF Entries

LEMMA StrictOrder ==
    ASSUME TypeOK, NEW e \in Entries, NEW f \in Entries, NEW h \in Entries
    PROVE  /\ ~Precedes(e, e)
           /\ e # f => Precedes(e, f) \/ Precedes(f, e)
           /\ Precedes(e, f) /\ Precedes(f, h) => Precedes(e, h)
<1>1. /\ e[1] \in Nat /\ e[2] \in Nat /\ f[1] \in Nat /\ f[2] \in Nat
      /\ h[1] \in Nat /\ h[2] \in Nat
      /\ e # f => e[1] # f[1] \/ e[2] # f[2]
    BY Pairs
<1> QED BY <1>1 DEF Precedes, Lexicographic

LEMMA RankGrows ==
    ASSUME TypeOK, NEW e \in Entries, NEW f \in Entries, Precedes(e, f)
    PROVE  Rank(e) < Rank(f)
<1> DEFINE B(x) == {h \in Entries : Precedes(h, x)}
<1>1. IsFiniteSet(Entries) BY EntriesFinite
<1>2. IsFiniteSet(B(e)) /\ IsFiniteSet(B(f)) BY <1>1, FS_Subset
<1>3. B(e) \in SUBSET B(f) /\ e \in B(f) /\ e \notin B(e) BY StrictOrder
<1>4. Cardinality(B(e)) <= Cardinality(B(f)) /\ Cardinality(B(e)) # Cardinality(B(f))
    <2> HIDE DEF B
    <2> QED BY <1>2, <1>3, FS_Subset
<1>5. Cardinality(B(e)) \in Nat /\ Cardinality(B(f)) \in Nat BY <1>2, FS_CardinalityType
<1> QED BY <1>4, <1>5 DEF Rank

(* Each entry has a place in the order, each place an entry.               *)
LEMMA RankBijective ==
    ASSUME TypeOK
    PROVE  LET N == Cardinality(Entries)
           IN  /\ N \in Nat
               /\ \A e \in Entries : Rank(e) \in 0 .. N - 1
               /\ \A e, f \in Entries : Rank(e) = Rank(f) => e = f
               /\ \A i \in 0 .. N - 1 : \E e \in Entries : Rank(e) = i
<1> DEFINE N == Cardinality(Entries)
<1>1. IsFiniteSet(Entries) /\ N \in Nat BY EntriesFinite, FS_CardinalityType
<1>2. ASSUME NEW e \in Entries PROVE Rank(e) \in 0 .. N - 1
    <2> DEFINE B == {h \in Entries : Precedes(h, e)}
    <2>1. e \notin B BY StrictOrder
    <2>2. IsFiniteSet(B) /\ Cardinality(B) <= N /\ Cardinality(B) # N
        BY <1>1, <2>1, FS_Subset
    <2>3. Cardinality(B) \in Nat BY <2>2, FS_CardinalityType
    <2> QED BY <1>1, <2>2, <2>3 DEF Rank
<1>3. ASSUME NEW e \in Entries, NEW f \in Entries, Rank(e) = Rank(f) PROVE e = f
    <2>1. Rank(e) \in Int BY <1>2
    <2>2. ~Precedes(e, f) /\ ~Precedes(f, e) BY <1>3, <2>1, RankGrows
    <2> QED BY <2>2, StrictOrder
<1> DEFINE R == [e \in Entries |-> Rank(e)]
<1>4. R \in Injection(Entries, 0 .. N - 1) BY <1>2, <1>3 DEF Injection, IsInjective
<1>5. IsFiniteSet(0 .. N - 1) /\ Cardinality(0 .. N - 1) = N BY <1>1, FS_Interval
<1>6. R \in Surjection(Entries, 0 .. N - 1)
    <2> HIDE DEF R, N
    <2> QED BY <1>4, <1>5, FS_Injection DEF N
<1>7. ASSUME NEW i \in 0 .. N - 1 PROVE \E e \in Entries : Rank(e) = i
    BY <1>6 DEF Surjection
<1> QED BY <1>1, <1>2, <1>3, <1>7

InOrder == order = Order

(* The entries in the order in which they are planned: every one comes     *)
(* once, and the first of a buffer before its copies.                      *)
LEMMA OrderShape ==
    ASSUME TypeOK, InOrder
    PROVE  /\ ChildrenNum \in Int /\ ChildrenNum >= -1
           /\ \A i \in -1 .. ChildrenNum - 1 : EntryAt(i) \in Entries
           /\ \A e \in Entries : \E i \in -1 .. ChildrenNum - 1 : EntryAt(i) = e
           /\ \A i \in -1 .. ChildrenNum - 1 :
                  EntryAt(i)[2] > 0 =>
                      \E l \in -1 .. i - 1 : EntryAt(l) = <<EntryAt(i)[1], 0>>
<1> DEFINE N == Cardinality(Entries)
<1>1. /\ N \in Nat
      /\ \A e \in Entries : Rank(e) \in 0 .. N - 1
      /\ \A e, f \in Entries : Rank(e) = Rank(f) => e = f
      /\ \A i \in 0 .. N - 1 : \E e \in Entries : Rank(e) = i
    BY RankBijective
<1>2. order = [i \in 1 .. N |-> CHOOSE e \in Entries : Rank(e) = i - 1]
    BY DEF InOrder, Order, Rank
<1> HIDE DEF N
<1>3. \A i \in 1 .. N : order[i] \in Entries /\ Rank(order[i]) = i - 1
    <2> SUFFICES ASSUME NEW i \in 1 .. N
                 PROVE  order[i] \in Entries /\ Rank(order[i]) = i - 1
        OBVIOUS
    <2>1. \E e \in Entries : Rank(e) = i - 1 BY <1>1
    <2> QED BY <1>2, <2>1
<1>4. Len(order) = N /\ ChildrenNum = N - 1 BY <1>1, <1>2 DEF ChildrenNum
<1>5. \A i \in -1 .. ChildrenNum - 1 : EntryAt(i) \in Entries /\ Rank(EntryAt(i)) = i + 1
    <2> SUFFICES ASSUME NEW i \in -1 .. ChildrenNum - 1
                 PROVE  EntryAt(i) \in Entries /\ Rank(EntryAt(i)) = i + 1
        OBVIOUS
    <2>1. i + 2 \in 1 .. N /\ i + 2 - 1 = i + 1 BY <1>1, <1>4
    <2> QED BY <1>3, <2>1 DEF EntryAt
<1>6. ASSUME NEW e \in Entries
      PROVE  Rank(e) - 1 \in -1 .. ChildrenNum - 1 /\ EntryAt(Rank(e) - 1) = e
    <2>1. Rank(e) - 1 \in -1 .. ChildrenNum - 1 /\ Rank(e) \in Int BY <1>1, <1>4
    <2>2. EntryAt(Rank(e) - 1) \in Entries /\ Rank(EntryAt(Rank(e) - 1)) = Rank(e)
        BY <1>5, <2>1
    <2> QED BY <1>1, <2>1, <2>2
<1>7. ASSUME NEW i \in -1 .. ChildrenNum - 1, EntryAt(i)[2] > 0
      PROVE  \E l \in -1 .. i - 1 : EntryAt(l) = <<EntryAt(i)[1], 0>>
    <2> DEFINE e == EntryAt(i)
               f == <<EntryAt(i)[1], 0>>
    <2>1. e \in Entries /\ Rank(e) = i + 1 BY <1>5
    <2>2. f \in Entries /\ e[2] \in Nat /\ e[1] \in Nat BY <2>1, Pairs
    <2>3. Precedes(f, e) BY <1>7, <2>2 DEF Precedes, Lexicographic
    <2>4. Rank(f) < Rank(e) BY <2>1, <2>2, <2>3, RankGrows
    <2>5. Rank(f) \in Nat /\ EntryAt(Rank(f) - 1) = f BY <1>1, <1>6, <2>2
    <2> HIDE DEF e, f
    <2>6. Rank(f) - 1 \in -1 .. i - 1 BY <2>1, <2>4, <2>5
    <2> QED BY <2>5, <2>6 DEF f
<1> QED BY <1>1, <1>4, <1>5, <1>6, <1>7

-----------------------------------------------------------------------------
(* What a finished plan rests on *)

(* Entry e is among the first m plans. *)
Told(m, e) == \E l \in 1 .. m : his[l].entry = e

KindKnown ==
    /\ status \in {"single", "multi", "rollback", "strategy"} => job.kind = "local"
    /\ status = "workspace" => job.kind # "local"
(* While plans are made, all entries before the current one have a plan,   *)
(* and when all plans are taken back the current one is the root.          *)
Progress ==
    /\ si.childIdx \in -1 .. ChildrenNum
    /\ status \in {"start", "single", "workspace", "multi", "strategy"} =>
           \A i \in -1 .. si.childIdx - 1 : Told(Len(his), EntryAt(i))
    /\ status = "rollback" /\ his = <<>> => si.childIdx = -1
(* A plan: its address is still the address of its entry, and the first of *)
(* its buffer and all entries that came before it were planned before.     *)
PlanKnown(m) ==
    /\ his[m].entry \in AllEntries /\ bitsOffset[his[m].entry] = his[m].offset
    /\ his[m].entry[2] > 0 => Told(m - 1, <<his[m].entry[1], 0>>)
    /\ his[m].childIdx \in -1 .. ChildrenNum
    /\ \A i \in -1 .. his[m].childIdx - 1 : Told(m - 1, EntryAt(i))
    /\ his[m].isDirectlyRollback => his[m].entry[2] > 0
PlansKnown == \A m \in 1 .. Len(his) : PlanKnown(m)
FirstPlanned ==
    others.copies # {} => others.first[2] = 0 /\ Told(Len(his), others.first)

CompleteInv ==
    /\ InOrder
    /\ KindKnown
    /\ Progress
    /\ PlansKnown
    /\ FirstPlanned
    /\ PlanComplete

LEMMA SameOrder ==
    ASSUME job' = job, order' = order
    PROVE  /\ Order' = Order /\ (InOrder => InOrder') /\ Total' = Total
           /\ ChildrenNum' = ChildrenNum /\ \A i : EntryAt(i)' = EntryAt(i)
<1>1. Order' = Order
    BY DEF Order, Entries, Buffers, Info, Precedes, Lexicographic
<1>2. Total' = Total
    BY DEF Total, Entries, Buffers, Info, Bits, MapThenSumSet, MapThenFoldSet
<1> QED BY <1>1, <1>2 DEF InOrder, ChildrenNum, EntryAt

LEMMA Known ==
    ASSUME IInv
    PROVE  /\ TypeOK /\ his \in Seq(RecordType) /\ Len(his) \in Nat
           /\ DOMAIN his = 1 .. Len(his)
           /\ Len(his) = 0 <=> his = <<>>
           /\ \A m \in 1 .. Len(his) :
                  his[m] \in RecordType /\ his[m].allExtent = Bits(his[m].entry)
           /\ \A e : Planned(e) <=> Told(Len(his), e)
<1>1. TypeOK /\ his \in Seq(RecordType) BY DEF IInv, TypeOK
<1>2. \A m \in 1 .. Len(his) : his[m].allExtent = Bits(his[m].entry)
    BY <1>1 DEF IInv, RecordsSized
<1>3. Len(his) \in Nat /\ DOMAIN his = 1 .. Len(his) /\ (Len(his) = 0 <=> his = <<>>)
    BY <1>1
<1>4. \A m \in 1 .. Len(his) : his[m] \in RecordType BY <1>1
<1>5. \A e : Planned(e) <=> Told(Len(his), e) BY <1>3 DEF Planned, Told
<1> QED BY <1>1, <1>2, <1>3, <1>4, <1>5

(* Steps that leave plans and addresses alone. *)
LEMMA PlansStay ==
    ASSUME IInv, CompleteInv, job' = job, order' = order, his' = his, bitsOffset' = bitsOffset
    PROVE  InOrder' /\ PlansKnown'
<1>1. AllEntries' = AllEntries BY DEF AllEntries, Buffers
<1> QED BY <1>1, SameOrder DEF CompleteInv, PlansKnown, PlanKnown, Told

LEMMA PlansGone ==
    ASSUME CompleteInv, job' = job, order' = order, his' = <<>>
    PROVE  InOrder' /\ PlansKnown'
BY SameOrder DEF CompleteInv, PlansKnown

(* A plan more. *)
LEMMA PlanAdded ==
    ASSUME IInv, CompleteInv, job' = job, order' = order, NEW r,
           status \in {"single", "workspace", "multi"},
           his' = Append(his, r), r.entry \in AllEntries, r.childIdx = si.childIdx,
           bitsOffset'[r.entry] = r.offset,
           \A m \in 1 .. Len(his) : bitsOffset'[his[m].entry] = bitsOffset[his[m].entry],
           r.entry[2] > 0 => Told(Len(his), <<r.entry[1], 0>>),
           r.isDirectlyRollback => r.entry[2] > 0
    PROVE  /\ InOrder' /\ PlansKnown'
           /\ \A e : Told(Len(his), e) \/ e = r.entry => Told(Len(his), e)'
<1> DEFINE n == Len(his)
<1>1. his \in Seq(RecordType) /\ n \in Nat BY Known
<1>2. /\ Len(his') = n + 1 /\ his'[n + 1] = r
      /\ \A m \in 1 .. n : his'[m] = his[m]
    BY <1>1
<1>3. \A e : Told(n, e) \/ e = r.entry => \E l \in 1 .. n + 1 : his'[l].entry = e
    BY <1>1, <1>2 DEF Told
<1>4. AllEntries' = AllEntries BY DEF AllEntries, Buffers
<1>5. /\ ChildrenNum' = ChildrenNum /\ InOrder'
      /\ \A i : EntryAt(i)' = EntryAt(i)
    BY SameOrder DEF CompleteInv
<1>6. ASSUME NEW m \in 1 .. n PROVE PlanKnown(m)'
    <2>1. PlanKnown(m) BY DEF CompleteInv, PlansKnown
    <2>2. \A l \in 1 .. m - 1 : his'[l] = his[l] BY <1>1, <1>2
    <2> QED BY <1>2, <1>4, <1>5, <2>1, <2>2 DEF PlanKnown, Told
<1>7. ASSUME NEW m, m = n + 1 PROVE PlanKnown(m)'
    <2>1. /\ si.childIdx \in -1 .. ChildrenNum
          /\ \A i \in -1 .. si.childIdx - 1 : Told(n, EntryAt(i))
        BY DEF CompleteInv, Progress
    <2>2. m - 1 = n /\ \A l \in 1 .. n : his'[l] = his[l] BY <1>1, <1>2, <1>7
    <2>3. his'[m] = r BY <1>2, <1>7
    <2> QED BY <1>4, <1>5, <2>1, <2>2, <2>3 DEF PlanKnown, Told
<1>8. PlansKnown'
    <2>1. \A m \in 1 .. n + 1 : m \in 1 .. n \/ m = n + 1 BY <1>1
    <2> QED BY <1>2, <1>6, <1>7, <2>1 DEF PlansKnown
<1> QED BY <1>2, <1>3, <1>5, <1>8 DEF Told

LEMMA PlanEntryCompletes ==
    ASSUME IInv, CompleteInv, PlanEntry PROVE CompleteInv'
<1>1. PICK e \in Entries :
          /\ e = CurEntry /\ ~Planned(e)
          /\ \E level \in MinLevel .. si.specLevel :
                 \E place \in Places(e, level) : PlanAt(e, place, level)
    BY DEF PlanEntry
<1>2. PICK level \in MinLevel .. si.specLevel :
          \E place \in Places(e, level) : PlanAt(e, place, level)
    BY <1>1
<1>3. PICK place \in Places(e, level) : PlanAt(e, place, level)
    BY <1>2
<1> DEFINE offsets == IF level = 1 THEN OtherOffsets(place.last) ELSE <<>>
           r == Record(e, place.offset, level, FALSE)
<1>4. /\ his' = Append(his, r)
      /\ bitsOffset' = [f \in AllEntries |->
             IF f = e THEN place.offset
             ELSE IF f[1] = e[1] /\ f[2] \in DOMAIN offsets THEN offsets[f[2]]
             ELSE bitsOffset[f]]
      /\ others' = [first |-> e, copies |-> DOMAIN offsets]
    BY <1>3 DEF PlanAt, UpdateOutline
<1>5. /\ r.entry = e /\ r.offset = place.offset /\ r.childIdx = si.childIdx
      /\ ~r.isDirectlyRollback
    BY DEF Record
<1>6. /\ job' = job /\ order' = order /\ status' = status
      /\ status \in {"single", "workspace", "multi"}
      /\ si.childIdx < ChildrenNum /\ si'.childIdx = si.childIdx + 1
    BY DEF PlanEntry, Planning, Advance, IInv, TypeOK
<1>7. /\ TypeOK /\ \A f : Planned(f) <=> Told(Len(his), f)
      /\ Len(his) \in Nat
    BY Known
<1>8. ASSUME DOMAIN offsets # {} PROVE e[2] = 0 /\ DOMAIN offsets \subseteq 1 .. MaxNum - 1
    <2>1. level = 1 BY <1>8
    <2>2. place \in BoundType /\ CanFollow(e, place.last)
        BY <1>7, <2>1 DEF Places, Fits, TypeOK
    <2>3. place.last \in Buffers \X Nat BY <2>2 DEF BoundType, CanFollow
    <2>4. offsets = OtherOffsets(place.last) BY <2>1
    <2> HIDE DEF offsets
    <2> QED BY <1>7, <2>2, <2>3, <2>4, Following, JobsAssumption
<1> HIDE DEF offsets, r
<1>9. /\ si.childIdx \in -1 .. ChildrenNum - 1 /\ ChildrenNum \in Int
      /\ \A i \in -1 .. si.childIdx - 1 : Told(Len(his), EntryAt(i))
      /\ EntryAt(si.childIdx) = e
    <2>1. ChildrenNum \in Int BY <1>7, OrderShape DEF CompleteInv
    <2> QED BY <1>1, <1>6, <2>1 DEF CompleteInv, Progress, CurEntry
(* No copy of the buffer is planned yet. *)
<1>10. ASSUME NEW m \in 1 .. Len(his)
       PROVE  bitsOffset'[his[m].entry] = bitsOffset[his[m].entry]
    <2> DEFINE f == his[m].entry
    <2>1. f # e BY <1>1, <1>7 DEF Told
    <2>2. PlanKnown(m) BY DEF CompleteInv, PlansKnown
    <2>3. ASSUME f[1] = e[1], f[2] \in DOMAIN offsets PROVE FALSE
        <3>1. e[2] = 0 /\ f[2] > 0 BY <1>8, <2>3, JobsAssumption
        <3>2. Told(m - 1, <<e[1], 0>>) BY <2>2, <2>3, <3>1 DEF PlanKnown
        <3>3. e = <<e[1], 0>> BY <1>7, <3>1, Pairs
        <3>4. Told(Len(his), e) BY <1>7, <3>2, <3>3 DEF Told
        <3> QED BY <1>1, <1>7, <3>4
    <2>4. f \in AllEntries BY <2>2 DEF PlanKnown
    <2> QED BY <1>4, <2>1, <2>3, <2>4
<1>11. e[2] > 0 => Told(Len(his), <<e[1], 0>>)
    <2> HAVE e[2] > 0
    <2>1. PICK l \in -1 .. si.childIdx - 1 : EntryAt(l) = <<e[1], 0>>
        BY <1>7, <1>9, OrderShape DEF CompleteInv
    <2> QED BY <1>9, <2>1
<1>12. e \in AllEntries /\ bitsOffset'[e] = place.offset
    BY <1>4 DEF Entries, AllEntries
<1>13. /\ InOrder' /\ PlansKnown'
       /\ \A f : Told(Len(his), f) \/ f = e => Told(Len(his), f)'
    BY <1>4, <1>5, <1>6, <1>10, <1>11, <1>12, PlanAdded
<1>14. ChildrenNum' = ChildrenNum /\ \A i : EntryAt(i)' = EntryAt(i) BY <1>6, SameOrder
<1>15. Progress'
    <2>1. si'.childIdx \in -1 .. ChildrenNum BY <1>6, <1>9
    <2>2. ASSUME NEW i \in -1 .. si'.childIdx - 1
          PROVE  Told(Len(his), EntryAt(i)) \/ EntryAt(i) = e
        <3>1. i \in -1 .. si.childIdx - 1 \/ i = si.childIdx BY <1>6, <1>9, <2>2
        <3> QED BY <1>9, <3>1
    <2>3. ASSUME NEW i \in -1 .. si'.childIdx - 1
          PROVE  \E l \in 1 .. Len(his') : his'[l].entry = EntryAt(i)
        BY <1>13, <2>2 DEF Told
    <2> QED BY <1>6, <1>14, <2>1, <2>3 DEF Progress, Told
<1>16. FirstPlanned'
    <2>1. others'.first = e /\ others'.copies = DOMAIN offsets BY <1>4
    <2>2. \E l \in 1 .. Len(his') : his'[l].entry = e BY <1>13 DEF Told
    <2> QED BY <1>8, <2>1, <2>2 DEF FirstPlanned, Told
<1>17. KindKnown' /\ PlanComplete' BY <1>6 DEF CompleteInv, KindKnown, PlanComplete
<1> QED BY <1>13, <1>15, <1>16, <1>17 DEF CompleteInv

(* The copy is one of the first's buffer, with the address at which it is  *)
(* entered.                                                                *)
LEMMA EnterOtherCompletes ==
    ASSUME IInv, CompleteInv, EnterOther PROVE CompleteInv'
<1>1. PICK k \in others.copies :
          /\ \E first \in {others.first}, offset \in {bitsOffset[<<others.first[1], k>>]} :
                 \/ /\ HasRoom(first, offset)
                    /\ \E copy \in CopyAt(first, offset) : UpdateOutline(copy, offset, 1, TRUE)
                 \/ ~HasRoom(first, offset) /\ UNCHANGED <<outline, his, trail, applied>>
          /\ others' = [others EXCEPT !.copies = @ \ {k}]
          /\ UNCHANGED <<job, order, status, si, needBits, bitsOffset, extra, splitOutline>>
    BY DEF EnterOther
<1> DEFINE first == others.first
           offset == bitsOffset[<<first[1], k>>]
<1>2. /\ status \in {"multi", "workspace"} /\ status' = status /\ si' = si
      /\ job' = job /\ order' = order /\ bitsOffset' = bitsOffset
      /\ first \in Entries /\ first[2] = 0 /\ Told(Len(his), first)
    BY <1>1 DEF IInv, OthersFree, CompleteInv, FirstPlanned
<1>3. TypeOK /\ Len(his) \in Nat BY Known
<1>4. others'.first = first BY <1>1, <1>3 DEF TypeOK
<1>5. /\ ChildrenNum' = ChildrenNum /\ \A i : EntryAt(i)' = EntryAt(i)
    BY <1>2, SameOrder
<1>6. ASSUME InOrder', PlansKnown',
             \A e : Told(Len(his), e) => \E l \in 1 .. Len(his') : his'[l].entry = e
      PROVE  CompleteInv'
    <2>1. Progress' BY <1>2, <1>5, <1>6 DEF CompleteInv, Progress, Told
    <2>2. FirstPlanned' BY <1>2, <1>4, <1>6 DEF FirstPlanned, Told
    <2>3. KindKnown' /\ PlanComplete' BY <1>2 DEF CompleteInv, KindKnown, PlanComplete
    <2> QED BY <1>6, <2>1, <2>2, <2>3 DEF CompleteInv
<1>7. CASE ~HasRoom(first, offset) /\ UNCHANGED <<outline, his, trail, applied>>
    BY <1>2, <1>6, <1>7, PlansStay DEF Told
<1>8. CASE /\ HasRoom(first, offset)
           /\ \E copy \in CopyAt(first, offset) : UpdateOutline(copy, offset, 1, TRUE)
    <2>1. PICK copy \in CopyAt(first, offset) : UpdateOutline(copy, offset, 1, TRUE)
        BY <1>8
    <2> DEFINE r == Record(copy, offset, 1, TRUE)
    <2>2. his' = Append(his, r) BY <2>1 DEF UpdateOutline
    <2>3. r.entry = copy /\ r.offset = offset /\ r.childIdx = si.childIdx BY DEF Record
    <2> HIDE DEF r
    <2>4. /\ copy[1] = first[1] /\ copy[2] \in 1 .. MaxNum - 1 /\ bitsOffset[copy] = offset
          /\ copy = <<copy[1], copy[2]>>
        <3> DEFINE at(ks) == {c \in ks : bitsOffset[<<first[1], c>>] = offset}
                   added == at(extra[first[1]])
                   all == IF added # {} THEN added ELSE at(1 .. Info(first).num - 1)
        <3>1. CopyAt(first, offset) =
                  {<<first[1], c>> : c \in {c \in all : \A l \in all : c <= l}}
            BY DEF CopyAt
        <3>2. all \subseteq at(extra[first[1]] \cup 1 .. Info(first).num - 1) OBVIOUS
        <3>3. PICK c \in extra[first[1]] \cup 1 .. Info(first).num - 1 :
                  copy = <<first[1], c>> /\ bitsOffset[<<first[1], c>>] = offset
            <4> HIDE DEF all
            <4> QED BY <2>1, <3>1, <3>2
        <3>4. first[1] \in Buffers BY <1>2 DEF Entries
        <3>5. Info(first).num \in 1 .. MaxNum BY <1>3, <3>4, BufferTypes DEF BufferInfo
        <3>6. extra[first[1]] \subseteq 1 .. MaxNum - 1 BY <1>3, <3>4 DEF TypeOK
        <3>7. c \in 1 .. MaxNum - 1 BY <3>3, <3>5, <3>6, JobsAssumption
        <3> QED BY <3>3, <3>7
    <2>5. copy \in AllEntries
        BY <1>2, <2>4, JobsAssumption DEF AllEntries, Entries
    <2>6. copy[2] > 0 BY <2>4, JobsAssumption
    <2>7. first = <<copy[1], 0>> BY <1>2, <1>3, <2>4, Pairs
    <2>8. /\ InOrder' /\ PlansKnown'
          /\ \A f : Told(Len(his), f) \/ f = r.entry => Told(Len(his), f)'
        BY <1>2, <2>2, <2>3, <2>4, <2>5, <2>6, <2>7, PlanAdded
    <2> QED BY <1>6, <2>8 DEF Told
<1> QED BY <1>1, <1>7, <1>8

(* Taking back the plan of a first entry leads to the entry that was       *)
(* current when it was made; the last of them was the root's.              *)
LEMMA RollBackCompletes ==
    ASSUME IInv, CompleteInv, RollBack PROVE CompleteInv'
<1> DEFINE n == Len(his)
           r == his[n]
<1>1. /\ status = "rollback" /\ his # <<>> /\ status' \in {"rollback", "strategy"}
      /\ his' = SubSeq(his, 1, n - 1)
      /\ job' = job /\ order' = order /\ bitsOffset' = bitsOffset /\ others' = others
    BY DEF RollBack
<1>2. TypeOK /\ his \in Seq(RecordType) /\ n \in Nat /\ n > 0 /\ r \in RecordType
    <2>1. /\ TypeOK /\ his \in Seq(RecordType) /\ n \in Nat
          /\ Len(his) = 0 <=> his = <<>>
          /\ \A m \in 1 .. n : his[m] \in RecordType
        BY Known
    <2> QED BY <1>1, <2>1
<1>3. Len(his') = n - 1 /\ \A m \in 1 .. n - 1 : his'[m] = his[m]
    <2>1. /\ Running /\ Running' /\ trail' = SubSeq(trail, 1, Len(trail) - 1)
          /\ outline' = RollbackOutline(his[Len(his)]) /\ SpaceBits' = SpaceBits
        BY <1>1 DEF RollBack, Running, SpaceBits
    <2> QED BY <1>1, <2>1, HistoryFromInv, Shrinking
<1>4. /\ InOrder' /\ ChildrenNum' = ChildrenNum /\ AllEntries' = AllEntries
      /\ \A i : EntryAt(i)' = EntryAt(i)
    BY <1>1, SameOrder, SameJob DEF CompleteInv
<1>5. PlansKnown'
    <2>1. ASSUME NEW m \in 1 .. n - 1 PROVE PlanKnown(m)'
        <3>1. PlanKnown(m) BY <1>2 DEF CompleteInv, PlansKnown
        <3>2. \A l \in 1 .. m - 1 : his'[l] = his[l] BY <1>2, <1>3
        <3> QED BY <1>1, <1>3, <1>4, <3>1, <3>2 DEF PlanKnown, Told
    <2> QED BY <1>3, <2>1 DEF PlansKnown
<1>6. PlanKnown(n) BY <1>2 DEF CompleteInv, PlansKnown
<1>7. others.copies = {} BY <1>1 DEF IInv, OthersFree
<1>8. FirstPlanned' BY <1>1, <1>7 DEF FirstPlanned
<1>9. KindKnown' /\ PlanComplete' BY <1>1 DEF CompleteInv, KindKnown, PlanComplete
<1>10. /\ RollsBackWithFirst(r) => status' = status /\ si'.childIdx = si.childIdx
       /\ ~RollsBackWithFirst(r) => si'.childIdx = r.childIdx
    BY <1>2 DEF RollBack, TypeOK
<1>11. si'.childIdx \in -1 .. ChildrenNum
    BY <1>6, <1>10 DEF CompleteInv, Progress, PlanKnown
<1>12. ASSUME status' = "strategy", NEW i \in -1 .. si'.childIdx - 1
       PROVE  \E l \in 1 .. Len(his') : his'[l].entry = EntryAt(i)
    <2>1. si'.childIdx = r.childIdx BY <1>1, <1>10, <1>12
    <2>2. Told(n - 1, EntryAt(i)) BY <1>6, <1>12, <2>1 DEF PlanKnown
    <2> QED BY <1>3, <2>2 DEF Told
<1>13. ASSUME his' = <<>> PROVE si'.childIdx = -1
    <2>1. n = 1 /\ n - 1 = 0 BY <1>2, <1>3, <1>13
    <2>2. \A e : ~Told(0, e) BY DEF Told
    <2>3. ~(r.entry[2] > 0) BY <1>6, <2>1, <2>2 DEF PlanKnown
    <2>4. ~RollsBackWithFirst(r) BY <1>6, <2>3 DEF PlanKnown, RollsBackWithFirst
    <2>5. r.childIdx \in -1 .. ChildrenNum /\ \A i : ~(i \in -1 .. r.childIdx - 1)
        BY <1>6, <2>1, <2>2 DEF PlanKnown
    <2>6. ChildrenNum \in Int BY <1>2, OrderShape DEF CompleteInv
    <2> QED BY <1>10, <2>4, <2>5, <2>6
<1>14. Progress' BY <1>1, <1>4, <1>11, <1>12, <1>13 DEF Progress, Told
<1> QED BY <1>4, <1>5, <1>8, <1>9, <1>14 DEF CompleteInv

(* A plan that has come to the end has a plan for every entry. *)
LEMMA WholePlan ==
    ASSUME IInv, CompleteInv, status \in {"single", "workspace", "multi"},
           si.childIdx >= ChildrenNum, NEW e \in Entries
    PROVE  /\ \E m \in DOMAIN his : his[m].entry = e /\ his[m].offset = bitsOffset[e]
           /\ status = "multi" => bitsOffset[e] + Bits(e) <= job.maxBits
<1>1. /\ TypeOK /\ his \in Seq(RecordType) /\ Len(his) \in Nat /\ DOMAIN his = 1 .. Len(his)
      /\ \A m \in 1 .. Len(his) : his[m] \in RecordType /\ his[m].allExtent = Bits(his[m].entry)
    BY Known
<1>2. PICK i \in -1 .. ChildrenNum - 1 : EntryAt(i) = e
    BY <1>1, OrderShape DEF CompleteInv
<1>3. i \in -1 .. si.childIdx - 1
    <2>1. si.childIdx \in -1 .. ChildrenNum /\ ChildrenNum \in Int
        BY <1>1, OrderShape DEF CompleteInv, Progress
    <2> QED BY <2>1
<1>4. Told(Len(his), e) BY <1>2, <1>3 DEF CompleteInv, Progress
<1>5. PICK m \in 1 .. Len(his) : his[m].entry = e BY <1>4 DEF Told
<1>6. his[m].offset = bitsOffset[e] BY <1>5 DEF CompleteInv, PlansKnown, PlanKnown
<1>7. ASSUME status = "multi" PROVE bitsOffset[e] + Bits(e) <= job.maxBits
    <2>1. SpaceBits = job.maxBits /\ Running BY <1>7 DEF SpaceBits, Running
    <2>2. After(Len(his)) = outline BY DEF After
    <2>3. /\ Tiles(outline, job.maxBits)
          /\ Tells(outline, his[m], Pieces(his[m].entry[1]))
        BY <1>1, <2>1, <2>2 DEF IInv, OutlinesTold
    <2>4. /\ his[m].offset \in Nat /\ his[m].allExtent \in Nat \ {0}
          /\ his[m].allExtent = Bits(e)
        BY <1>1, <1>5 DEF RecordType
    <2> DEFINE c == his[m].offset + his[m].allExtent - 1
    <2>5. c \in his[m].offset .. his[m].offset + his[m].allExtent - 1 BY <2>4
    <2>6. PICK b \in outline : Spans(b, c) BY <2>3, <2>5 DEF Tells
    <2>7. EndOf(b) <= job.maxBits BY <2>3 DEF Tiles
    <2>8. b.offset \in Nat /\ b.extent \in Nat /\ job.maxBits \in Nat
        BY <1>1 DEF TypeOK, BoundType, Job
    <2> QED BY <1>6, <2>4, <2>6, <2>7, <2>8 DEF Spans, EndOf
<1> QED BY <1>1, <1>5, <1>6, <1>7

LEMMA DoneCompletes ==
    ASSUME IInv, CompleteInv, SingleLevelDone \/ MultiLevelDone
    PROVE  CompleteInv'
<1>1. /\ job' = job /\ order' = order /\ bitsOffset' = bitsOffset /\ others' = others
      /\ status \in {"single", "workspace", "multi"} /\ si.childIdx >= ChildrenNum
      /\ others.copies = {}
    BY DEF SingleLevelDone, MultiLevelDone, IInv, OthersFree
<1>2. TypeOK /\ \A e : Bits(e)' = Bits(e) BY <1>1, Known, SameJob
<1>3. Entries' = Entries /\ ChildrenNum' = ChildrenNum /\ ChildrenNum \in Int /\ ChildrenNum >= -1
    BY <1>1, <1>2, SameJob, SameOrder, OrderShape DEF CompleteInv
<1>4. FirstPlanned' BY <1>1 DEF FirstPlanned
<1>5. CASE status' = "done"
    <2>1. his' = his /\ si' = si BY <1>5 DEF SingleLevelDone, MultiLevelDone
    <2>2. ASSUME NEW e \in Entries, job.kind = "local"
          PROVE  bitsOffset[e] + Bits(e) <= job.maxBits
        <3>1. CASE SingleLevelDone BY <1>5, <3>1 DEF SingleLevelDone
        <3>2. CASE MultiLevelDone
            <4>1. status = "multi"
                BY <2>2, <3>2 DEF MultiLevelDone, CompleteInv, KindKnown
            <4> QED BY <1>1, <4>1, WholePlan
        <3> QED BY <3>1, <3>2
    <2>3. ASSUME NEW e \in Entries
          PROVE  \E m \in DOMAIN his : his[m].entry = e /\ his[m].offset = bitsOffset[e]
        BY <1>1, WholePlan
    <2>4. PlanComplete' BY <1>1, <1>2, <1>3, <2>1, <2>2, <2>3 DEF PlanComplete
    <2>5. Progress' BY <1>3, <1>5, <2>1 DEF CompleteInv, Progress
    <2>6. KindKnown' BY <1>5 DEF KindKnown
    <2> QED BY <1>1, <1>4, <2>1, <2>4, <2>5, <2>6, PlansStay DEF CompleteInv
<1>6. CASE status' # "done"
    <2>1. status = "single" /\ status' = "multi" /\ his' = <<>> /\ si'.childIdx = -1
        BY <1>6 DEF SingleLevelDone, MultiLevelDone, SpecInfo
    <2>2. Progress' BY <1>3, <2>1 DEF Progress
    <2>3. KindKnown' /\ PlanComplete'
        BY <1>1, <2>1 DEF CompleteInv, KindKnown, PlanComplete
    <2> QED BY <1>1, <1>4, <2>1, <2>2, <2>3, PlansGone DEF CompleteInv
<1> QED BY <1>5, <1>6

(* In a row the last entry ends where the sum of all sizes does. *)
LEMMA WithoutReuseCompletes ==
    ASSUME IInv, CompleteInv, PlanWithoutReuse PROVE CompleteInv'
<1>1. /\ status = "start" /\ status' = "done" /\ his' = his /\ his = <<>>
      /\ job' = job /\ order' = order /\ si' = si /\ others' = others
      /\ others.copies = {}
    BY DEF PlanWithoutReuse, IInv, StartsEmpty, OthersFree
<1>2. TypeOK /\ \A e : Bits(e)' = Bits(e) BY <1>1, Known, SameJob
<1>3. Entries' = Entries /\ ChildrenNum' = ChildrenNum
    BY <1>1, SameJob, SameOrder
<1>4. ASSUME job.kind = "local", NEW e \in Entries
      PROVE  bitsOffset'[e] + Bits(e) <= job.maxBits
    <2>1. Total <= job.maxBits BY <1>4 DEF PlanWithoutReuse
    <2>2. e \in AllEntries BY DEF Entries, AllEntries
    <2> DEFINE T == {f \in Entries : Precedes(f, e)}
               sum == MapThenSumSet(Bits, T)
    <2>3. bitsOffset'[e] = sum BY <2>2 DEF PlanWithoutReuse
    <2>4. e \notin T /\ T \in SUBSET Entries BY <1>2, StrictOrder
    <2> HIDE DEF T
    <2>5. sum \in Nat /\ Total \in Nat /\ sum + Bits(e) <= Total
        BY <1>2, <2>4, RowFits
    <2> HIDE DEF sum
    <2>6. Bits(e) \in Nat /\ job.maxBits \in Nat BY <1>2, EntriesFinite DEF TypeOK, Job
    <2> QED BY <2>1, <2>3, <2>5, <2>6
<1>5. PlanComplete' BY <1>1, <1>2, <1>3, <1>4 DEF PlanComplete
<1>6. InOrder' /\ PlansKnown' BY <1>1, PlansGone
<1>7. Progress' BY <1>1, <1>3 DEF CompleteInv, Progress
<1>8. KindKnown' /\ FirstPlanned' BY <1>1 DEF KindKnown, FirstPlanned
<1> QED BY <1>5, <1>6, <1>7, <1>8 DEF CompleteInv

(* The other steps leave plans and addresses alone. *)
LEMMA QuietCompletes ==
    ASSUME IInv, CompleteInv,
           \/ OneTooLarge \/ StartSingleLevel \/ StartWorkspace \/ AlreadyPlanned
           \/ FailToPlan \/ LowerLevel \/ RestartWithSplitOutline \/ GiveUp \/ Finished
           \/ UNCHANGED vars
    PROVE  CompleteInv'
<1>1. /\ job' = job /\ order' = order /\ bitsOffset' = bitsOffset /\ his' = his
      /\ others' = others
    BY DEF OneTooLarge, StartSingleLevel, StartWorkspace, AlreadyPlanned, FailToPlan, LowerLevel,
           RestartWithSplitOutline, GiveUp, Finished, vars
<1>2. /\ TypeOK /\ Len(his) \in Nat /\ (Len(his) = 0 <=> his = <<>>)
      /\ \A e : Planned(e) <=> Told(Len(his), e)
    BY Known
<1>3. InOrder' /\ PlansKnown' BY <1>1, PlansStay
<1>4. /\ ChildrenNum' = ChildrenNum /\ \A i : EntryAt(i)' = EntryAt(i)
      /\ ChildrenNum \in Int /\ ChildrenNum >= -1
      /\ \A e : Told(Len(his), e)' <=> Told(Len(his), e)
    <2>1. \A e : Told(Len(his), e)' <=> Told(Len(his), e) BY <1>1 DEF Told
    <2>2. ChildrenNum' = ChildrenNum /\ \A i : EntryAt(i)' = EntryAt(i) BY <1>1, SameOrder
    <2>3. ChildrenNum \in Int /\ ChildrenNum >= -1 BY <1>2, OrderShape DEF CompleteInv
    <2> QED BY <2>1, <2>2, <2>3
<1>5. FirstPlanned' BY <1>1, <1>4 DEF CompleteInv, FirstPlanned
<1>6. si.childIdx \in -1 .. ChildrenNum BY DEF CompleteInv, Progress
<1>7. CASE OneTooLarge \/ GiveUp
    <2>1. status' = "failed" /\ si' = si BY <1>7 DEF OneTooLarge, GiveUp
    <2>2. Progress' BY <1>4, <1>6, <2>1 DEF Progress
    <2>3. KindKnown' /\ PlanComplete' BY <2>1 DEF KindKnown, PlanComplete
    <2> QED BY <1>3, <1>5, <2>2, <2>3 DEF CompleteInv
<1>8. CASE StartSingleLevel \/ StartWorkspace
    <2>1. /\ status = "start"
          /\ status' \in {"single", "workspace"}
          /\ status' = "single" <=> job.kind = "local"
          /\ si' = si \/ si'.childIdx = -1
        BY <1>8 DEF StartSingleLevel, StartWorkspace, SpecInfo
    <2>2. Progress'
        BY <1>1, <1>4, <1>6, <2>1 DEF CompleteInv, Progress, Told
    <2>3. KindKnown' /\ PlanComplete' BY <1>1, <2>1 DEF KindKnown, PlanComplete
    <2> QED BY <1>3, <1>5, <2>2, <2>3 DEF CompleteInv
<1>9. CASE AlreadyPlanned
    <2>1. /\ status \in {"single", "multi", "workspace"} /\ status' = status
          /\ si.childIdx < ChildrenNum /\ Told(Len(his), EntryAt(si.childIdx))
          /\ si'.childIdx = si.childIdx + 1
        BY <1>2, <1>9 DEF AlreadyPlanned, Planning, CurEntry, Advance, TypeOK
    <2>2. \A i \in -1 .. si.childIdx - 1 : Told(Len(his), EntryAt(i))
        BY <2>1 DEF CompleteInv, Progress
    <2>3. \A i \in -1 .. si'.childIdx - 1 : Told(Len(his), EntryAt(i))
        <3>1. \A i \in -1 .. si'.childIdx - 1 : i \in -1 .. si.childIdx - 1 \/ i = si.childIdx
            BY <1>4, <1>6, <2>1
        <3> QED BY <2>1, <2>2, <3>1
    <2>4. si'.childIdx \in -1 .. ChildrenNum BY <1>4, <1>6, <2>1
    <2>5. Progress' BY <1>1, <1>4, <2>1, <2>3, <2>4 DEF Progress, Told
    <2>6. KindKnown' /\ PlanComplete'
        BY <1>1, <2>1 DEF CompleteInv, KindKnown, PlanComplete
    <2> QED BY <1>3, <1>5, <2>5, <2>6 DEF CompleteInv
<1>10. CASE FailToPlan
    <2>1. status = "multi" /\ status' = "rollback" /\ si'.childIdx = si.childIdx
        BY <1>2, <1>10 DEF FailToPlan, TypeOK
    <2>2. his = <<>> => si.childIdx = -1
        <3> HAVE his = <<>>
        <3>1. \A i \in -1 .. si.childIdx - 1 : Told(0, EntryAt(i))
            BY <1>2, <2>1 DEF CompleteInv, Progress
        <3>2. \A e : ~Told(0, e) BY DEF Told
        <3>3. \A i : ~(i \in -1 .. si.childIdx - 1) BY <3>1, <3>2
        <3> QED BY <1>4, <1>6, <3>3
    <2>3. Progress' BY <1>1, <1>4, <1>6, <2>1, <2>2 DEF Progress
    <2>4. KindKnown' /\ PlanComplete'
        BY <1>1, <2>1 DEF CompleteInv, KindKnown, PlanComplete
    <2> QED BY <1>3, <1>5, <2>3, <2>4 DEF CompleteInv
<1>11. CASE LowerLevel \/ RestartWithSplitOutline
    <2>1. status \in {"strategy", "rollback"} /\ status' = "multi"
        BY <1>11 DEF LowerLevel, RestartWithSplitOutline, RolledBack
    <2>2. Progress'
        <3>1. CASE LowerLevel
            <4>1. si'.childIdx = si.childIdx /\ si.childIdx >= 0
                BY <1>2, <3>1 DEF LowerLevel, CanLower, TypeOK
            <4>2. status = "strategy"
                BY <3>1, <4>1 DEF LowerLevel, RolledBack, CompleteInv, Progress
            <4> QED BY <1>1, <1>4, <2>1, <4>1, <4>2 DEF CompleteInv, Progress, Told
        <3>2. CASE RestartWithSplitOutline
            <4>1. si'.childIdx = -1 BY <3>2 DEF RestartWithSplitOutline, SpecInfo
            <4> QED BY <1>4, <2>1, <4>1 DEF Progress
        <3> QED BY <1>11, <3>1, <3>2
    <2>3. KindKnown' /\ PlanComplete'
        BY <1>1, <2>1 DEF CompleteInv, KindKnown, PlanComplete
    <2> QED BY <1>3, <1>5, <2>2, <2>3 DEF CompleteInv
<1>12. CASE Finished \/ UNCHANGED vars
    <2>1. status' = status /\ si' = si BY <1>12 DEF Finished, vars
    <2>2. Progress' BY <1>1, <1>4, <2>1 DEF CompleteInv, Progress, Told
    <2>3. KindKnown' BY <1>1, <2>1 DEF CompleteInv, KindKnown
    <2>4. PlanComplete'
        BY <1>1, <2>1, SameJob DEF CompleteInv, PlanComplete
    <2> QED BY <1>3, <1>5, <2>2, <2>3, <2>4 DEF CompleteInv
<1> QED BY <1>7, <1>8, <1>9, <1>10, <1>11, <1>12

LEMMA StartsComplete ==
    ASSUME Init PROVE CompleteInv
<1>1. IInv BY InitOK
<1>2. TypeOK /\ InOrder BY <1>1 DEF IInv, Init, InOrder
<1>3. ChildrenNum \in Int /\ ChildrenNum >= -1 BY <1>2, OrderShape
<1>4. Progress BY <1>3 DEF Init, SpecInfo, Progress
<1>5. KindKnown /\ PlansKnown /\ FirstPlanned /\ PlanComplete
    BY DEF Init, KindKnown, PlansKnown, FirstPlanned, PlanComplete
<1> QED BY <1>2, <1>4, <1>5 DEF CompleteInv

-----------------------------------------------------------------------------
(* The theorems *)

(* Every state of the planner has its types, and the history knows one     *)
(* outline per plan, for every set of jobs.                                *)
THEOREM PlanTypeCorrect ==
    Spec => []TypeOK
<1>1. IInv => TypeOK BY DEF IInv
<1> QED BY <1>1, Invariance, PTL

(* Two plans that stand at the same time share memory only when their      *)
(* buffers live at different times, or meet in single points: for buffers  *)
(* of any number, size and life, whatever is taken back and planned again. *)
THEOREM PlansNeverOverwrite ==
    Spec => []NoOverwrite
<1>1. IInv => NoOverwrite BY DEF IInv
<1> QED BY <1>1, Invariance, PTL

(* While plans are made the bounds of the outline cover the memory once,   *)
(* and tell the life of every plan that stands: UpdateOutline and          *)
(* RollbackOutline lose nothing.                                           *)
THEOREM OutlineTellsPlans ==
    Spec => []OutlineTold
<1>1. ASSUME IInv PROVE OutlineTold
    <2>1. his \in Seq(RecordType) /\ Len(his) \in Nat BY <1>1 DEF IInv, TypeOK
    <2>2. After(Len(his)) = outline BY DEF After
    <2>3. Running => /\ Tiles(outline, SpaceBits)
                     /\ \A i \in 1 .. Len(his) : Tells(outline, his[i], Pieces(his[i].entry[1]))
        BY <1>1, <2>1, <2>2 DEF IInv, OutlinesTold
    <2> QED BY <2>1, <2>3 DEF OutlineTold, Running
<1> QED BY <1>1, Invariance, PTL

(* Taking back the last plan gives the outline that was there before it    *)
(* was made: the bounds it replaced come back, its own and its tail go,    *)
(* and no other is touched.                                                *)
THEOREM RollBackIsExact ==
    Spec => RollBackExact
<1>1. ASSUME IInv, [Next]_vars
      PROVE  [Len(his') < Len(his) /\ status' # "multi" => outline' = trail[Len(his)]]_vars
    <2>1. his \in Seq(RecordType) /\ Len(his) \in Nat BY <1>1 DEF IInv, TypeOK
    <2>2. CASE RollBack
        <3>1. /\ status = "rollback" /\ Running /\ his # <<>> /\ job' = job
              /\ status' \in {"rollback", "strategy"} /\ Running'
              /\ outline' = RollbackOutline(his[Len(his)])
              /\ his' = SubSeq(his, 1, Len(his) - 1)
              /\ trail' = SubSeq(trail, 1, Len(trail) - 1)
            BY <2>2 DEF RollBack, Running
        <3>2. SpaceBits' = SpaceBits BY <3>1 DEF SpaceBits
        <3> QED BY <1>1, <3>1, <3>2, HistoryFromInv, Shrinking
    <2>3. CASE PlanEntry \/ EnterOther
        <3>1. his' = his \/ \E r : his' = Append(his, r)
            BY <2>3 DEF PlanEntry, PlanAt, EnterOther, UpdateOutline
        <3>2. Len(his') = Len(his) \/ Len(his') = Len(his) + 1 BY <2>1, <3>1
        <3> QED BY <2>1, <3>2
    <2>4. CASE SingleLevelDone
        BY <2>1, <2>4 DEF SingleLevelDone
    <2>5. CASE \/ PlanWithoutReuse \/ OneTooLarge \/ MultiLevelDone \/ AlreadyPlanned
               \/ FailToPlan \/ LowerLevel \/ RestartWithSplitOutline \/ GiveUp \/ Finished
               \/ StartSingleLevel \/ StartWorkspace
        <3>1. his' = his
            BY <2>5 DEF PlanWithoutReuse, OneTooLarge, MultiLevelDone, AlreadyPlanned, FailToPlan,
                        LowerLevel, RestartWithSplitOutline, GiveUp, Finished, StartSingleLevel,
                        StartWorkspace, vars
        <3> QED BY <2>1, <3>1
    <2> QED BY <1>1, <2>2, <2>3, <2>4, <2>5 DEF Next
<1> QED BY <1>1, Invariance, PTL DEF Spec, RollBackExact

(* A finished plan gives every copy of every buffer an address in the      *)
(* memory, that of its plan in the history: whatever was taken back, made  *)
(* again at another level, or entered before its turn.                     *)
THEOREM PlansAreComplete ==
    Spec => []PlanComplete
<1>1. Init => CompleteInv BY StartsComplete
<1>2. IInv /\ CompleteInv /\ [Next]_vars => CompleteInv'
    <2> SUFFICES ASSUME IInv, CompleteInv, [Next]_vars PROVE CompleteInv'
        OBVIOUS
    <2>1. CASE PlanEntry BY <2>1, PlanEntryCompletes
    <2>2. CASE EnterOther BY <2>2, EnterOtherCompletes
    <2>3. CASE RollBack BY <2>3, RollBackCompletes
    <2>4. CASE SingleLevelDone \/ MultiLevelDone BY <2>4, DoneCompletes
    <2>5. CASE PlanWithoutReuse BY <2>5, WithoutReuseCompletes
    <2>6. CASE \/ OneTooLarge \/ StartSingleLevel \/ StartWorkspace \/ AlreadyPlanned
               \/ FailToPlan \/ LowerLevel \/ RestartWithSplitOutline \/ GiveUp \/ Finished
               \/ UNCHANGED vars
        BY <2>6, QuietCompletes
    <2> QED BY <2>1, <2>2, <2>3, <2>4, <2>5, <2>6 DEF Next
<1>3. CompleteInv => PlanComplete BY DEF CompleteInv
<1> QED BY <1>1, <1>2, <1>3, Invariance, PTL DEF Spec
=============================================================================
