--------------------------- MODULE MCPipeMachine ---------------------------
(* The machine on every short program of two pipes, synchronised or not,   *)
(* and on programs that synchronise a double-buffered loop.                 *)
EXTENDS PipeMachine

CONSTANTS A, B, Length

AB == <<A, B, 0>>
BA == <<B, A, 0>>

Short ==
    {Access(A, {}, {1}), Access(B, {1}, {}), Set(AB), Wait(AB), Set(BA), Wait(BA),
     BarrierOn(A), BarrierOn(All)}

(* Two trips of a loop in which A writes what B reads, one buffer.          *)
Trip      == <<Wait(BA), Access(A, {}, {1}), Set(AB), Wait(AB), Access(B, {1}, {}), Set(BA)>>
OneBuffer == <<Set(BA)>> \o Trip \o Trip \o <<Wait(BA)>>

(* As the solver would share an id among pairs that meet.                   *)
SharedId  == <<Set(AB), Set(AB), Wait(AB), Access(B, {}, {1}), Set(BA), Wait(AB), Wait(BA),
               Access(A, {1}, {}), BarrierOn(All), Access(B, {}, {1})>>

MCCodes == UNION {[1 .. n -> Short] : n \in 0 .. Length} \cup {OneBuffer, SharedId}

MCInit == code \in MCCodes /\ Start
MCSpec == MCInit /\ [][Next]_vars
=============================================================================
