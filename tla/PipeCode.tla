------------------------------ MODULE PipeCode ------------------------------
(* The instructions of the pipes: an access to memory, a set_flag and a     *)
(* wait_flag, and a barrier for one pipe or for all.  A flag is the pipe    *)
(* that sets it, the pipe that waits for it, and an event id.               *)

All    == "all"
NoFlag == <<>>

Instr(k, pipe, rd, wr, flag) ==
    [kind |-> k, pipe |-> pipe, rd |-> rd, wr |-> wr, flag |-> flag]

Access(p, rd, wr) == Instr("rw", p, rd, wr, NoFlag)
Set(f)            == Instr("set", f[1], {}, {}, f)
Wait(f)           == Instr("wait", f[2], {}, {}, f)
BarrierOn(p)      == Instr("barrier", p, {}, {}, NoFlag)
=============================================================================
