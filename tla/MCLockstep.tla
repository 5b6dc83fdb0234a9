----------------------------- MODULE MCLockstep -----------------------------
EXTENDS Lockstep

Ins(o, u, a, b) == [op |-> o, bank |-> u, imm0 |-> a, imm1 |-> b]

(* A load, a store, a NOP that lasts as long as the spacing, EXIT, and a   *)
(* jump back.                                                              *)
MCSource == {Ins("EXE", "load", 0, 0), Ins("EXE", "store", 0, 0), Ins("NOP", "none", 2, 0),
             Ins("EXIT", "none", 0, 0), Ins("JUMP", "none", 1, 2)}
=============================================================================
