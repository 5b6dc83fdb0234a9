---------------------------- MODULE MCKernelRun ----------------------------
EXTENDS KernelRun

Instr(o, a, b) == [op |-> o, bank |-> "none", imm0 |-> a, imm1 |-> b]

(* NOP 0 (which stalls for NopMod - 1 cycles), NOP 2, a data operation,    *)
(* EXIT, and jumps to themselves, to the previous entry and further back.  *)
MCWords == {Instr("NOP", 0, 0), Instr("NOP", 2, 0), Instr("EXE", 0, 0), Instr("EXIT", 0, 0),
            Instr("JUMP", 0, 1), Instr("JUMP", 1, 1), Instr("JUMP", 1, 2), Instr("JUMP", 2, 2),
            Instr("JUMP", 3, 1)}
=============================================================================
