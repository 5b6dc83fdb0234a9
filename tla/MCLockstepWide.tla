--------------------------- MODULE MCLockstepWide ---------------------------
(***************************************************************************)
(* Lockstep for sources the assembler accepts although an immediate does   *)
(* not fit its field: nmcInst keeps 16 bits of a JUMP's count, the word 11.*)
(***************************************************************************)
EXTENDS Lockstep

Ins(o, u, a, b) == [op |-> o, bank |-> u, imm0 |-> a, imm1 |-> b]

(* Imm1Mod is 4: the count 6 is the count 2 in the word. *)
WideSource == {Ins("EXE", "load", 0, 0), Ins("EXIT", "none", 0, 0), Ins("JUMP", "none", 1, 6)}

WideExec ==
  /\ \E e \in CrfIndex :
       /\ WellFormed(crfInstr, e)
       /\ \A i \in CrfIndex : i < e => crfInstr[i].op # "NONE"
  /\ StartExec
  /\ UNCHANGED <<cuVars, pos, since>>

WideSpec == Init /\ [][Next \/ WideExec]_vars

(* "write to output the {A,R/W,D} sequence that will trigger execution     *)
(* starting from index 0, taking into account the loops"                   *)
(* (nmc_assembler.cpp, case EXEC): the commands written for the loops are  *)
(* the ones the core's loops need.                                         *)
LoopsTakenIntoAccount == InStep
=============================================================================
