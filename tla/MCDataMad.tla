----------------------------- MODULE MCDataMad -----------------------------
EXTENDS MCDataRun

(* MAD after a load, with a second factor in GRF_B. *)
MCMad == {Ins("MAD", A, 1, E, 0, B, 1, S, FALSE, FALSE)}

(* The decoder's own formula for MAD (comment over its case OP_MAD),       *)
(* "DST(DST_N) = SRC0(SRC0_N) * SRC1(SRC1_N) + SRC2(SRC1_N)", holds of     *)
(* every MAD: when one is over, the registers are what it says.            *)
MadFormula == ctl = {} => regs = ref
=============================================================================
