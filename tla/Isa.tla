-------------------------------- MODULE Isa --------------------------------
(***************************************************************************)
(* The near-memory instruction set as the control path sees it: the        *)
(* operation, the two immediates and whether an operand is a DRAM bank.    *)
(* The data operations MOV, FILL, ADD, MUL, MAD and MAC differ only in the *)
(* data path (module DataPath), so here they are one operation, "EXE".     *)
(***************************************************************************)
EXTENDS Integers

CONSTANTS
  CrfEntries,   \* entries of the Command Register File (CRF_ENTRIES, 32)
  Imm0Mod,      \* 2^width of field IMM0 of the instruction word (2^8)
  Imm1Mod       \* 2^width of field IMM1 of the instruction word (2^11)

ASSUME IsaAssumption ==
  /\ CrfEntries \in Nat /\ CrfEntries > 1
  /\ Imm0Mod \in Nat /\ Imm0Mod > 1
  /\ Imm1Mod \in Nat /\ Imm1Mod > 1

CrfIndex == 0 .. CrfEntries - 1

Operations == {"NOP", "JUMP", "EXIT", "EXE"}

(* How an instruction meets the DRAM banks: a bank is read, a bank is      *)
(* written, or only register files are involved.                           *)
BankUse == {"none", "load", "store"}

(* A 32-bit instruction word in the CRF. *)
Word == [op : Operations, bank : BankUse, imm0 : 0 .. Imm0Mod - 1, imm1 : 0 .. Imm1Mod - 1]

(* The word 0, the content of the CRF after reset, decodes as NOP 0. *)
ZeroWord == [op |-> "NOP", bank |-> "none", imm0 |-> 0, imm1 |-> 0]

-----------------------------------------------------------------------------
(* Programs.  i is in the loop closed by the JUMP at j of program p. *)
InLoop(p, i, j) == /\ p[j].op = "JUMP"
                   /\ j - p[j].imm0 <= i
                   /\ i <= j

(* Program p runs from entry 0 to entry e, its only EXIT or, when it has   *)
(* none, the end of the CRF; a JUMP goes back inside the program and makes *)
(* at least one jump; and, because the hardware has one loop register, no  *)
(* loop contains another JUMP.                                             *)
WellFormed(p, e) ==
  /\ e \in 0 .. CrfEntries
  /\ e \in CrfIndex => p[e].op = "EXIT"
  /\ \A i \in CrfIndex : i < e => p[i].op # "EXIT"
  /\ \A j \in CrfIndex : (j < e /\ p[j].op = "JUMP") =>
        /\ p[j].imm0 <= j
        /\ p[j].imm1 > 0
        /\ \A i \in CrfIndex : (j - p[j].imm0 <= i /\ i < j) => p[i].op # "JUMP"
=============================================================================
