------------------------------ MODULE ImcCore ------------------------------
(***************************************************************************)
(* A near-memory core as it is wired together: the interface unit, the     *)
(* control unit with its CRF, and the data path, on the pins of the DRAM   *)
(* channel and the buses of an even and an odd bank.                       *)
(*                                                                         *)
(* The pins of a cycle are a record: the commands rd and wr, the mode pim, *)
(* the row (of a bank, or a register file), the column col as a number,    *)
(* the beat dq, and the words even and odd on the buses.  Of a SIMD        *)
(* register the first lane is modelled, the one that a beat begins with    *)
(* and that a scalar register takes; an instruction word comes in one      *)
(* beat.                                                                   *)
(***************************************************************************)
EXTENDS ControlUnit, InterfaceUnit, DataPath

CONSTANTS
  AamMod    \* 2^(bits of a register index in an address) (2^AAM_ADDR_BITS, 8)

ASSUME ImcCoreAssumption ==
  /\ AamMod \in Nat /\ AamMod > 0
  /\ InstrClk = 1

coreVars == <<cuVars, iuVars, dpVars>>

-----------------------------------------------------------------------------
(* The row address of a register file, for the interface unit. *)
Class(row) == CASE row \in Grf -> "GRF" [] row \in Srf -> "SRF" [] OTHER -> row

(* The decoder and the interface unit look at the pins in PIM mode only. *)
Decodes(p) == p.pim /\ DecodeEn(Class(p.row), p.rd, p.wr)
Accesses(p) == p.pim /\ RfAccess(Class(p.row), p.rd, p.wr)

(* The indices an address-aligned instruction takes from the address: the  *)
(* low bits of the column for the factors, the bits above for destination  *)
(* and addend.                                                             *)
AamAddr(p) == [src |-> p.col % AamMod, dst |-> (p.col \div AamMod) % AamMod]

(* A data instruction that a command makes the decoder issue. *)
Executes(p) == Decodes(p) /\ nop_cnt = 0 /\ Fetched.op = "EXE"

(* What the decoder drives from this cycle on: the write of a register the *)
(* host has sent, or the signals of an instruction.                        *)
Issued(p) ==
  IF Accesses(p) /\ p.row # "CRF" THEN WriteReg(0, p.row, p.col, Mux.EXT)
  ELSE IF Executes(p) THEN DecodeData(Fetched.data, AamAddr(p)) ELSE {}

-----------------------------------------------------------------------------
ImcInit ==
  /\ CuInit
  /\ IuInit
  /\ DpInit([GRF_A |-> [n \in Entries("GRF_A") |-> 0], GRF_B |-> [n \in Entries("GRF_B") |-> 0],
             SRF_M |-> [n \in Entries("SRF_M") |-> 0], SRF_A |-> [n \in Entries("SRF_A") |-> 0]])

ControlStep(p) ==
  \/ Accesses(p) /\ p.row = "CRF" /\ WriteCrf(p.col, DataOut(p.dq)[1])
  \/ Decodes(p) /\ Trigger
  \/ ~(Accesses(p) /\ p.row = "CRF") /\ ~Decodes(p) /\ Idle

InterfaceStep(p) ==
  \/ p.pim /\ IuCycle(Class(p.row), p.rd, p.wr, p.dq)
  \/ ~p.pim /\ UNCHANGED iuVars

(* Mutant: the words of this cycle are there in the next one. *)
CoreCycleLateWords(p, next) ==
  /\ ControlStep(p)
  /\ InterfaceStep(p)
  /\ Cycle(Issued(p), DataOut(p.dq)[1], [EVEN_BANK |-> p.even, ODD_BANK |-> p.odd])

(* One clock cycle with pins p; next are those of the cycle to come, whose *)
(* words the core finds on its buses then.                                 *)
CoreCycle(p, next) ==
  /\ ControlStep(p)
  /\ InterfaceStep(p)
  /\ Cycle(Issued(p), DataOut(p.dq)[1], [EVEN_BANK |-> next.even, ODD_BANK |-> next.odd])
=============================================================================
