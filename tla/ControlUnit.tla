---------------------------- MODULE ControlUnit ----------------------------
(***************************************************************************)
(* The control unit of a near-memory core: the Command Register File, the  *)
(* program counter unit and the control half of the instruction decoder    *)
(* (NOP counter, the one loop register, EXIT).                             *)
(*                                                                         *)
(* One action is one clock cycle.  In a cycle the core receives nothing    *)
(* (Idle), a RD/WR command that triggers the decoder (Trigger) or a write  *)
(* of an instruction word to the CRF (WriteCrf); the clock edge then       *)
(* latches what the combinational methods of the units computed from it.   *)
(***************************************************************************)
EXTENDS Isa

CONSTANTS
  PcMod,    \* 2^width of the PC and of the jump distance (uint8_t, 2^8)
  NopMod,   \* 2^width of the NOP counter (uint8_t, 2^8)
  JmpMod    \* 2^width of the jump counter (uint, 2^32)

ASSUME ControlUnitAssumption ==
  /\ PcMod \in Nat /\ PcMod >= CrfEntries /\ PcMod >= Imm0Mod
  /\ NopMod \in Nat /\ NopMod >= Imm0Mod
  /\ JmpMod \in Nat /\ JmpMod >= Imm1Mod

VARIABLES
  crf,       \* contents of the CRF
  pc,        \* pc_reg
  nop_cnt,   \* nop_cnt_reg: cycles during which commands are still ignored
  jmp_act,   \* jmp_act_reg: a loop is in progress
  jmp_cnt    \* jmp_cnt_reg: jumps the loop has still to make

cuVars == <<crf, pc, nop_cnt, jmp_act, jmp_cnt>>

ControlUnitTypeOK ==
  /\ crf \in [CrfIndex -> Word]
  /\ pc \in 0 .. PcMod - 1
  /\ nop_cnt \in 0 .. NopMod - 1
  /\ jmp_act \in BOOLEAN
  /\ jmp_cnt \in 0 .. JmpMod - 1

-----------------------------------------------------------------------------
(* An unsigned counter of m values, less one. *)
Dec(x, m) == IF x = 0 THEN m - 1 ELSE x - 1

(* The word the CRF shows: an address past its end reads as 0. *)
Fetched == IF pc \in CrfIndex THEN crf[pc] ELSE ZeroWord

(* pc_unit: the counter steps and starts again after the last entry, and a *)
(* jump subtracts a distance from it in 8 bits.  (PcCountedOn and          *)
(* PcJumpedShort are mutants: no wrap, and a jump one entry short.)        *)
PcCountedOn == pc + 1
PcCounted == IF pc < CrfEntries - 1 THEN pc + 1 ELSE 0
PcJumpedShort(n) == IF n <= pc + 1 THEN pc + 1 - n ELSE pc + 1 + PcMod - n
PcJumped(n) == IF n <= pc THEN pc - n ELSE pc + PcMod - n

(* The NOP counter runs down in every cycle that does not load it.         *)
(* (NopHeld is a mutant: it does not.)                                     *)
NopHeld == nop_cnt
NopTicked == IF nop_cnt = 0 THEN 0 ELSE nop_cnt - 1

-----------------------------------------------------------------------------
CuInit ==
  /\ crf = [i \in CrfIndex |-> ZeroWord]
  /\ pc = 0
  /\ nop_cnt = 0
  /\ jmp_act = FALSE
  /\ jmp_cnt = 0

(* The active-low reset clears every register and the register file. *)
Reset ==
  /\ crf' = [i \in CrfIndex |-> ZeroWord]
  /\ pc' = 0
  /\ nop_cnt' = 0
  /\ jmp_act' = FALSE
  /\ jmp_cnt' = 0

(* No command, or one that is not for the control unit. *)
Idle ==
  /\ nop_cnt' = NopTicked
  /\ UNCHANGED <<crf, pc, jmp_act, jmp_cnt>>

(* The interface unit passes a word for entry i on. *)
WriteCrf(i, w) ==
  /\ crf' = [crf EXCEPT ![i] = w]
  /\ nop_cnt' = NopTicked
  /\ UNCHANGED <<pc, jmp_act, jmp_cnt>>

(* A trigger during a NOP is lost: decode_en has no effect. *)
IgnoreTrigger ==
  /\ nop_cnt # 0
  /\ Idle

(* Mutant: the fetch does not count. *)
DecodeNopLate ==
  /\ Fetched.op = "NOP"
  /\ nop_cnt' = Fetched.imm0
  /\ pc' = PcCounted
  /\ UNCHANGED <<crf, jmp_act, jmp_cnt>>

(* NOP: the fetch counts as the first of its IMM0 cycles. *)
DecodeNop ==
  /\ Fetched.op = "NOP"
  /\ nop_cnt' = Dec(Fetched.imm0, NopMod)
  /\ pc' = PcCounted
  /\ UNCHANGED <<crf, jmp_act, jmp_cnt>>

(* Mutant: the first jump does not count. *)
StartLoopLate ==
  /\ ~jmp_act
  /\ jmp_act' = TRUE
  /\ jmp_cnt' = Fetched.imm1
  /\ pc' = PcJumped(Fetched.imm0)

(* JUMP, first sight of it: IMM1 jumps are to be made, this is the first. *)
StartLoop ==
  /\ ~jmp_act
  /\ jmp_act' = TRUE
  /\ jmp_cnt' = Dec(Fetched.imm1, JmpMod)
  /\ pc' = PcJumped(Fetched.imm0)

(* JUMP, still more jumps to make. *)
RepeatLoop ==
  /\ jmp_act /\ jmp_cnt # 0
  /\ jmp_act' = TRUE
  /\ jmp_cnt' = jmp_cnt - 1
  /\ pc' = PcJumped(Fetched.imm0)

(* Mutant: the loop stays registered. *)
LeaveLoopActive ==
  /\ jmp_act /\ jmp_cnt = 0
  /\ pc' = PcCounted
  /\ UNCHANGED <<jmp_act, jmp_cnt>>

(* JUMP, last jump made: fall through. *)
LeaveLoop ==
  /\ jmp_act /\ jmp_cnt = 0
  /\ jmp_act' = FALSE
  /\ pc' = PcCounted
  /\ UNCHANGED jmp_cnt

DecodeJump ==
  /\ Fetched.op = "JUMP"
  /\ StartLoop \/ RepeatLoop \/ LeaveLoop
  /\ nop_cnt' = NopTicked
  /\ UNCHANGED crf

(* Mutant: EXIT steps like any other instruction. *)
DecodeExitStepping ==
  /\ Fetched.op = "EXIT"
  /\ pc' = PcCounted
  /\ nop_cnt' = NopTicked
  /\ UNCHANGED <<crf, jmp_act, jmp_cnt>>

(* EXIT resets the PC only. *)
DecodeExit ==
  /\ Fetched.op = "EXIT"
  /\ pc' = 0
  /\ nop_cnt' = NopTicked
  /\ UNCHANGED <<crf, jmp_act, jmp_cnt>>

(* A data operation leaves the control unit at the next entry. *)
DecodeExe ==
  /\ Fetched.op = "EXE"
  /\ pc' = PcCounted
  /\ nop_cnt' = NopTicked
  /\ UNCHANGED <<crf, jmp_act, jmp_cnt>>

Decode ==
  /\ nop_cnt = 0
  /\ DecodeNop \/ DecodeJump \/ DecodeExit \/ DecodeExe

Trigger == IgnoreTrigger \/ Decode
=============================================================================
