------------------------------ MODULE Lockstep ------------------------------
(***************************************************************************)
(* The toolchain and the core together: the assembler writes the raw       *)
(* sequence, the DRAM simulator spaces its lines, and the control unit     *)
(* receives them.  Nothing but the order of the lines ties the walk of the *)
(* assembler to the program counter of the core: a trigger carries the     *)
(* address and the data of one instruction, and the core executes it on    *)
(* whichever instruction its PC is at.                                     *)
(*                                                                         *)
(* The DRAM simulator is assumed to keep the order and to leave at least   *)
(* Spacing cycles from one command to the next.                            *)
(***************************************************************************)
EXTENDS ControlUnit, Assembler

CONSTANTS
  Source,    \* the instructions a source line may hold
  Spacing    \* fewest cycles between two commands

ASSUME LockstepAssumption ==
  /\ Source \subseteq Instruction
  /\ Spacing \in Nat /\ Spacing > 0

VARIABLES
  pos,     \* lines of the raw sequence delivered to the core
  since    \* cycles since the last of them, up to Spacing

vars == <<cuVars, asmVars, pos, since>>

-----------------------------------------------------------------------------
(* An instruction keeps its meaning when it is packed and the commands do  *)
(* not overrun it: immediates fit their fields and a NOP is over when the  *)
(* next command can come.                                                  *)
Fits(ins) ==
  /\ ins.imm0 < Imm0Mod /\ ins.imm1 < Imm1Mod
  /\ ins.op = "NOP" => ins.imm0 \in 1 .. Spacing

(* The array holds a program an EXEC can be used on. *)
Executable(p) ==
  \E e \in 0 .. CrfEntries :
    /\ WellFormed(p, e)
    /\ \A i \in CrfIndex : i < e => p[i].op # "NONE" /\ Fits(p[i])

Init == CuInit /\ AsmInit /\ pos = 0 /\ since = Spacing

ReadSource ==
  \/ \E n \in 0 .. CrfEntries : WrfCrf(n)
  \/ \E ins \in Source : WriteInstr(ins)
  \/ \E part \in Source \cup {Unset} : RejectInstr(part)
  \/ WrfData \/ MisplacedInstr \/ EndOfSource
  \/ Executable(crfInstr) /\ StartExec

Walk == ExecInstr \/ ExecNoData

Assemble == (ReadSource \/ Walk) /\ UNCHANGED <<cuVars, pos, since>>

-----------------------------------------------------------------------------
(* The raw sequence is simulated when the assembler has ended. *)
Simulating == eof \/ error

(* The next line reaches the core. *)
Deliver ==
  /\ Simulating
  /\ pos < Len(rawSeq)
  /\ since = Spacing
  /\ LET line == rawSeq[pos + 1]
     IN \/ line.kind = "CRF" /\ WriteCrf(line.entry, line.word)
        \/ line.kind = "RF" /\ Idle
        \/ line.kind = "TRIGGER" /\ Trigger
  /\ pos' = pos + 1
  /\ since' = 1
  /\ UNCHANGED asmVars

(* A cycle without a command. *)
Tick ==
  /\ Simulating
  /\ Idle
  /\ since' = IF since < Spacing THEN since + 1 ELSE since
  /\ UNCHANGED <<asmVars, pos>>

Next == Assemble \/ Deliver \/ Tick

(* The assembler is one sequential program: a walk it is in goes on. *)
Fairness == WF_vars(Walk /\ UNCHANGED <<cuVars, pos, since>>)

Spec == Init /\ [][Next]_vars /\ Fairness

-----------------------------------------------------------------------------
TypeOK ==
  /\ ControlUnitTypeOK
  /\ AssemblerTypeOK
  /\ pos \in 0 .. Len(rawSeq)
  /\ since \in 1 .. Spacing

(* A trigger meets the instruction it was written for: when it can be      *)
(* delivered, the core's PC is at the entry the walk was at, the CRF holds *)
(* there the word the assembler packed, and no NOP swallows the command.   *)
InStep ==
  (pos < Len(rawSeq) /\ since = Spacing /\ Simulating) =>
    LET line == rawSeq[pos + 1]
    IN line.kind = "TRIGGER" =>
         pc = line.entry /\ Fetched = line.word /\ nop_cnt = 0

(* A bank is driven or sampled on the right command: an instruction that   *)
(* stores to a bank is triggered by a WR, one that loads from it by a RD.  *)
BankCommand ==
  [][ (Deliver /\ rawSeq[pos + 1].kind = "TRIGGER") =>
        LET cmd == rawSeq[pos + 1].cmd
        IN /\ Fetched.bank = "store" => cmd = "WR"
           /\ Fetched.bank = "load" => cmd = "RD" ]_vars

(* After a source without errors the core is at rest at entry 0, ready for *)
(* another EXEC, and its CRF holds what the assembler's array says.        *)
Drained ==
  (eof /\ pos = Len(rawSeq) /\ since = Spacing) =>
    /\ pc = 0 /\ ~jmp_act /\ nop_cnt = 0
    /\ \A i \in CrfIndex : crf[i] = BuildInstr(crfInstr[i])

(* The walk of an EXEC through an executable program comes to an end. *)
WalkEnds == exec ~> ~exec
=============================================================================
