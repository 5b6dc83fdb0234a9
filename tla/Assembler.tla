----------------------------- MODULE Assembler -----------------------------
(***************************************************************************)
(* nmc_assembler: turns an assembly source into the raw sequence, one line *)
(* per DRAM command.  It keeps its own copy of the CRF and, at each EXEC,  *)
(* walks through it as it expects the hardware will, because every         *)
(* instruction needs a command of its own to be triggered.                 *)
(*                                                                         *)
(* One action is one source line or, inside an EXEC, one turn of its loop. *)
(* An error ends the run; the lines written before it stay in the file.    *)
(* The address file is taken to be long enough: a walk does not stop where *)
(* it ends but goes on with the address of the line before.                *)
(***************************************************************************)
EXTENDS Isa, Sequences

CONSTANTS
  ImmMod,      \* 2^width of an immediate in the assembler (uint16_t, 2^16)
  ExecMod,     \* 2^width of the index of the walk (uint8_t, 2^8)
  MaxLines,    \* bound: lines of the source
  MaxRaw       \* bound: lines of the raw sequence

ASSUME AssemblerAssumption ==
  /\ ImmMod \in Nat /\ ImmMod >= Imm0Mod /\ ImmMod >= Imm1Mod
  /\ ExecMod \in Nat /\ ExecMod > CrfEntries
  /\ MaxLines \in Nat /\ MaxRaw \in Nat

VARIABLES
  crfInstr,    \* the array of instructions that mimics the CRF
  crfWrMode,   \* a WRF CRF line has been read
  crfIdx,      \* entry the next instruction is written to
  exec,        \* inside the loop of an EXEC line
  execIdx, jmpAct, jmpNum,   \* the walk: entry, loop in progress, jumps left
  error,       \* the run has stopped on an error
  eof,         \* the source has been read to its end
  lines,       \* source lines read
  rawSeq       \* the raw sequence written

asmVars == <<crfInstr, crfWrMode, crfIdx, exec, execIdx, jmpAct, jmpNum, error, eof, lines, rawSeq>>

(* nmcInst: an instruction before it is packed into a word; "NONE" is the  *)
(* opCode -1 of an array element no source line has set.                   *)
Instruction == [op : Operations \cup {"NONE"}, bank : BankUse,
                imm0 : 0 .. ImmMod - 1, imm1 : 0 .. ImmMod - 1]
Unset == [op |-> "NONE", bank |-> "none", imm0 |-> 0, imm1 |-> 0]

(* A line of the raw sequence: a write to the CRF, a write to another      *)
(* register file, or the command that triggers an instruction.  entry and  *)
(* word of a trigger are history: the instruction the assembler meant.     *)
RawLine == [kind : {"CRF", "RF", "TRIGGER"}, cmd : {"RD", "WR"}, entry : CrfIndex, word : Word]

AssemblerTypeOK ==
  /\ crfInstr \in [CrfIndex -> Instruction]
  /\ crfWrMode \in BOOLEAN
  /\ crfIdx \in 0 .. CrfEntries
  /\ exec \in BOOLEAN
  /\ execIdx \in 0 .. ExecMod - 1
  /\ jmpAct \in BOOLEAN
  /\ jmpNum \in 0 .. ImmMod - 1
  /\ error \in BOOLEAN
  /\ eof \in BOOLEAN
  /\ lines \in 0 .. MaxLines
  /\ rawSeq \in Seq(RawLine)

-----------------------------------------------------------------------------
(* build_instr: the fields are cut to the width they have in the word. *)
BuildInstr(ins) ==
  IF ins.op = "NONE" THEN ZeroWord
  ELSE [op |-> ins.op, bank |-> ins.bank, imm0 |-> ins.imm0 % Imm0Mod, imm1 |-> ins.imm1 % Imm1Mod]

(* Mutant: always the default. *)
MemCmdDefault(ins) == "RD"

(* WR for a bank destination, RD for a bank source, else the default RD. *)
MemCmd(ins) == IF ins.bank = "store" THEN "WR" ELSE "RD"

Emit(line) == /\ Len(rawSeq) < MaxRaw
              /\ rawSeq' = Append(rawSeq, line)

CrfLine(word) == [kind |-> "CRF", cmd |-> "WR", entry |-> crfIdx, word |-> word]
RfLine == [kind |-> "RF", cmd |-> "WR", entry |-> 0, word |-> ZeroWord]
TriggerLine == [kind |-> "TRIGGER", cmd |-> MemCmd(crfInstr[execIdx]),
                entry |-> execIdx, word |-> BuildInstr(crfInstr[execIdx])]

walk == <<exec, execIdx, jmpAct, jmpNum>>

-----------------------------------------------------------------------------
AsmInit ==
  /\ crfInstr = [i \in CrfIndex |-> Unset]
  /\ crfWrMode = FALSE /\ crfIdx = 0
  /\ exec = FALSE /\ execIdx = 0 /\ jmpAct = FALSE /\ jmpNum = 0
  /\ error = FALSE /\ eof = FALSE /\ lines = 0
  /\ rawSeq = << >>

(* getline: the next line of the source, if the last was processed. *)
ReadLine ==
  /\ ~error /\ ~eof /\ ~exec
  /\ lines < MaxLines
  /\ lines' = lines + 1
  /\ UNCHANGED eof

(* WRF CRFn: the instructions that follow go to entry n and on. *)
WrfCrf(n) ==
  /\ ReadLine
  /\ IF n < CrfEntries
     THEN crfWrMode' = TRUE /\ crfIdx' = n /\ UNCHANGED error
     ELSE error' = TRUE /\ UNCHANGED <<crfWrMode, crfIdx>>
  /\ UNCHANGED <<crfInstr, walk, rawSeq>>

(* WRF to a GRF or SRF; with the wrong number of values it is an error,    *)
(* but the line is still written.                                          *)
WrfData ==
  /\ ReadLine
  /\ Emit(RfLine)
  /\ error' \in BOOLEAN
  /\ UNCHANGED <<crfInstr, crfWrMode, crfIdx, walk>>

(* Mutant: the index is not checked. *)
WriteInstrUnchecked(ins) ==
  /\ ReadLine
  /\ crfWrMode
  /\ crfInstr' = [i \in CrfIndex |-> IF i = crfIdx THEN ins ELSE crfInstr[i]]
  /\ Emit(CrfLine(BuildInstr(ins)))
  /\ crfIdx' = crfIdx + 1
  /\ UNCHANGED <<crfWrMode, walk, error>>

(* An instruction line: into the array, into the file, next entry.  Data   *)
(* on the line that does not fill whole vectors is an error found last.    *)
WriteInstr(ins) ==
  /\ ReadLine
  /\ crfWrMode /\ crfIdx < CrfEntries
  /\ crfInstr' = [crfInstr EXCEPT ![crfIdx] = ins]
  /\ Emit(CrfLine(BuildInstr(ins)))
  /\ crfIdx' = crfIdx + 1
  /\ error' \in IF ins.op = "EXE" THEN BOOLEAN ELSE {FALSE}
  /\ UNCHANGED <<crfWrMode, walk>>

(* A line that cannot be parsed to its end, or FILL, which is not          *)
(* implemented: an error, after which the word of what was parsed (part)   *)
(* is nevertheless written to the file.                                    *)
RejectInstr(part) ==
  /\ ReadLine
  /\ crfWrMode /\ crfIdx < CrfEntries
  /\ Emit(CrfLine(BuildInstr(part)))
  /\ crfIdx' = crfIdx + 1
  /\ error' = TRUE
  /\ UNCHANGED <<crfInstr, crfWrMode, walk>>

(* An instruction line outside CRF writing mode or past the last entry. *)
MisplacedInstr ==
  /\ ReadLine
  /\ ~(crfWrMode /\ crfIdx < CrfEntries)
  /\ error' = TRUE
  /\ UNCHANGED <<crfInstr, crfWrMode, crfIdx, walk, rawSeq>>

(* EXEC: the walk starts at entry 0 with no loop. *)
StartExec ==
  /\ ReadLine
  /\ exec' = TRUE /\ execIdx' = 0 /\ jmpAct' = FALSE /\ jmpNum' = 0
  /\ UNCHANGED <<crfInstr, crfWrMode, crfIdx, error, rawSeq>>

(* The walk goes on at entry i, or ends if i is past the end of the array. *)
WalkTo(i) ==
  /\ execIdx' = i
  /\ exec' = (i \in CrfIndex)

WalkOn == WalkTo(execIdx + 1)
WalkBack(d) == WalkTo((execIdx - d) % ExecMod)

(* JUMP on the walk: the first of its IMM1 jumps, one more, none left. *)
FirstJump(ins) ==
  /\ ~jmpAct
  /\ jmpAct' = TRUE
  /\ jmpNum' = (ins.imm1 - 1) % ImmMod
  /\ WalkBack(ins.imm0)

(* Mutant: the jumps left are not counted down. *)
NextJumpForever(ins) ==
  /\ jmpAct /\ jmpNum # 0
  /\ WalkBack(ins.imm0)
  /\ UNCHANGED <<jmpAct, jmpNum>>

NextJump(ins) ==
  /\ jmpAct /\ jmpNum # 0
  /\ jmpNum' = jmpNum - 1
  /\ WalkBack(ins.imm0)
  /\ UNCHANGED jmpAct

LastJump ==
  /\ jmpAct /\ jmpNum = 0
  /\ jmpAct' = FALSE
  /\ WalkOn
  /\ UNCHANGED jmpNum

(* One turn of the loop: the trigger of the instruction, then its effect   *)
(* on the walk.                                                            *)
ExecInstr ==
  LET ins == crfInstr[execIdx]
  IN /\ exec
     /\ Emit(TriggerLine)
     /\ \/ /\ ins.op = "EXIT"
           /\ exec' = FALSE
           /\ UNCHANGED <<execIdx, jmpAct, jmpNum>>
        \/ ins.op = "JUMP" /\ (FirstJump(ins) \/ NextJump(ins) \/ LastJump)
        \/ /\ ins.op \notin {"EXIT", "JUMP"}
           /\ WalkOn
           /\ UNCHANGED <<jmpAct, jmpNum>>
     /\ UNCHANGED <<crfInstr, crfWrMode, crfIdx, error, eof, lines>>

(* The data file ends in the middle of an EXEC: the command is written,    *)
(* its data is not, and the run stops there.                               *)
ExecNoData ==
  /\ exec
  /\ crfInstr[execIdx].bank = "load"
  /\ Emit(TriggerLine)
  /\ error' = TRUE
  /\ exec' = FALSE
  /\ UNCHANGED <<crfInstr, crfWrMode, crfIdx, execIdx, jmpAct, jmpNum, eof, lines>>

(* getline fails: the end of the source. *)
EndOfSource ==
  /\ ~error /\ ~eof /\ ~exec
  /\ eof' = TRUE
  /\ UNCHANGED <<crfInstr, crfWrMode, crfIdx, walk, error, lines, rawSeq>>
=============================================================================
