---------------------------- MODULE MappedKernel ----------------------------
(***************************************************************************)
(* A mapped kernel on its way through the assembler: map_kernel writes the *)
(* three files of a job, nmc_assembler reads them.  It fills the CRF and   *)
(* the scalar registers as the assembly file says and, at each EXEC, walks *)
(* through the CRF; an instruction on a bank takes the next line of the    *)
(* address file, one that loads the next line of the data file, which is   *)
(* what a host or test bench finds in that column.  Nothing but the order  *)
(* of the lines keeps the three files together.                            *)
(*                                                                         *)
(* The core follows, one instruction per command: its registers and the    *)
(* columns it has stored are those the commands of the walk leave.         *)
(***************************************************************************)
EXTENDS MapVA, MapDP, MapMM, MapConv

CONSTANTS
  Jobs      \* the jobs that are mapped

Kernels == {"EWARW", "EWACW", "DP", "MMS", "CCWWR"}

(* No size is 0, and of a kernel limited by the CRF at least one operand   *)
(* fits: map_kernel divides by that number.                                *)
Sizes(j) == CASE j.kernel \in {"EWARW", "EWACW", "DP"} -> {j.V, j.n}
              [] j.kernel = "MMS" -> {j.m, j.n, j.q}
              [] j.kernel = "CCWWR" -> {j.ci, j.wi, j.hi, j.k, j.co, j.wo, j.ho, j.stride}
Fewest(j) == IF j.kernel = "DP" THEN 6 ELSE 5
ASSUME JobsAssumption ==
  \A j \in Jobs :
    /\ j.kernel \in Kernels
    /\ Sizes(j) \cup {j.CRF_ENTRIES, j.GRF_ENTRIES, j.SRF_M_ENTRIES} \subseteq Nat \ {0}
    /\ j.CRF_ENTRIES >= Fewest(j)

(* Column-wise, an odd segment gives data lines that are too long.  With   *)
(* an odd number of scalar registers the R-limited product and convolution *)
(* have a MAC and an address less than scalars and data lines.  A          *)
(* convolution needs more than one weight in a set, and a peeled part goes *)
(* on from the program of the later sets, with no more weights than those. *)
Handled(j) ==
  CASE j.kernel = "EWACW" -> VaRLim(j) \/ Even(VaSegment(j))
    [] j.kernel = "MMS" -> MmMacs(j) = MmSegment(j)
    [] j.kernel = "CCWWR" ->
         /\ ConvSegment(j) > 1 /\ ConvMacs(j) = ConvSegment(j)
         /\ ConvPeeling(j) = 0 \/ (ConvSets(j) > 1 /\ ConvPeeling(j) <= ConvSegment(j))
    [] OTHER -> TRUE

VARIABLES
  job,        \* what is mapped
  assembly,   \* lines of the assembly file not read yet
  addrFile,   \* the same of the address file
  dataFile,   \* and of the data file
  crf,        \* the program
  exec,       \* inside the loop of an EXEC line
  execIdx, jmpAct, jmpNum,   \* the walk: entry, loop in progress, jumps left
  regs,       \* the registers written so far
  mem,        \* the columns loaded or stored so far
  results     \* the columns stored, in the order of their first store

vars == <<job, assembly, addrFile, dataFile, crf, exec, execIdx, jmpAct, jmpNum,
          regs, mem, results>>
walk == <<exec, execIdx, jmpAct, jmpNum>>

-----------------------------------------------------------------------------
(* The switch over the kernels. *)
Assembly(j) == CASE j.kernel \in {"EWARW", "EWACW"} -> VaAssembly(j)
                 [] j.kernel = "DP" -> DpAssembly(j)
                 [] j.kernel = "MMS" -> MmAssembly(j)
                 [] j.kernel = "CCWWR" -> ConvAssembly(j)
Addresses(j) == CASE j.kernel \in {"EWARW", "EWACW"} -> VaAddresses(j)
                  [] j.kernel = "DP" -> DpAddresses(j)
                  [] j.kernel = "MMS" -> MmAddresses(j)
                  [] j.kernel = "CCWWR" -> ConvAddresses(j)
Data(j) == CASE j.kernel \in {"EWARW", "EWACW"} -> VaData(j)
             [] j.kernel = "DP" -> DpData(j)
             [] j.kernel = "MMS" -> MmData(j)
             [] j.kernel = "CCWWR" -> ConvData(j)

(* What a job is to compute: its outputs, and of each the reference value  *)
(* and the result word and lane it is to be found in.                      *)
Outputs(j) == CASE j.kernel \in {"EWARW", "EWACW"} -> VaOutputs(j)
                [] j.kernel = "DP" -> DpOutputs(j)
                [] j.kernel = "MMS" -> MmOutputs(j)
                [] j.kernel = "CCWWR" -> ConvOutputs(j)
Place(j, out) == CASE j.kernel \in {"EWARW", "EWACW"} -> VaPlace(j, out)
                   [] j.kernel = "DP" -> DpPlace(j, out)
                   [] j.kernel = "MMS" -> MmPlace(j, out)
                   [] j.kernel = "CCWWR" -> ConvPlace(j, out)
Reference(j, out) == CASE j.kernel \in {"EWARW", "EWACW"} -> VaReference(j, out)
                       [] j.kernel = "DP" -> DpReference(j, out)
                       [] j.kernel = "MMS" -> MmReference(j, out)
                       [] j.kernel = "CCWWR" -> ConvReference(j, out)

(* The arithmetic of the layout holds for the sizes of the job. *)
LaidOut(j) == CASE j.kernel \in {"EWARW", "EWACW"} -> VaLaidOut(j)
                [] j.kernel = "DP" -> DpLaidOut(j)
                [] j.kernel = "MMS" -> MmLaidOut(j)
                [] j.kernel = "CCWWR" -> ConvLaidOut(j)

-----------------------------------------------------------------------------
(* Registers or columns f, with value v in x from now on. *)
With(f, x, v) == [y \in DOMAIN f \cup {x} |-> IF y = x THEN v ELSE f[y]]

(* An instruction on a bank needs an address, a load also a data line.     *)
BankOperands(ins) ==
  IF ins.op \in {"JUMP", "EXIT"} THEN {}
  ELSE {o \in ToSet(ins.src) \cup {ins.dst} : IsBank(o)}
IsStore(ins) == ins.op = "MOV" /\ IsBank(ins.dst)
(* What an instruction reads: a MAC adds to its destination.               *)
ReadsFrom(ins) == ToSet(ins.src) \cup (IF ins.op = "MAC" THEN {ins.dst} ELSE {})

(* The value of an operand in a lane: a bank shows the data line, a scalar *)
(* goes to all lanes.                                                      *)
Value(operand, x) ==
  IF IsBank(operand) THEN Head(dataFile)[x + 1]
  ELSE IF Len(regs[operand]) = 1 THEN regs[operand][1]
  ELSE regs[operand][x + 1]

Computed(ins) ==
  Line(LAMBDA x :
    LET v(i) == Value(ins.src[i], x)
    IN CASE ins.op = "MOV" -> v(1)
         [] ins.op = "ADD" -> Plus(v(1), v(2))
         [] ins.op = "MAC" -> Plus(Value(ins.dst, x), Times(v(1), v(2)))
         [] ins.op = "MAD" -> Plus(v(3), Times(v(1), v(2))))

-----------------------------------------------------------------------------
Init ==
  /\ job \in Jobs
  /\ assembly = Assembly(job)
  /\ addrFile = Addresses(job)
  /\ dataFile = Data(job)
  /\ crf = << >>
  /\ exec = FALSE /\ execIdx = 0 /\ jmpAct = FALSE /\ jmpNum = 0
  /\ regs = << >> /\ mem = << >> /\ results = << >>

ReadLine(kind) ==
  /\ ~exec /\ assembly # << >>
  /\ Head(assembly).line = kind
  /\ assembly' = Tail(assembly)

(* WRF CRF and the instructions that follow it. *)
WriteCrf ==
  /\ ReadLine("WRF CRF")
  /\ LET at == Head(assembly).at
         new == Head(assembly).instrs
         written == at .. at + Len(new) - 1
     IN crf' = [e \in DOMAIN crf \cup written |->
                  IF e \in written THEN new[e - at + 1] ELSE crf[e]]
  /\ UNCHANGED <<job, addrFile, dataFile, walk, regs, mem, results>>

(* WRF SRF with its value from the data file. *)
WriteScalar ==
  /\ ReadLine("WRF SRF")
  /\ dataFile # << >>
  /\ regs' = With(regs, Head(assembly).reg, Head(dataFile))
  /\ dataFile' = Tail(dataFile)
  /\ UNCHANGED <<job, addrFile, crf, walk, mem, results>>

BeginExec ==
  /\ ReadLine("EXEC")
  /\ exec' = TRUE /\ execIdx' = 0 /\ jmpAct' = FALSE /\ jmpNum' = 0
  /\ UNCHANGED <<job, addrFile, dataFile, crf, regs, mem, results>>

Walking == exec /\ execIdx \in DOMAIN crf

Load ==
  /\ Walking /\ BankOperands(crf[execIdx]) # {} /\ ~IsStore(crf[execIdx])
  /\ addrFile # << >> /\ dataFile # << >>
  /\ regs' = With(regs, crf[execIdx].dst, Computed(crf[execIdx]))
  /\ mem' = IF Head(addrFile) \in DOMAIN mem THEN mem
            ELSE With(mem, Head(addrFile), Head(dataFile))
  /\ addrFile' = Tail(addrFile) /\ dataFile' = Tail(dataFile)
  /\ execIdx' = execIdx + 1
  /\ UNCHANGED <<job, assembly, crf, exec, jmpAct, jmpNum, results>>

Store ==
  /\ Walking /\ IsStore(crf[execIdx])
  /\ addrFile # << >>
  /\ mem' = With(mem, Head(addrFile), Computed(crf[execIdx]))
  /\ results' = IF Head(addrFile) \in ToSet(results) THEN results
                ELSE Append(results, Head(addrFile))
  /\ addrFile' = Tail(addrFile)
  /\ execIdx' = execIdx + 1
  /\ UNCHANGED <<job, assembly, dataFile, crf, exec, jmpAct, jmpNum, regs>>

JumpBack ==
  /\ Walking /\ crf[execIdx].op = "JUMP"
  /\ LET length == crf[execIdx].dst[1]
         times == crf[execIdx].dst[2]
     IN IF jmpAct /\ jmpNum = 0
        THEN jmpAct' = FALSE /\ execIdx' = execIdx + 1 /\ UNCHANGED jmpNum
        ELSE /\ jmpAct' = TRUE
             /\ jmpNum' = (IF jmpAct THEN jmpNum ELSE times) - 1
             /\ execIdx' = execIdx - length
  /\ UNCHANGED <<job, assembly, addrFile, dataFile, crf, exec, regs, mem, results>>

Exit ==
  /\ Walking /\ crf[execIdx].op = "EXIT"
  /\ exec' = FALSE
  /\ UNCHANGED <<job, assembly, addrFile, dataFile, crf, execIdx, jmpAct, jmpNum,
                 regs, mem, results>>

Done == ~exec /\ assembly = << >>
Finished == Done /\ UNCHANGED vars

Next == WriteCrf \/ WriteScalar \/ BeginExec \/ Load \/ Store \/ JumpBack \/ Exit \/ Finished
Spec == Init /\ [][Next]_vars

-----------------------------------------------------------------------------
(* The program fits the CRF, whatever part of it was overwritten, all      *)
(* registers it names exist, and each register holds a line.               *)
Registers(j) == {Grf(i) : i \in 0 .. 2 * j.GRF_ENTRIES - 1}
                \cup {SrfM(i) : i \in 0 .. j.SRF_M_ENTRIES - 1} \cup {SrfA0}
TypeOK ==
  /\ job \in Jobs
  /\ DOMAIN crf \subseteq 0 .. job.CRF_ENTRIES - 1
  /\ exec \in BOOLEAN /\ jmpAct \in BOOLEAN /\ jmpNum \in Nat
  /\ exec => execIdx \in DOMAIN crf
  /\ \A e \in DOMAIN crf : crf[e].op \in {"JUMP", "EXIT"}
       \/ \A o \in ToSet(crf[e].src) \cup {crf[e].dst} : IsBank(o) \/ o \in Registers(job)
  /\ DOMAIN regs \subseteq Registers(job)
  /\ \A o \in DOMAIN regs : Len(regs[o]) \in {1, SIMD_WIDTH}
  /\ ToSet(results) \subseteq DOMAIN mem

(* The three files stay in step through loops, peeled parts and several    *)
(* EXECs: a bank instruction finds an address of its own bank, a load a    *)
(* line for all lanes and a scalar register one value; registers have been *)
(* written before they are read; and when the assembly file ends, so have  *)
(* the other two.                                                          *)
FilesAgree ==
  /\ (~exec /\ assembly # << >> /\ Head(assembly).line = "WRF SRF") =>
       dataFile # << >> /\ Len(Head(dataFile)) = 1
  /\ Walking => \A o \in BankOperands(crf[execIdx]) :
       /\ addrFile # << >> /\ Head(addrFile)[1] = o[1]
       /\ IsStore(crf[execIdx]) \/ (dataFile # << >> /\ Len(Head(dataFile)) = SIMD_WIDTH)
       /\ \A s \in ReadsFrom(crf[execIdx]) : IsBank(s) \/ s \in DOMAIN regs
  /\ Done => addrFile = << >> /\ dataFile = << >>

(* Where the arithmetic of the layout holds, address and data files        *)
(* describe one memory: a column loaded again, or after the kernel has     *)
(* stored it, shows what it held.  Lanes outside the operands are padded   *)
(* with 0 whatever the column holds.                                       *)
OneMemory ==
  (LaidOut(job) /\ Walking /\ BankOperands(crf[execIdx]) # {} /\ ~IsStore(crf[execIdx])) =>
    LET column == Head(addrFile)
    IN column \in DOMAIN mem =>
         \A x \in 1 .. SIMD_WIDTH : Head(dataFile)[x] \in {Zero, mem[column][x]}

(* When all EXECs are over, every output stands in its place among the     *)
(* stored columns, and is the sum the kernel is to compute, term by term.  *)
Result ==
  Done => \A out \in Outputs(job) :
    LET place == Place(job, out)
    IN /\ place[1] < Len(results)
       /\ mem[results[place[1] + 1]][place[2] + 1] = Reference(job, out)
=============================================================================
